------------------------- MODULE OwnedDurableProofs -------------------------
(***************************************************************************)
(* OwnedStream implements the durable log, for every bound: what can be    *)
(* restored stays restorable, whatever is published, lost or retried after *)
(* it, as long as the process is not stopped, or is stopped once and fails *)
(* in no other way.  If no put fails either, every step preserves Quiet,   *)
(* which says what an operation that is about to be acknowledged has stored*)
(* or is going to store: what it acknowledges can be restored, and no      *)
(* publish is refused.                                                     *)
(***************************************************************************)
EXTENDS OwnedTipProofs

USE DEF Seqs, NoSalt, NoChain, Mem, Job, JobOf, NoMem, NoJob, HasHeader

-----------------------------------------------------------------------------
(* What an acknowledgement promises.                                        *)

\* The types the steps below need.
LEMMA QuietTypes ==
  ASSUME TipInv
  PROVE  /\ StreamInv /\ Tips /\ Founding /\ Calm /\ Awaits
         /\ committed \in Nat /\ base \in Nat /\ base <= committed /\ job.goal \in Nat
         /\ mem.seq \in Nat /\ MaxSeq \in Nat /\ budget \in [Kinds -> Nat]
         /\ pc \in {"idle", "publish"} => op # "add" /\ stateJson # None
BY Zenon, BoundsAssumption DEF TipInv, RestoreInv, StreamInv, CursorsSound, TypeOK, SqliteTypes,
       SqliteSound, TaskTypes, IsMem,
   Founding, Awaits

\* The environment.
LEMMA EnvironmentQuiet ==
  ASSUME TipInv, Quiet, TipInv', AppCommit \/ ExtBackfill \/ ExtTruncate
  PROVE  Quiet'
<1> USE DEF store
<1>1. /\ UNCHANGED <<mem, pc, op, job, snap, incr, stateJson, intent>> /\ committed <= committed' /\ base <= base'
      /\ budget'["stop"] = budget["stop"]
  BY QuietTypes DEF AppCommit, ExtBackfill, ExtTruncate, AppendTxn, Truncated, Spend, Kinds
<1>2. Unblocked' /\ Ours'
  BY Zenon, <1>1 DEF Quiet, Unblocked, Ours, Above, Recorded
<1>4. Chained'
  BY Zenon, <1>1 DEF Quiet, Chained, ChainMatches
<1>3. Goals'
  <2>1. committed \in Nat /\ base \in Nat /\ committed' \in Nat /\ base' \in Nat /\ job.goal \in Nat
    BY Zenon, QuietTypes DEF TipInv, RestoreInv, StreamInv, CursorsSound, TypeOK, SqliteTypes
  <2> QED
    BY <1>1, <2>1 DEF Quiet, Goals
<1> QED
  BY Zenon, <1>2, <1>3, <1>4 DEF Quiet

\* A sync that finds nothing: a removal stops where state.json is.
LEMMA SyncEmptyQuiet ==
  ASSUME TipInv, Quiet, NEW o \in {"sync", "remove"}, SyncEmpty(o)
  PROVE  Quiet'
<1> USE DEF store, sqlite
<1>1. /\ StreamInv /\ Calm /\ pc = "idle" /\ op # "add" /\ HasHeader /\ ~RolledOver(mem) /\ ~HasBatch(mem) /\ Begin(o)
      /\ Finish(o, committed, AfterRead(mem)) /\ UNCHANGED <<snap, incr, stateJson, intent>>
  BY Zenon, QuietTypes DEF SyncEmpty, Begin
<1>2. AfterRead(mem) = Mem(mem.seq, mem.off, salt, mem.chain, mem.sum)
  BY Zenon, <1>1 DEF AfterRead, HasBatch, ChainMatches
<1>3. CASE o = "sync"
  <2>1. /\ pc' = "idle" /\ mem'.seq = mem.seq /\ mem'.sum = mem.sum /\ mem'.off = mem.off
        /\ mem'.chain = mem.chain
    BY <1>1, <1>2, <1>3 DEF Finish
  <2>2. Unblocked' /\ Goals'
    BY Zenon, <1>1, <2>1 DEF Quiet, Unblocked, Goals, Above
  <2>4. Ours'
    BY <1>1, <2>1 DEF Quiet, Ours, Recorded
  <2>3. Chained'
    BY Zenon, <1>1, <2>1 DEF Quiet, Chained, ChainMatches
  <2> QED
    BY Zenon, <2>2, <2>3, <2>4 DEF Quiet
<1>4. CASE o = "remove"
  <2>1. pc' = "stopped" /\ budget["stop"] > 0
    BY Zenon, <1>1, <1>4 DEF Finish, Begin, Spend
  <2>2. mem.seq = stateJson.seq /\ mem.sum = stateJson.sum
    BY Zenon, <1>1, <2>1 DEF Calm
  <2> QED
    BY Zenon, <1>1, <2>1, <2>2 DEF Quiet, Unblocked, Ours, Chained, Goals, Above, Recorded, ChainMatches
<1> QED
  BY Zenon, <1>3, <1>4

\* A rollover begins a snapshot.
LEMMA SyncRolloverQuiet ==
  ASSUME TipInv, Quiet, NEW o \in {"sync", "remove"}, SyncRollover(o)
  PROVE  Quiet'
<1> USE DEF store, sqlite
<1>1. /\ StreamInv /\ pc = "idle" /\ HasHeader /\ pc' = "checkpoint" /\ mem' = AfterRead(mem)
      /\ job'.goal = committed /\ UNCHANGED <<committed, snap, incr, stateJson>>
  BY Zenon, QuietTypes DEF SyncRollover, Begin, StartSnapshot
<1>2. mem'.seq = mem.seq
  BY Zenon, <1>1, AfterReadSound
<1>3. Goals'
  BY <1>1, QuietTypes DEF Goals
<1> QED
  BY Zenon, <1>1, <1>2, <1>3 DEF Quiet, Unblocked, Ours, Chained, Above, ChainMatches

\* A batch is read: its intent is on disk, the one before it is remembered.
LEMMA SyncReadQuiet ==
  ASSUME TipInv, Quiet, NEW o \in {"sync", "remove"}, SyncRead(o)
  PROVE  Quiet'
<1> USE DEF store, sqlite
<1> DEFINE d == IncrSum(mem.sum, walBase + mem.off, committed)
<1>1. /\ StreamInv /\ pc = "idle" /\ HasHeader /\ pc' = "publish" /\ mem' = AfterRead(mem)
      /\ ~RolledOver(mem) /\ HasBatch(mem) /\ UNCHANGED <<snap, incr, stateJson>>
      /\ job' = Job(committed, WalLen, 0, d, intent) /\ intent' = PublishIntent(mem.seq + 1, mem.sum, d)
  BY Zenon, QuietTypes DEF SyncRead, Begin
<1>2. AfterRead(mem) = Mem(mem.seq, mem.off, salt, WalLen, mem.sum)
  BY Zenon, <1>1 DEF AfterRead, HasBatch, ChainMatches
<1>3. mem'.seq = mem.seq /\ mem'.sum = mem.sum /\ mem'.chain = WalLen
  BY <1>1, <1>2
<1>4. job'.goal = committed /\ job'.off = WalLen /\ job'.obj = d /\ job'.prior = intent /\ d.ver = committed
  BY Zenon, <1>1 DEF IncrSum
<1> HIDE DEF d
<1>5. Goals'
  BY <1>1, <1>4, QuietTypes DEF Goals
<1>6. Ours'
  BY Zenon, <1>1, <1>3, <1>4 DEF Quiet, Ours, Recorded
<1>7. Unblocked'
  BY Zenon, <1>1, <1>3 DEF Quiet, Unblocked, Above
<1>8. Chained'
  BY <1>1, <1>3, <1>4 DEF Quiet, Chained, ChainMatches
<1> QED
  BY Zenon, <1>5, <1>6, <1>7, <1>8 DEF Quiet

\* The incremental is stored: nothing is behind it.
LEMMA PublishOkQuiet == ASSUME TipInv, Quiet, PublishOk PROVE Quiet'
<1> USE DEF store, sqlite
<1>1. /\ pc = "publish" /\ pc' = "save" /\ mem' = Mem(mem.seq + 1, job.off, mem.salt, mem.chain, job.obj)
      /\ incr' = [incr EXCEPT ![mem.seq + 1] = job.obj]
      /\ UNCHANGED <<op, job, snap, stateJson, intent, budget>>
  BY Zenon DEF PublishOk
<1>2. /\ Tip(mem, snap, incr) /\ DOMAIN incr = Seqs /\ job.obj.kind = "incr" /\ job.obj.pre = mem.sum
      /\ mem.seq \in Nat /\ mem.seq + 1 \in Seqs
  BY Zenon, <1>1, PublishAtTip, QuietTypes
<1>3. mem'.seq = mem.seq + 1 /\ mem'.sum = job.obj /\ mem'.off = job.off /\ mem'.chain = mem.chain
  BY Zenon, <1>1
<1>4. mem.seq + 2 \in Seqs => incr'[mem.seq + 2] = None
  BY <1>1, <1>2 DEF Tip
<1>5. Ours'
  <2>1. mem'.seq + 1 = mem.seq + 2
    BY <1>2, <1>3
  <2> QED
    BY Zenon, <1>1, <1>2, <1>3, <1>4, <2>1 DEF Quiet, Ours
<1>6. Unblocked'
  BY <1>1, <1>2, <1>3 DEF Quiet, Unblocked, Above
<1>7. Chained' /\ Goals'
  BY Zenon, <1>1, <1>2, <1>3 DEF Quiet, Chained, Goals, ChainMatches, Floor
<1> QED
  BY Zenon, <1>5, <1>6, <1>7 DEF Quiet

\* What was stored before the stop is adopted.
LEMMA PublishAdoptQuiet == ASSUME TipInv, Quiet, PublishAdopt PROVE Quiet'
<1> USE DEF store, sqlite
<1>1. /\ pc = "publish" /\ pc' = "checkpoint" /\ mem'.seq = mem.seq + 1 /\ job'.goal = job.goal
      /\ UNCHANGED <<committed, snap, stateJson>>
  BY Zenon DEF PublishAdopt, StartSnapshot
<1>2. PublishSound /\ committed \in Nat /\ job.goal \in Nat /\ mem.seq \in Nat
  BY Zenon, <1>1, QuietTypes DEF StreamInv, CursorsSound
<1>3. Goals'
  BY <1>1, <1>2 DEF Quiet, Goals, PublishSound, IsSum
<1>4. Unblocked'
  BY <1>1, <1>2 DEF Quiet, Unblocked, Above
<1> QED
  BY Zenon, <1>1, <1>3, <1>4 DEF Quiet, Ours, Chained, ChainMatches

\* Other bytes at the replicator's sequence number are always its own.
LEMMA NeverRefused == ASSUME TipInv, Quiet PROVE ~PublishRefused /\ ~UploadRefused
<1>1. ASSUME PublishRefused PROVE FALSE
  <2>1. pc = "publish" /\ mem.seq + 1 \in Seqs /\ incr[mem.seq + 1] # None /\ ~IsOurPublish(mem.seq + 1)
    BY Zenon, <1>1, PublishAtTip DEF PublishRefused
  <2>2. job.prior = PublishIntent(mem.seq + 1, mem.sum, incr[mem.seq + 1])
    BY Zenon, <2>1 DEF Quiet, Ours, Recorded
  <2>3. incr[mem.seq + 1].pre = mem.sum
    BY Zenon, <2>1, PublishAtTip DEF Tip
  <2>4. /\ job.prior # None /\ job.prior.seq = mem.seq + 1 /\ job.prior.pre = mem.sum
        /\ job.prior.sum = incr[mem.seq + 1]
    BY <2>2 DEF PublishIntent, None
  <2> QED
    BY Zenon, <2>1, <2>3, <2>4 DEF IsOurPublish
<1>2. ASSUME UploadRefused PROVE FALSE
  <2>1. pc = "upload" /\ mem.seq + 1 \in Seqs /\ snap[mem.seq + 1] # None
    BY Zenon, <1>2, QuietTypes DEF UploadRefused, StreamInv, CursorsSound, SnapshotSound
  <2> QED
    BY <2>1, QuietTypes DEF Quiet, Unblocked, Above
<1> QED
  BY Zenon, <1>1, <1>2

-----------------------------------------------------------------------------
(* take_snapshot: the goal goes into the file, the file into the snapshot.  *)

\* The checkpoint, the new blocker, the read of the file.
LEMMA SnapshotQuiet ==
  ASSUME TipInv, Quiet, CheckpointOk \/ Reacquire \/ Encode
  PROVE  Quiet'
<1> USE DEF store, sqlite
<1>1. /\ UNCHANGED <<mem, op, snap, incr, stateJson>> /\ pc \in {"checkpoint", "reacquire", "encode"}
      /\ pc' \in {"reacquire", "encode", "upload"}
  BY Zenon DEF CheckpointOk, Reacquire, Encode
<1>2. Unblocked' /\ Ours'
  BY Zenon, <1>1 DEF Quiet, Unblocked, Ours, Above
<1>3. Chained'
  BY Zenon, <1>1 DEF Quiet, Chained, ChainMatches
<1>4. Goals'
  <2>1. CASE CheckpointOk
    BY Zenon, <2>1 DEF CheckpointOk, Truncated, Quiet, Goals
  <2>2. CASE Reacquire
    <3>1. pc = "reacquire" /\ pc' = "encode" /\ job'.goal = job.goal /\ job'.lo = base
      BY Zenon, <2>2 DEF Reacquire
    <3> QED
      BY Zenon, <3>1 DEF Quiet, Goals
  <2>3. CASE Encode
    <3>1. PICK lo \in {job.lo, base} :
            job' = Job(job.goal, 0, lo, [pre |-> mem.sum, sum |-> FileSum(lo, base)], None)
      BY Zenon, <2>3 DEF Encode
    <3>2. pc = "encode" /\ pc' = "upload" /\ job'.goal = job.goal /\ job'.obj.sum.lo = lo
      BY Zenon, <2>3, <3>1 DEF Encode, FileSum
    <3>3. job.lo \in walBase .. base /\ walBase \in Nat /\ base \in Nat /\ job.goal \in Nat
      BY Zenon, <3>2, QuietTypes DEF StreamInv, CursorsSound, SnapshotSound, TypeOK, SqliteTypes
    <3> QED
      BY <3>1, <3>2, <3>3 DEF Quiet, Goals
  <2> QED
    BY Zenon, <2>1, <2>2, <2>3
<1> QED
  BY Zenon, <1>2, <1>3, <1>4 DEF Quiet

\* The snapshot is stored: nothing is behind it.
LEMMA UploadOkQuiet == ASSUME TipInv, Quiet, UploadOk PROVE Quiet'
<1> USE DEF store, sqlite
<1> DEFINE m == AfterSnapshot(mem, job.obj.sum)
<1>1. /\ StreamInv /\ Tips /\ Founding /\ Calm /\ pc = "upload" /\ mem.seq \in Nat
      /\ snap' = [snap EXCEPT ![mem.seq + 1] = job.obj] /\ UNCHANGED <<incr, stateJson, intent, budget>>
  BY Zenon, QuietTypes DEF UploadOk
<1>2. \/ op = "snapshot" /\ pc' = "idle" /\ mem' = m
      \/ pc' = "save" /\ mem' = m /\ UNCHANGED <<op, job>>
  BY Zenon DEF UploadOk, Finish
<1>3. m.seq = mem.seq + 1 /\ m.sum = job.obj.sum /\ m.off = 0
  BY Zenon DEF AfterSnapshot
<1> HIDE DEF m
<1>4. SnapshotSound /\ DOMAIN snap = Seqs /\ mem.seq + 1 \in Seqs /\ job.obj.sum.kind = "file"
  BY Zenon, <1>1 DEF StreamInv, CursorsSound, TypeOK, StoreTypes, SnapshotSound
<1>5. Unblocked'
  BY <1>1, <1>2, <1>3, <1>4 DEF Quiet, Unblocked, Above
<1>6. Ours'
  <2>1. mem'.seq + 1 \in Seqs => incr'[mem'.seq + 1] = None
    <3>1. CASE op # "add"
      BY <1>1, <1>2, <1>3, <3>1 DEF Tips, Tip
    <3>2. CASE op = "add"
      BY Zenon, <1>1, <1>2, <1>3, <3>2 DEF Founding
    <3> QED
      BY Zenon, <3>1, <3>2
  <2>2. pc' = "save" /\ op' # "add" => ~(budget'["stop"] > 0)
    BY Zenon, <1>1, <1>2 DEF Calm
  <2> QED
    BY Zenon, <1>2, <2>1, <2>2 DEF Ours, Recorded
<1>7. Chained'
  BY Zenon, <1>1, <1>2, <1>3 DEF Quiet, Chained, ChainMatches
<1>8. Goals'
  BY Zenon, <1>1, <1>2, <1>3, <1>4 DEF Quiet, Goals, Floor
<1> QED
  BY Zenon, <1>5, <1>6, <1>7, <1>8 DEF Quiet

-----------------------------------------------------------------------------
(* state.json, registration, the timer, the stop.                           *)

\* The cursor is saved, or is not.
LEMMA SaveQuiet ==
  ASSUME TipInv, Quiet, SaveOk \/ SaveError
  PROVE  Quiet'
<1> USE DEF store, sqlite
<1>1. /\ Founding /\ pc = "save" /\ UNCHANGED <<snap, incr, intent>> /\ stateJson' \in {stateJson, mem}
      /\ Above(mem) /\ ChainMatches(mem) /\ (mem.seq + 1 \in Seqs => incr[mem.seq + 1] = None)
      /\ stateJson # None => ChainMatches(stateJson)
  BY Zenon, QuietTypes DEF SaveOk, SaveError, Quiet, Unblocked, Ours, Chained
<1>2. \/ pc' = "idle" /\ UNCHANGED mem
      \/ pc' = "stopped" /\ (stateJson' = None \/ stateJson' = mem)
  BY Zenon, <1>1 DEF SaveOk, SaveError, Finish, Fail, Founding
<1>3. Unblocked' /\ Ours' /\ Goals'
  BY Zenon, <1>1, <1>2 DEF Unblocked, Ours, Goals, Above, Recorded
<1>4. Chained'
  BY Zenon, <1>1, <1>2 DEF Chained, ChainMatches
<1> QED
  BY Zenon, <1>3, <1>4 DEF Quiet

\* A fresh lineage.
LEMMA AddQuiet == ASSUME TipInv, Quiet, Add PROVE Quiet'
<1>1. /\ pc' = "checkpoint" /\ stateJson' = None /\ job'.goal = committed /\ committed' = committed + 1
      /\ \A s \in Seqs : snap'[s] = None
  BY Zenon DEF Add, AppendTxn
<1>2. Goals'
  BY <1>1, QuietTypes DEF Goals
<1> QED
  BY Zenon, <1>1, <1>2 DEF Quiet, Unblocked, Ours, Chained, Above

\* The replicator is registered again, where state.json is.
LEMMA ReopenQuiet == ASSUME TipInv, Quiet, Reopen PROVE Quiet'
<1> USE DEF store
<1>1. /\ pc = "stopped" /\ stateJson # None /\ mem' = stateJson /\ pc' = "idle"
      /\ UNCHANGED <<snap, incr, stateJson, intent>>
  BY Zenon DEF Reopen
<1>2. Unblocked' /\ Ours' /\ Goals'
  BY Zenon, <1>1 DEF Quiet, Unblocked, Ours, Goals, Above, Recorded
<1>3. Chained'
  BY Zenon, <1>1 DEF Quiet, Chained, ChainMatches
<1> QED
  BY Zenon, <1>2, <1>3 DEF Quiet

\* The snapshot timer.
LEMMA SnapshotTickQuiet == ASSUME TipInv, Quiet, SnapshotTick PROVE Quiet'
<1> USE DEF store, sqlite
<1>1. /\ pc = "idle" /\ pc' = "checkpoint" /\ job'.goal = committed
      /\ UNCHANGED <<mem, committed, snap, stateJson>>
  BY Zenon DEF SnapshotTick, StartSnapshot
<1>2. Goals'
  BY <1>1, QuietTypes DEF Goals
<1> QED
  BY Zenon, <1>1, <1>2 DEF Quiet, Unblocked, Ours, Chained, Above, ChainMatches

\* The one stop: the intent names what is stored behind state.json.
LEMMA CrashQuiet == ASSUME TipInv, Quiet, Crash PROVE Quiet'
<1> USE DEF store, sqlite
<1>1. /\ StreamInv /\ Founding /\ Calm /\ pc # "stopped" /\ budget["stop"] > 0 /\ pc' = "stopped"
      /\ mem.seq \in Nat /\ UNCHANGED <<snap, incr, stateJson, intent>>
  BY Zenon, QuietTypes DEF Crash, Spend
<1>2. Chained' /\ Goals'
  BY Zenon, <1>1 DEF Quiet, Chained, Goals, ChainMatches
<1>3. Unblocked' /\ Ours'
  <2> SUFFICES ASSUME stateJson # None PROVE Above(stateJson) /\ Recorded(stateJson, intent)
    BY Zenon, <1>1 DEF Unblocked, Ours, Above, Recorded
  <2>1. op # "add" /\ pc \in {"idle", "publish", "save"} /\ NothingAbove(mem)
    BY Zenon, <1>1 DEF Founding, Calm
  <2>2. CASE pc # "save"
    <3>1. mem.seq = stateJson.seq
      BY Zenon, <1>1, <2>1, <2>2 DEF Calm
    <3> QED
      BY <1>1, <2>1, <3>1 DEF NothingAbove, Above, Recorded
  <2>3. CASE pc = "save"
    <3>1. /\ mem.seq = stateJson.seq + 1 /\ incr[mem.seq] = mem.sum /\ mem.sum.pre = stateJson.sum
          /\ snap[mem.seq] = None /\ stateJson.seq \in Seqs
      BY Zenon, <1>1, <2>1, <2>3 DEF Calm
    <3>2. intent = PublishIntent(mem.seq, mem.sum.pre, mem.sum)
      BY Zenon, <1>1, <2>1, <2>3 DEF Quiet, Ours
    <3>3. Above(stateJson)
      BY <2>1, <3>1 DEF NothingAbove, Above
    <3>4. Recorded(stateJson, intent)
      BY Zenon, <3>1, <3>2 DEF Recorded
    <3> QED
      BY Zenon, <3>3, <3>4
  <2> QED
    BY Zenon, <2>2, <2>3
<1> QED
  BY Zenon, <1>2, <1>3 DEF Quiet

-----------------------------------------------------------------------------
(* All steps.                                                               *)

\* Every step keeps the tip.
LEMMA TipInvNext == TipInv /\ [Next]_vars => TipInv'
<1> SUFFICES ASSUME TipInv, [Next]_vars PROVE TipInv'
  BY Zenon
<1>0. RestoreInv'
  BY Zenon, RestoreInvNext DEF TipInv
<1>1. CASE UNCHANGED vars
  <2>1. Tips' /\ Founding' /\ SnapshotNewer'
    BY <1>1 DEF vars, TipInv, Tips, Founding, SnapshotNewer, CoveredBy, Sealed
  <2>2. Calm' /\ Awaits'
    BY Zenon, <1>1 DEF vars, TipInv, Calm, NothingAbove, Awaits
  <2> QED
    BY Zenon, <1>0, <2>1, <2>2 DEF TipInv
<1>2. CASE AppCommit
  BY Zenon, <1>0, <1>2, AppCommitTip
<1>3. CASE ExtBackfill \/ ExtTruncate
  BY Zenon, <1>0, <1>3, ExtTip
<1>4. ASSUME NEW o \in {"sync", "remove"}, Sync(o) PROVE TipInv'
  BY Zenon, <1>0, <1>4, SyncEmptyTip, SyncRolloverTip, SyncReadTip DEF Sync
<1>5. CASE PublishOk \/ PublishAdopt \/ PublishRefused \/ PublishError
  BY Zenon, <1>0, <1>5, PublishOkTip, PublishAdoptTip, PublishRefusedTip, PublishErrorTip
<1>6. CASE CheckpointOk \/ CheckpointBusy \/ Reacquire \/ Encode
  <2>1. ~CheckpointBusy
    BY DEF CheckpointBusy, Spend, TipInv, RestoreInv, StreamInv, CursorsSound
  <2> QED
    BY Zenon, <1>0, <1>6, <2>1, SnapshotTip
<1>7. CASE UploadOk \/ UploadRefused \/ UploadError
  BY Zenon, <1>0, <1>7, UploadOkTip, UploadRefusedTip, UploadErrorTip
<1>8. CASE SaveOk \/ SaveError
  BY Zenon, <1>0, <1>8, SaveOkTip, SaveErrorTip
<1>9. CASE SnapshotTick \/ Add \/ Reopen \/ Crash
  BY Zenon, <1>0, <1>9, SnapshotTickTip, AddTip, ReopenTip, CrashTip
<1> QED
  BY Zenon, <1>1, <1>2, <1>3, <1>4, <1>5, <1>6, <1>7, <1>8, <1>9 DEF Next, Work

\* The tip, from the first state on.
LEMMA TipInvariant == ASSUME StopsAlone PROVE Spec => []TipInv
<1>1. Init => TipInv
  <2> SUFFICES ASSUME Init PROVE TipInv
    BY Zenon
  <2>1. NeverBusy
    BY Zenon DEF NeverBusy, StopsAlone
  <2>2. RestoreInv
    <3>1. \A s \in Seqs : snap[s] = None
      BY Zenon DEF Init
    <3> QED
      BY Zenon, <2>1, <3>1, InitInv DEF RestoreInv, SnapsAreFiles
  <2>3. mem # None
    BY Zenon DEF Init, None
  <2>4. Tips /\ Founding /\ SnapshotNewer /\ Awaits
    BY Zenon, <2>3 DEF Init, Tips, Founding, SnapshotNewer, Awaits
  <2>5. Calm
    BY Zenon DEF Init, Calm, StopsAlone
  <2> QED
    BY Zenon, <2>2, <2>4, <2>5 DEF TipInv
<1> QED
  BY <1>1, TipInvNext, PTL DEF Spec

\* No step takes a restore point away.
LEMMA RestoresKept ==
  ASSUME TipInv, [Next]_vars, NEW target \in 0 .. MaxSeq
  PROVE  /\ RestoredVersion(target) \in Nat /\ RestoredVersion(target)' \in Nat
         /\ RestoredVersion(target) <= RestoredVersion(target)'
         /\ committed' # committed => RestoredVersion(target)' = RestoredVersion(target)
<1> DEFINE v == VersionIn(snap, incr, target)
           w == VersionIn(snap', incr', target)
<1>1. target \in Nat /\ StreamInv /\ StreamInv'
  BY RestoreInvNext DEF TipInv, RestoreInv
<1>2. v \in Nat /\ w \in Nat
  <2>1. v \in Nat
    BY Zenon, <1>1, VersionsAreNat
  <2>2. /\ \A s \in 1 .. target : snap'[s] # None => IsSum(snap'[s].sum)
        /\ \A s \in 1 .. target : incr'[s] # None => IsSum(incr'[s])
    <3>1. StoreTypes' /\ \A s \in 1 .. target : s \in Seqs
      BY <1>1, BoundsAssumption DEF StreamInv, CursorsSound, TypeOK
    <3> QED
      BY Zenon, <3>1 DEF StoreTypes, IsSum
  <2> QED
    BY Zenon, <1>1, <2>1, <2>2, VersionIsNat
<1>3. /\ RestoredVersion(target) = IF stateJson = None THEN 0 ELSE v
      /\ RestoredVersion(target)' = IF stateJson' = None THEN 0 ELSE w
  BY Zenon, <1>1, RestoredIs
<1>4. CASE UNCHANGED <<snap, incr, stateJson>>
  BY <1>2, <1>3, <1>4
<1>5. CASE SaveOk \/ SaveError
  <2>1. UNCHANGED <<snap, incr, committed>> /\ stateJson' \in {stateJson, mem} /\ mem # None
    BY Zenon, <1>5 DEF SaveOk, SaveError, sqlite, TipInv, Awaits
  <2> QED
    BY <1>2, <1>3, <2>1
<1>6. CASE stateJson = None /\ stateJson' = None
  BY <1>3, <1>6
<1>7. CASE /\ PublishOk \/ PublishError \/ UploadOk \/ UploadError
           /\ UNCHANGED <<stateJson, committed>> /\ stateJson # None
  <2>1. RestoreInv' /\ op # "add"
    BY Zenon, <1>7, RestoreInvNext DEF TipInv, Founding
  <2>2. Grows(snap, incr, snap', incr')
    BY Zenon, <1>7, <2>1, PublishOkTip, PublishErrorTip, UploadOkTip, UploadErrorTip
  <2>3. v <= w
    BY Zenon, <2>2 DEF Grows
  <2> HIDE DEF v, w
  <2> QED
    BY Zenon, <1>2, <1>3, <1>7, <2>3
<1>8. UNCHANGED vars => UNCHANGED <<snap, incr, stateJson>>
  BY Zenon DEF vars
<1> QED
  BY Zenon, <1>4, <1>5, <1>6, <1>7, <1>8, StoreSteps

\* Nothing restored is ahead of the commits.
LEMMA DurableBelow ==
  ASSUME RestoreInv
  PROVE  Durable \in Nat /\ Durable <= committed
<1>1. StreamInv /\ SnapsAreFiles /\ committed \in Nat /\ MaxSeq \in Nat
  BY Zenon, BoundsAssumption DEF RestoreInv, StreamInv, CursorsSound, TypeOK, SqliteTypes
<1>2. CASE Restores(MaxSeq) = {}
  BY <1>1, <1>2 DEF Durable, RestoredVersion
<1>3. CASE Restores(MaxSeq) # {}
  <2>1. PICK r \in Restores(MaxSeq) : r = CHOOSE q \in Restores(MaxSeq) : TRUE
    BY Zenon, <1>3
  <2>2. Durable = Floor(SumAt(r[1], r[2]))
    BY Zenon, <1>3, <2>1 DEF Durable, RestoredVersion
  <2>3. /\ r[1] \in Seqs /\ r[2] \in Seqs /\ snap[r[1]] # None /\ r[1] <= r[2]
        /\ \A s \in r[1] + 1 .. MaxSeq : incr[s] # None <=> s <= r[2]
    BY <1>1, RestoreWalks
  <2>4. r[2] # r[1] => incr[r[2]] # None
    BY <1>1, <2>3
  <2>5. IsSum(SumAt(r[1], r[2])) /\ SumAt(r[1], r[2]).ver <= committed
    BY Zenon, <1>1, <2>3, <2>4 DEF SumAt, SnapsAreFiles, StreamInv, CursorsSound, TypeOK, StoreTypes
  <2> QED
    BY <1>1, <2>2, <2>5 DEF IsSum, Floor
<1> QED
  BY Zenon, <1>2, <1>3

\* As long as no checkpoint of the replicator's own ends busy and its process is
\* stopped at most once, a stop being the only fault then, a point in time that
\* can be restored stays restorable at the same or at a later version: what sync
\* and take_snapshot publish only extends or covers the chain a restore walks.
THEOREM RestorePointsStay == ASSUME StopsAlone PROVE Spec => RestorePointsSurvive
<1>1. TipInv /\ [Next]_vars => [\A target \in Seqs : RestoredVersion(target) <= RestoredVersion(target)']_vars
  <2> SUFFICES ASSUME TipInv, [Next]_vars, NEW target \in Seqs
               PROVE  RestoredVersion(target) <= RestoredVersion(target)'
    BY Zenon
  <2>1. target \in 0 .. MaxSeq
    BY BoundsAssumption
  <2> QED
    BY Zenon, <2>1, RestoresKept
<1> QED
  BY <1>1, TipInvariant, PTL DEF Spec, RestorePointsSurvive

\* Under the same condition the stream implements the durable log: a restore
\* returns a prefix of what was committed, and the prefix never shrinks.
THEOREM StreamImplementsLog == ASSUME StopsAlone PROVE Spec => Log!Spec
<1>1. Init => Log!Init
  <2> SUFFICES ASSUME Init PROVE committed \in Nat /\ Durable = 0
    BY Zenon DEF Log!Init
  <2>1. stateJson = None /\ committed = 1 /\ MaxSeq \in Nat
    BY Zenon, BoundsAssumption DEF Init
  <2> QED
    BY Zenon, <2>1, RestoredIs DEF Durable
<1>2. RestoreInv => committed \in Nat /\ Durable <= committed
  BY Zenon, DurableBelow DEF RestoreInv, StreamInv, CursorsSound, TypeOK, SqliteTypes
<1>3. RestoreInv' => (committed \in Nat /\ Durable <= committed)'
  BY <1>2, PTL
<1>4. TipInv /\ [Next]_vars => [Log!Next]_Log!vars
  <2> SUFFICES ASSUME TipInv, [Next]_vars PROVE [Log!Next]_Log!vars
    BY Zenon
  <2>1. RestoreInv /\ RestoreInv'
    BY Zenon, RestoreInvNext DEF TipInv
  <2>2. MaxSeq \in 0 .. MaxSeq
    BY BoundsAssumption
  <2>3. /\ Durable \in Nat /\ Durable' \in Nat /\ Durable <= Durable'
        /\ committed' # committed => Durable' = Durable
    BY Zenon, <2>2, RestoresKept DEF Durable
  <2>4. Durable' <= committed' /\ committed' \in Nat /\ committed \in Nat
    BY Zenon, <1>2, <1>3, <2>1
  <2>5. committed' \in {committed, committed + 1}
    BY Zenon DEF Next, Work, Sync, AppCommit, ExtBackfill, ExtTruncate, SyncNoWal, SyncRollover, SyncEmpty,
           SyncRead, PublishOk, PublishAdopt, PublishRefused, PublishError, CheckpointOk, CheckpointBusy,
           Reacquire, Encode, UploadOk, UploadRefused, UploadError, SaveOk, SaveError, SnapshotTick, Add,
           Reopen, Crash, AppendTxn, OpenCheckpointBlocker, Truncated, sqlite, vars
  <2> HIDE DEF Durable
  <2>6. CASE committed' # committed
    BY Zenon, <2>3, <2>5, <2>6 DEF Log!Next, Log!Commit
  <2>7. CASE committed' = committed
    BY <2>3, <2>4, <2>7 DEF Log!Next, Log!Ship, Log!vars
  <2> QED
    BY Zenon, <2>6, <2>7
<1> QED
  BY <1>1, <1>4, TipInvariant, PTL DEF Spec, Log!Spec

-----------------------------------------------------------------------------
\* An operation that returns Ok has stored what it was asked to ship.
LEMMA Acknowledged ==
  ASSUME TipInv, Quiet, TipInv', Quiet', [Next]_vars, acked' # acked
  PROVE  acked' <= Durable'
<1> USE DEF store, sqlite
<1>0. Next
  BY Zenon DEF vars
<1> DEFINE Stored(m) ==
             /\ IsSum(m.sum) /\ Tip(m, snap', incr') /\ acked' <= Floor(m.sum)
             /\ m.seq + 1 \in Seqs => snap'[m.seq + 1] = None
<1>1. ASSUME NEW o \in {"sync", "remove"}, SyncEmpty(o) PROVE Stored(mem) /\ stateJson' # None
  <2>1. /\ pc = "idle" /\ HasHeader /\ ~RolledOver(mem) /\ ~HasBatch(mem) /\ acked' = committed
        /\ UNCHANGED <<snap, incr, stateJson>>
    BY Zenon, <1>1 DEF SyncEmpty, Begin, Finish
  <2>2. /\ StreamInv /\ Tip(mem, snap, incr) /\ stateJson # None /\ IsSum(mem.sum) /\ mem.seq \in Nat
    BY Zenon, <2>1, QuietTypes DEF Tips, StreamInv, CursorsSound, TypeOK, TaskTypes
  <2>3. committed <= Floor(mem.sum)
    <3>1. mem.salt = salt
      BY Zenon, <2>1, <2>2, AfterReadSound
    <3>2. ~(mem.off < WalLen)
      BY Zenon, <2>1 DEF Quiet, Chained, HasBatch
    <3>3. walBase + mem.off <= Floor(mem.sum)
      BY Zenon, <2>1, <2>2, <3>1 DEF StreamInv, CursorsSound, CursorSound
    <3>4. walBase \in Nat /\ committed \in Nat /\ mem.off \in Nat /\ Floor(mem.sum) \in Nat
      BY Zenon, <2>2 DEF StreamInv, CursorsSound, TypeOK, SqliteTypes, TaskTypes, IsMem, IsSum, Floor
    <3> QED
      BY <2>1, <3>2, <3>3, <3>4 DEF WalLen
  <2>4. mem.seq + 1 \in Seqs => snap[mem.seq + 1] = None
    BY <2>1, <2>2 DEF Quiet, Unblocked, Above
  <2> QED
    BY Zenon, <2>1, <2>2, <2>3, <2>4
<1>2. ASSUME UploadOk PROVE Stored(mem') /\ stateJson' # None
  <2>1. /\ pc = "upload" /\ op = "snapshot" /\ mem' = AfterSnapshot(mem, job.obj.sum) /\ acked' = job.goal
        /\ pc' = "idle" /\ op' = "none" /\ UNCHANGED stateJson
    BY Zenon, <1>2 DEF UploadOk, Finish
  <2>2. mem'.sum = job.obj.sum /\ job.obj.sum.kind = "file" /\ job.goal <= job.obj.sum.lo
    BY Zenon, <2>1, QuietTypes DEF AfterSnapshot, StreamInv, CursorsSound, SnapshotSound, Quiet, Goals
  <2>3. IsSum(mem'.sum) /\ Tip(mem', snap', incr') /\ mem'.seq \in Nat
    BY Zenon, <2>1 DEF TipInv, RestoreInv, StreamInv, CursorsSound, TypeOK, TaskTypes, IsMem, Tips
  <2>4. stateJson # None
    BY Zenon, <2>1, QuietTypes DEF Awaits
  <2>5. mem'.seq + 1 \in Seqs => snap'[mem'.seq + 1] = None
    BY <2>1, <2>3 DEF Quiet, Unblocked, Above
  <2> QED
    BY Zenon, <2>1, <2>2, <2>3, <2>4, <2>5 DEF Floor
<1>3. ASSUME SaveOk PROVE Stored(mem) /\ stateJson' # None
  <2>1. pc = "save" /\ acked' = job.goal /\ stateJson' = mem /\ UNCHANGED <<snap, incr>>
    BY Zenon, <1>3 DEF SaveOk, Finish
  <2>2. Tip(mem, snap, incr) /\ mem # None /\ IsSum(mem.sum) /\ mem.seq \in Nat
    BY Zenon, <2>1, QuietTypes DEF Tips, Awaits, StreamInv, CursorsSound, TypeOK, TaskTypes
  <2>3. mem.seq + 1 \in Seqs => snap[mem.seq + 1] = None
    BY <2>1, <2>2 DEF Quiet, Unblocked, Above
  <2> QED
    BY Zenon, <2>1, <2>2, <2>3 DEF Quiet, Goals
<1>4. \E m : Stored(m) /\ stateJson' # None
  <2>1. ~\E o \in {"sync", "remove"} : SyncNoWal(o)
    BY Zenon, QuietTypes DEF SyncNoWal, Begin, Awaits
  <2> HIDE DEF Stored
  <2> QED
    BY Zenon, <1>0, <1>1, <1>2, <1>3, <2>1, QuietSteps
<1>5. PICK m : Stored(m) /\ stateJson' # None
  BY Zenon, <1>4
<1>6. m.seq + 1 \in Seqs /\ incr'[m.seq + 1] # None =>
        IsSum(incr'[m.seq + 1]) /\ incr'[m.seq + 1].kind = "incr" /\ m.sum.ver <= incr'[m.seq + 1].ver
  <2>1. StoreTypes' /\ ChainSound' /\ \A s \in Seqs : incr'[s] # None => incr'[s].kind = "incr"
    BY Zenon DEF TipInv, RestoreInv, StreamInv, CursorsSound, TypeOK
  <2> QED
    BY Zenon, <1>5, <2>1 DEF StoreTypes, ChainSound, Tip
<1>7. Floor(m.sum) <= VersionIn(snap', incr', MaxSeq)
  BY Zenon, <1>5, <1>6, TipFloor
<1>8. Durable' = VersionIn(snap', incr', MaxSeq)
  BY Zenon, <1>5, RestoredIs, BoundsAssumption DEF Durable
<1>9. acked' \in Nat /\ Floor(m.sum) \in Nat /\ Durable' \in Nat
  <2>1. acked' \in Nat /\ MaxSeq \in 0 .. MaxSeq
    BY BoundsAssumption DEF TipInv, RestoreInv, StreamInv, CursorsSound, TypeOK
  <2> QED
    BY Zenon, <1>5, <2>1, RestoresKept DEF Floor, IsSum, Durable
<1> QED
  BY <1>5, <1>7, <1>8, <1>9

\* Every step keeps the promise.
LEMMA QuietNext == QuietInv /\ [Next]_vars => QuietInv'
<1> SUFFICES ASSUME QuietInv, [Next]_vars PROVE QuietInv'
  BY Zenon
<1>0. TipInv /\ TipInv' /\ Quiet /\ budget["put"] = 0 /\ refused = {} /\ acked <= Durable
  BY Zenon, TipInvNext DEF QuietInv, FlushIsDurable
<1>1. Quiet'
  <2>1. CASE UNCHANGED vars
    <3>1. Unblocked' /\ Ours' /\ Goals'
      BY <1>0, <2>1 DEF vars, Quiet, Unblocked, Ours, Goals, Above, Recorded
    <3>2. Chained'
      BY Zenon, <1>0, <2>1 DEF vars, Quiet, Chained, ChainMatches
    <3> QED
      BY Zenon, <3>1, <3>2 DEF Quiet
  <2>2. CASE AppCommit \/ ExtBackfill \/ ExtTruncate
    BY Zenon, <1>0, <2>2, EnvironmentQuiet
  <2>3. ASSUME NEW o \in {"sync", "remove"}, Sync(o) PROVE Quiet'
    <3>1. ~SyncNoWal(o)
      BY Zenon, <1>0, QuietTypes DEF SyncNoWal, Begin, Awaits
    <3> QED
      BY Zenon, <1>0, <2>3, <3>1, SyncEmptyQuiet, SyncRolloverQuiet, SyncReadQuiet DEF Sync
  <2>4. ~CheckpointBusy /\ ~PublishError /\ ~UploadError
    BY <1>0 DEF CheckpointBusy, PublishError, UploadError, Spend, TipInv, RestoreInv, StreamInv,
           CursorsSound
  <2>5. CASE PublishOk \/ PublishAdopt \/ PublishRefused \/ UploadOk \/ UploadRefused
    BY Zenon, <1>0, <2>5, PublishOkQuiet, PublishAdoptQuiet, NeverRefused, UploadOkQuiet
  <2>6. CASE CheckpointOk \/ Reacquire \/ Encode
    BY Zenon, <1>0, <2>6, SnapshotQuiet
  <2>7. CASE SaveOk \/ SaveError
    BY Zenon, <1>0, <2>7, SaveQuiet
  <2>8. CASE SnapshotTick \/ Add \/ Reopen \/ Crash
    BY Zenon, <1>0, <2>8, SnapshotTickQuiet, AddQuiet, ReopenQuiet, CrashQuiet
  <2> QED
    BY Zenon, <2>1, <2>2, <2>3, <2>4, <2>5, <2>6, <2>7, <2>8 DEF Next, Work
<1>2. refused' = {}
  BY Zenon, <1>0, NeverRefused, QuietSteps DEF vars
<1>3. budget'["put"] = 0
  <2>1. CASE UNCHANGED budget
    BY Zenon, <1>0, <2>1
  <2>2. CASE \E k \in Kinds : Spend(k)
    BY <1>0, <2>2, QuietTypes DEF Spend
  <2> QED
    BY Zenon, <2>1, <2>2, QuietSteps DEF vars
<1>4. acked' <= Durable'
  <2>1. MaxSeq \in 0 .. MaxSeq /\ acked \in Nat
    BY <1>0, BoundsAssumption DEF TipInv, RestoreInv, StreamInv, CursorsSound, TypeOK
  <2>2. Durable \in Nat /\ Durable' \in Nat /\ Durable <= Durable'
    BY Zenon, <1>0, <2>1, RestoresKept DEF Durable
  <2>3. CASE acked' # acked
    BY Zenon, <1>0, <1>1, <2>3, Acknowledged
  <2> HIDE DEF Durable
  <2>4. CASE acked' = acked
    BY <1>0, <2>1, <2>2, <2>4
  <2> QED
    BY Zenon, <2>3, <2>4
<1> QED
  BY Zenon, <1>0, <1>1, <1>2, <1>3, <1>4 DEF QuietInv, FlushIsDurable

\* The promise, from the first state on.
LEMMA QuietInvariant == ASSUME PutsSucceed PROVE Spec => []QuietInv
<1>1. StopsAlone
  BY Zenon DEF PutsSucceed
<1>2. Init => Quiet /\ budget["put"] = 0 /\ refused = {} /\ FlushIsDurable
  <2> SUFFICES ASSUME Init PROVE Quiet /\ budget["put"] = 0 /\ refused = {} /\ FlushIsDurable
    BY Zenon
  <2>1. budget["put"] = 0 /\ refused = {}
    BY Zenon DEF Init, PutsSucceed
  <2>2. Quiet
    BY Zenon DEF Init, Quiet, Unblocked, Ours, Chained, Goals
  <2>3. acked = 0 /\ stateJson = None /\ MaxSeq \in Nat
    BY Zenon, BoundsAssumption DEF Init
  <2>4. Durable = 0
    BY Zenon, <2>3, RestoredIs DEF Durable
  <2>5. FlushIsDurable
    BY <2>3, <2>4 DEF FlushIsDurable
  <2> QED
    BY Zenon, <2>1, <2>2, <2>5
<1>3. Spec => []TipInv
  BY Zenon, <1>1, TipInvariant
<1>4. TipInv /\ Quiet /\ budget["put"] = 0 /\ refused = {} /\ FlushIsDurable => QuietInv
  BY Zenon DEF QuietInv
<1> QED
  BY <1>2, <1>3, <1>4, QuietNext, PTL DEF Spec

\* As long as no checkpoint of the replicator's own ends busy, no put fails, and its
\* process is stopped at most once, a stop being the only fault then: what was
\* committed when flush, sync, remove, add or a snapshot began can be restored from
\* the moment the operation returns Ok.
THEOREM FlushesAreDurable == ASSUME PutsSucceed PROVE Spec => []FlushIsDurable
<1>1. QuietInv => FlushIsDurable
  BY Zenon DEF QuietInv
<1> QED
  BY <1>1, QuietInvariant, PTL

\* Under the same condition no publish is refused as an equivocation: what
\* put_changeset_if_absent finds at the replicator's sequence number is what its
\* publish intent recorded before the stop.
THEOREM NeverEquivocates == ASSUME PutsSucceed PROVE Spec => []NoSelfEquivocation
<1>1. QuietInv => NoSelfEquivocation
  BY Zenon DEF QuietInv, NoSelfEquivocation
<1> QED
  BY <1>1, QuietInvariant, PTL

=============================================================================
