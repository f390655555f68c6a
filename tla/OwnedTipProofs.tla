--------------------------- MODULE OwnedTipProofs ---------------------------
(***************************************************************************)
(* The invariant TipInv keeps the cursor of OwnedStream at the tip of the  *)
(* chain of incrementals: one lemma per action.  The steps that store      *)
(* nothing come first; then a publish and a snapshot, which land behind    *)
(* the tip and make no restore point older.                                *)
(***************************************************************************)
EXTENDS OwnedStreamProofs

USE DEF Seqs, NoSalt, NoChain, Mem, Job, JobOf, NoMem, NoJob, HasHeader

-----------------------------------------------------------------------------
(* Steps that store nothing.                                                *)

\* The kinds of faults that Calm is about.
Faults == {"stop", "put", "save", "tick"}

\* A cursor that is older than the WAL stays so.
LEMMA SealedKept ==
  ASSUME StreamInv, SqliteMoves, NEW m, m.salt \in 0 .. salt, Sealed(m), UNCHANGED snap
  PROVE  m.seq + 1 \in Seqs /\ snap'[m.seq + 1] # None => ~(wal' = "open" /\ m.salt = salt')
BY Zenon, SameWal DEF Sealed

\* The application and other connections.
LEMMA EnvironmentTip ==
  ASSUME TipInv, RestoreInv', SqliteMoves, base <= base',
         pc \in {"idle", "publish", "save"} => UNCHANGED <<salt, wal>>,
         UNCHANGED <<pin, mem, pc, op, job, store>>,
         \A k \in Faults : budget'[k] = budget[k]
  PROVE  TipInv'
<1> USE DEF store
<1>1. StreamInv /\ Tips /\ Founding /\ SnapshotNewer /\ Calm /\ Awaits
  BY Zenon DEF TipInv, RestoreInv
<1>2. Tips'
  <2>1. ASSUME pc = "stopped", stateJson # None PROVE Sealed(stateJson)'
    <3>1. Sealed(stateJson) /\ stateJson.salt \in 0 .. salt
      BY <1>1, <2>1 DEF Tips, StreamInv, CursorsSound, CursorSound
    <3> QED
      BY Zenon, <1>1, <3>1, SealedKept DEF Sealed
  <2>2. ASSUME pc \in {"idle", "publish", "save"} PROVE Sealed(mem)'
    BY Zenon, <1>1, <2>2 DEF Tips, Sealed
  <2> QED
    BY Zenon, <1>1, <2>1, <2>2 DEF Tips
<1>3. Founding'
  BY Zenon, <1>1 DEF Founding
<1>4. SnapshotNewer'
  <2>1. base \in Nat /\ base' \in Nat
    BY Zenon DEF TipInv, RestoreInv, StreamInv, CursorsSound, TypeOK, SqliteTypes
  <2>2. pc # "stopped" => mem.sum.ver \in Nat
    BY Zenon, <1>1 DEF StreamInv, CursorsSound, TypeOK, TaskTypes, IsSum
  <2>3. \A s \in Seqs : incr[s] # None => incr[s].ver \in Nat
    BY Zenon, <1>1 DEF StreamInv, CursorsSound, TypeOK, StoreTypes, IsSum
  <2> QED
    BY <1>1, <2>1, <2>2, <2>3 DEF SnapshotNewer, CoveredBy
<1>5. Calm'
  <2>1. \A k \in Faults : budget'[k] = budget[k]
    BY Zenon
  <2>2. /\ budget'["stop"] = budget["stop"] /\ budget'["put"] = budget["put"]
        /\ budget'["save"] = budget["save"] /\ budget'["tick"] = budget["tick"]
    BY Zenon, <2>1 DEF Faults
  <2> QED
    BY Zenon, <1>1, <2>2 DEF Calm, NothingAbove
<1>6. Awaits'
  BY Zenon, <1>1 DEF Awaits, Faults
<1> QED
  BY Zenon, <1>2, <1>3, <1>4, <1>5, <1>6 DEF TipInv

\* A commit by the application.
LEMMA AppCommitTip == ASSUME TipInv, RestoreInv', AppCommit PROVE TipInv'
<1>1. SqliteMoves /\ base <= base'
  BY DEF AppCommit, SqliteMoves, AppendTxn, TipInv, RestoreInv, StreamInv, CursorsSound, TypeOK,
         SqliteTypes
<1>2. pc \in {"idle", "publish", "save"} => UNCHANGED <<salt, wal>>
  BY DEF AppCommit, AppendTxn, TipInv, Awaits
<1>3. budget \in [Kinds -> Nat] /\ budget' = [budget EXCEPT !["app"] = @ - 1]
  BY Zenon DEF AppCommit, Spend, TipInv, RestoreInv, StreamInv, CursorsSound, TypeOK
<1>4. \A k \in Faults : budget'[k] = budget[k]
  BY Zenon, <1>3 DEF Faults, Kinds
<1> QED
  BY Zenon, <1>1, <1>2, <1>4, EnvironmentTip DEF AppCommit

\* A checkpoint by another connection, partial or complete.
LEMMA ExtTip == ASSUME TipInv, RestoreInv', ExtBackfill \/ ExtTruncate PROVE TipInv'
<1>0. StreamInv
  BY Zenon DEF TipInv, RestoreInv
<1>1. SqliteMoves /\ base <= base'
  BY <1>0 DEF ExtBackfill, ExtTruncate, Truncated, SqliteMoves, StreamInv, CursorsSound, TypeOK,
         SqliteTypes, SqliteSound
<1>2. pc \in {"idle", "publish", "save"} => UNCHANGED <<salt, wal>>
  BY DEF ExtBackfill, ExtTruncate, TipInv, Awaits
<1>3. budget \in [Kinds -> Nat] /\ budget' = [budget EXCEPT !["ext"] = @ - 1]
  BY Zenon, <1>0 DEF ExtBackfill, ExtTruncate, Spend, StreamInv, CursorsSound, TypeOK
<1>4. \A k \in Faults : budget'[k] = budget[k]
  BY Zenon, <1>3 DEF Faults, Kinds
<1> QED
  BY Zenon, <1>1, <1>2, <1>4, EnvironmentTip DEF ExtBackfill, ExtTruncate

\* In the WAL it was taken in a cursor is never behind the end.
LEMMA NoRollover ==
  ASSUME StreamInv, pc = "idle", HasHeader, mem.salt = salt
  PROVE  ~RolledOver(mem)
<1>1. walBase + mem.off <= committed
  BY DEF StreamInv, CursorsSound, CursorSound, Floor, TypeOK, SqliteTypes, TaskTypes, IsMem, IsSum
<1> QED
  BY <1>1 DEF RolledOver, WalLen, StreamInv, CursorsSound, TypeOK, SqliteTypes, TaskTypes, IsMem

\* What the budgets are when an operation begins.
LEMMA BeginBudget ==
  ASSUME TipInv, NEW o \in {"sync", "remove"}, Begin(o)
  PROVE  /\ budget'["stop"] \in Nat
         /\ budget'["stop"] > 0 => o = "sync" /\ UNCHANGED budget
         /\ o = "remove" => budget["stop"] > 0 /\ budget'["stop"] = 0
<1>1. budget \in [Kinds -> Nat] /\ (budget["stop"] > 0 => budget["stop"] = 1) /\ "stop" \in Kinds
  BY Zenon DEF TipInv, Calm, RestoreInv, StreamInv, CursorsSound, TypeOK, Kinds
<1>2. CASE o = "remove"
  <2>1. budget["stop"] > 0 /\ budget' = [budget EXCEPT !["stop"] = @ - 1]
    BY Zenon, <1>2 DEF Begin, Spend
  <2> QED
    BY <1>1, <1>2, <2>1
<1>3. CASE o = "sync"
  BY Zenon, <1>1, <1>3 DEF Begin
<1> QED
  BY Zenon, <1>2, <1>3

\* A sync that finds nothing; a removal that does stops the replicator where
\* state.json is.
LEMMA SyncEmptyTip ==
  ASSUME TipInv, RestoreInv', NEW o \in {"sync", "remove"}, SyncEmpty(o) \/ SyncNoWal(o)
  PROVE  TipInv'
<1> USE DEF store, sqlite
<1>1. StreamInv /\ Tips /\ Founding /\ SnapshotNewer /\ Calm /\ Awaits /\ pc = "idle"
  BY Zenon DEF TipInv, RestoreInv, SyncEmpty, SyncNoWal, Begin
<1>2. SyncEmpty(o) /\ HasHeader /\ pin > 0 /\ op # "add" /\ stateJson # None
  BY Zenon, <1>1 DEF Awaits, SyncNoWal, Founding
<1>3. ~RolledOver(mem) /\ Begin(o) /\ Finish(o, committed, AfterRead(mem)) /\ UNCHANGED <<sqlite, store>>
  BY Zenon, <1>2 DEF SyncEmpty
<1>4. /\ AfterRead(mem).seq = mem.seq /\ AfterRead(mem).sum = mem.sum
      /\ AfterRead(mem).salt = salt /\ mem.salt = salt
  BY Zenon, <1>1, <1>2, <1>3, AfterReadSound
<1>5. AfterRead(mem) # None
  BY Zenon DEF AfterRead, None
<1>6. /\ budget'["stop"] \in Nat
      /\ budget'["stop"] > 0 => o = "sync" /\ UNCHANGED budget
      /\ o = "remove" => budget["stop"] > 0 /\ budget'["stop"] = 0
  BY Zenon, <1>3, BeginBudget
<1>7. CASE o = "sync"
  <2>1. pc' = "idle" /\ op' = "none" /\ UNCHANGED pin /\ mem' = AfterRead(mem)
    BY Zenon, <1>3, <1>7 DEF Finish
  <2>2. mem'.seq = mem.seq /\ mem'.sum = mem.sum /\ mem'.salt = mem.salt /\ mem' # None
    BY Zenon, <1>4, <1>5, <2>1
  <2>3. Tips'
    <3>1. Tip(mem, snap, incr) /\ Sealed(mem)
      BY Zenon, <1>1, <1>2 DEF Tips
    <3>2. Tip(mem', snap', incr') /\ Sealed(mem)'
      BY Zenon, <1>3, <2>2, <3>1 DEF Tip, Reaches, Sealed
    <3> QED
      BY Zenon, <2>1, <3>2 DEF Tips
  <2>4. Calm'
    BY Zenon, <1>1, <1>2, <1>3, <1>6, <1>7, <2>1, <2>2 DEF Calm, NothingAbove
  <2>5. Founding' /\ SnapshotNewer' /\ Awaits'
    BY Zenon, <1>1, <1>2, <1>3, <2>1, <2>2 DEF Founding, SnapshotNewer, Awaits
  <2> QED
    BY Zenon, <2>3, <2>4, <2>5 DEF TipInv
<1>8. CASE o = "remove"
  <2>1. pc' = "stopped" /\ op' = "none" /\ mem' = NoMem /\ budget'["stop"] = 0 /\ budget["stop"] > 0
    BY Zenon, <1>3, <1>6, <1>8 DEF Finish
  <2>2. Tips'
    <3>1. mem.seq = stateJson.seq /\ mem.sum = stateJson.sum /\ NothingAbove(mem)
      BY Zenon, <1>1, <1>2, <2>1 DEF Calm
    <3>2. Tip(stateJson, snap, incr)
      BY Zenon, <1>1, <1>2, <3>1 DEF Tips, Tip, Reaches
    <3>3. Sealed(stateJson)'
      BY <1>1, <1>3, <3>1 DEF Sealed, NothingAbove, StreamInv, CursorsSound, TypeOK, TaskTypes, IsMem
    <3> QED
      BY Zenon, <1>3, <2>1, <3>2, <3>3 DEF Tips
  <2>3. Founding' /\ SnapshotNewer' /\ Calm'
    BY <2>1 DEF Founding, SnapshotNewer, Calm
  <2>4. Awaits'
    BY Zenon, <2>1 DEF Awaits, None
  <2> QED
    BY Zenon, <2>2, <2>3, <2>4 DEF TipInv
<1> QED
  BY Zenon, <1>7, <1>8

\* A rollover begins a snapshot; none comes before the one stop.
LEMMA SyncRolloverTip ==
  ASSUME TipInv, RestoreInv', NEW o \in {"sync", "remove"}, SyncRollover(o)
  PROVE  TipInv'
<1> USE DEF store, sqlite
<1>1. StreamInv /\ Tips /\ Founding /\ SnapshotNewer /\ Calm /\ Awaits /\ pc = "idle"
  BY Zenon DEF TipInv, RestoreInv, SyncRollover, Begin
<1>2. HasHeader /\ op # "add" /\ stateJson # None /\ Begin(o) /\ RolledOver(mem)
  BY Zenon, <1>1 DEF Awaits, SyncRollover, Founding
<1>3. budget \in [Kinds -> Nat] /\ ~(budget["stop"] > 0)
  BY Zenon, <1>1, <1>2, NoRollover DEF Calm, StreamInv, CursorsSound, TypeOK
<1>4. o = "sync" /\ UNCHANGED budget
  BY Zenon, <1>2, <1>3, BeginBudget DEF Begin
<1>5. /\ pc' = "checkpoint" /\ op' = "sync" /\ mem' = AfterRead(mem)
      /\ UNCHANGED <<sqlite, store>>
  BY Zenon, <1>4 DEF SyncRollover, StartSnapshot
<1>6. mem'.seq = mem.seq /\ mem'.sum = mem.sum /\ mem' # None
  <2>1. AfterRead(mem) # None
    BY Zenon DEF AfterRead, None
  <2> QED
    BY Zenon, <1>1, <1>2, <1>5, <2>1, AfterReadSound
<1>7. Tips'
  <2>1. Tip(mem, snap, incr)
    BY Zenon, <1>1, <1>2 DEF Tips
  <2>2. Tip(mem', snap', incr')
    BY Zenon, <1>5, <1>6, <2>1 DEF Tip, Reaches
  <2> QED
    BY Zenon, <1>5, <2>2 DEF Tips
<1>8. Founding' /\ SnapshotNewer' /\ Calm' /\ Awaits'
  BY Zenon, <1>2, <1>3, <1>4, <1>5, <1>6 DEF Founding, SnapshotNewer, Calm, Awaits
<1> QED
  BY Zenon, <1>7, <1>8 DEF TipInv

\* The read of a batch leaves the cursor where it is.
LEMMA SyncReadTip ==
  ASSUME TipInv, RestoreInv', NEW o \in {"sync", "remove"}, SyncRead(o)
  PROVE  TipInv'
<1> USE DEF store, sqlite
<1>1. StreamInv /\ Tips /\ Founding /\ SnapshotNewer /\ Calm /\ Awaits /\ pc = "idle"
  BY Zenon DEF TipInv, RestoreInv, SyncRead, Begin
<1>2. HasHeader /\ pin > 0 /\ op # "add" /\ stateJson # None /\ Begin(o) /\ ~RolledOver(mem)
  BY Zenon, <1>1 DEF Awaits, SyncRead, Founding
<1>3. /\ pc' = "publish" /\ op' = o /\ mem' = AfterRead(mem)
      /\ UNCHANGED <<sqlite, store, pin>>
  BY Zenon DEF SyncRead
<1>4. mem'.seq = mem.seq /\ mem'.sum = mem.sum /\ mem'.salt = mem.salt /\ mem.salt = salt /\ mem' # None
  <2>1. AfterRead(mem) # None
    BY Zenon DEF AfterRead, None
  <2> QED
    BY Zenon, <1>1, <1>2, <1>3, <2>1, AfterReadSound
<1>5. /\ budget'["stop"] > 0 => UNCHANGED budget
      /\ o = "remove" => budget'["stop"] = 0
  BY Zenon, <1>2, BeginBudget
<1>6. Tips'
  <2>1. Tip(mem, snap, incr) /\ Sealed(mem)
    BY Zenon, <1>1, <1>2 DEF Tips
  <2>2. Tip(mem', snap', incr') /\ Sealed(mem)'
    BY Zenon, <1>3, <1>4, <2>1 DEF Tip, Reaches, Sealed
  <2> QED
    BY Zenon, <1>3, <2>2 DEF Tips
<1>7. Founding' /\ SnapshotNewer'
  BY Zenon, <1>3 DEF Founding, SnapshotNewer
<1>8. Calm'
  BY Zenon, <1>1, <1>2, <1>3, <1>4, <1>5 DEF Calm, NothingAbove
<1>9. Awaits'
  BY Zenon, <1>2, <1>3, <1>4, <1>5 DEF Awaits
<1> QED
  BY Zenon, <1>6, <1>7, <1>8, <1>9 DEF TipInv

-----------------------------------------------------------------------------
(* What the steps do to the promise of an acknowledgement.                  *)

\* What a publish finds at its sequence number: no snapshot.
LEMMA PublishAtTip ==
  ASSUME TipInv, pc = "publish"
  PROVE  /\ Tip(mem, snap, incr) /\ IsSum(mem.sum) /\ mem.seq + 1 \in Seqs /\ mem.seq \in Seqs
         /\ snap[mem.seq + 1] = None /\ DOMAIN incr = Seqs /\ op # "add" /\ stateJson # None
         /\ job.obj # None /\ IsSum(job.obj) /\ job.obj.kind = "incr" /\ job.obj.pre = mem.sum
         /\ mem.sum.ver <= job.obj.ver /\ HasHeader /\ pin > 0 /\ mem.salt = salt
<1>1. StreamInv /\ Tips /\ Founding /\ Awaits
  BY Zenon DEF TipInv, RestoreInv
<1>2. PublishSound /\ IsSum(mem.sum) /\ DOMAIN incr = Seqs
  BY Zenon, <1>1 DEF StreamInv, CursorsSound, TypeOK, TaskTypes, StoreTypes
<1>3. op # "add" /\ stateJson # None /\ HasHeader /\ pin > 0 /\ mem.salt = salt
  BY Zenon, <1>1 DEF Founding, Awaits
<1>4. Tip(mem, snap, incr) /\ Sealed(mem)
  BY Zenon, <1>1, <1>3 DEF Tips
<1>5. job.obj # None
  BY <1>2 DEF PublishSound, None
<1> QED
  BY Zenon, <1>2, <1>3, <1>4, <1>5 DEF PublishSound, Sealed, Tip

-----------------------------------------------------------------------------
(* Steps that publish.                                                      *)

\* Restore points are versions.
LEMMA VersionsAreNat ==
  ASSUME StreamInv
  PROVE  \A target \in 0 .. MaxSeq : VersionIn(snap, incr, target) \in Nat
<1> SUFFICES ASSUME NEW target \in 0 .. MaxSeq PROVE VersionIn(snap, incr, target) \in Nat
  BY Zenon
<1>1. target \in Nat /\ \A s \in 1 .. target : s \in Seqs
  BY BoundsAssumption
<1>2. /\ \A s \in 1 .. target : snap[s] # None => IsSum(snap[s].sum)
      /\ \A s \in 1 .. target : incr[s] # None => IsSum(incr[s])
  BY Zenon, <1>1 DEF StreamInv, CursorsSound, TypeOK, StoreTypes
<1> QED
  BY Zenon, <1>1, <1>2, VersionIsNat

\* The incremental lands behind the tip, and the cursor follows it.
LEMMA PublishLands ==
  ASSUME TipInv, pc = "publish", incr[mem.seq + 1] \in {None, job.obj},
         incr' = [incr EXCEPT ![mem.seq + 1] = job.obj], NEW m2, m2.seq = mem.seq + 1, m2.sum = job.obj
  PROVE  /\ Tip(mem, snap, incr') /\ Tip(m2, snap, incr')
         /\ Grows(snap, incr, snap, incr')
<1>1. /\ Tip(mem, snap, incr) /\ IsSum(mem.sum) /\ mem.seq + 1 \in Seqs
      /\ snap[mem.seq + 1] = None /\ DOMAIN incr = Seqs
      /\ job.obj # None /\ IsSum(job.obj) /\ job.obj.kind = "incr" /\ job.obj.pre = mem.sum
      /\ mem.sum.ver <= job.obj.ver
  BY Zenon, PublishAtTip
<1>2. \A s \in Seqs : incr'[s] = IF s = mem.seq + 1 THEN job.obj ELSE incr[s]
  BY Zenon, <1>1
<1>3. \A target \in 0 .. MaxSeq : VersionIn(snap, incr, target) \in Nat
  BY Zenon, VersionsAreNat DEF TipInv, RestoreInv
<1> DEFINE in2 == incr'
           d == job.obj
<1>4. incr[mem.seq + 1] \in {None, d} /\ \A s \in Seqs : in2[s] = IF s = mem.seq + 1 THEN d ELSE incr[s]
  BY Zenon, <1>2
<1>5. d # None /\ IsSum(d) /\ d.kind = "incr" /\ d.pre = mem.sum /\ mem.sum.ver <= d.ver /\ m2.sum = d
  BY Zenon, <1>1
<1> HIDE DEF in2, d
<1>6. /\ Tip(mem, snap, in2) /\ Tip(m2, snap, in2)
      /\ \A target \in 0 .. MaxSeq : VersionIn(snap, incr, target) <= VersionIn(snap, in2, target)
  BY Zenon, <1>1, <1>3, <1>4, <1>5, IncrementalExtends
<1> QED
  BY Zenon, <1>6 DEF Grows, in2

\* put_if_absent took the incremental.
LEMMA PublishOkTip == ASSUME TipInv, RestoreInv', PublishOk PROVE TipInv' /\ Grows(snap, incr, snap', incr')
<1> USE DEF store, sqlite
<1>1. StreamInv /\ Tips /\ Founding /\ SnapshotNewer /\ Calm /\ Awaits /\ pc = "publish"
  BY Zenon DEF TipInv, RestoreInv, PublishOk
<1>2. /\ Tip(mem, snap, incr) /\ mem.seq + 1 \in Seqs /\ mem.seq \in Seqs /\ snap[mem.seq + 1] = None
      /\ DOMAIN incr = Seqs /\ op # "add" /\ stateJson # None /\ job.obj.pre = mem.sum
      /\ HasHeader /\ pin > 0 /\ mem.salt = salt
  BY Zenon, <1>1, PublishAtTip
<1>3. /\ pc' = "save" /\ UNCHANGED <<sqlite, pin, op, job, snap, stateJson, budget>>
      /\ incr' = [incr EXCEPT ![mem.seq + 1] = job.obj] /\ incr[mem.seq + 1] \in {None, job.obj}
      /\ mem' = Mem(mem.seq + 1, job.off, mem.salt, mem.chain, job.obj)
  BY Zenon DEF PublishOk
<1>4. mem'.seq = mem.seq + 1 /\ mem'.sum = job.obj /\ mem'.salt = mem.salt /\ mem' # None
  BY Zenon, <1>3 DEF None
<1>5. Tip(mem, snap, incr') /\ Tip(mem', snap, incr') /\ Grows(snap, incr, snap, incr')
  BY Zenon, <1>1, <1>3, <1>4, PublishLands
<1>6. Sealed(mem)'
  BY <1>2, <1>3, <1>4 DEF Sealed, Tip
<1>7. Tips'
  BY Zenon, <1>3, <1>5, <1>6 DEF Tips
<1>8. Founding' /\ SnapshotNewer' /\ Awaits'
  BY Zenon, <1>1, <1>2, <1>3, <1>4 DEF Founding, SnapshotNewer, Awaits
<1>9. Calm'
  <2> SUFFICES ASSUME budget["stop"] > 0 PROVE Calm'
    BY Zenon, <1>3 DEF Calm
  <2>1. mem.seq = stateJson.seq /\ mem.sum = stateJson.sum /\ NothingAbove(mem)
    BY Zenon, <1>1, <1>2 DEF Calm
  <2>2. Reaches(mem, snap, incr')
    BY Zenon, <1>5 DEF Tip
  <2>3. Reaches(stateJson, snap, incr')
    BY Zenon, <2>1, <2>2 DEF Reaches
  <2>4. incr'[mem.seq + 1] = job.obj
    BY Zenon, <1>2, <1>3
  <2>5. \A s \in Seqs : s > mem.seq + 1 => snap[s] = None /\ incr'[s] = None
    BY Zenon, <1>5 DEF Tip
  <2> QED
    BY Zenon, <1>1, <1>2, <1>3, <1>4, <2>1, <2>3, <2>4, <2>5 DEF Calm, NothingAbove
<1> QED
  BY Zenon, <1>3, <1>5, <1>7, <1>8, <1>9 DEF TipInv

\* Our own incremental of before a crash is adopted: it is behind the tip.
LEMMA PublishAdoptTip == ASSUME TipInv, RestoreInv', PublishAdopt PROVE TipInv'
<1> USE DEF store, sqlite
<1>1. StreamInv /\ Tips /\ Founding /\ SnapshotNewer /\ Calm /\ Awaits /\ pc = "publish"
  BY Zenon DEF TipInv, RestoreInv, PublishAdopt
<1> DEFINE d == incr[mem.seq + 1]
<1>2. /\ Tip(mem, snap, incr) /\ IsSum(mem.sum) /\ mem.seq + 1 \in Seqs /\ mem.seq \in Seqs
      /\ snap[mem.seq + 1] = None /\ DOMAIN incr = Seqs /\ op # "add" /\ stateJson # None
  BY Zenon, <1>1, PublishAtTip
<1>3. /\ pc' = "checkpoint" /\ UNCHANGED <<sqlite, op, snap, incr, stateJson, budget>>
      /\ d # None /\ mem' = Mem(mem.seq + 1, mem.off, mem.salt, mem.chain, d)
  BY Zenon DEF PublishAdopt, StartSnapshot
<1>4. mem'.seq = mem.seq + 1 /\ mem'.sum = d /\ mem' # None
  BY Zenon, <1>3 DEF None
<1>5. IsSum(d) /\ d.kind = "incr" /\ d.pre = mem.sum /\ mem.sum.ver <= d.ver
  BY Zenon, <1>1, <1>2, <1>3 DEF StreamInv, CursorsSound, TypeOK, StoreTypes, ChainSound, Tip
<1>6. \A target \in 0 .. MaxSeq : VersionIn(snap, incr, target) \in Nat
  BY Zenon, <1>1, VersionsAreNat
<1>7. incr[mem.seq + 1] \in {None, d} /\ \A s \in Seqs : incr[s] = IF s = mem.seq + 1 THEN d ELSE incr[s]
  BY Zenon
<1> HIDE DEF d
<1>8. Tip(mem', snap, incr)
  BY Zenon, <1>2, <1>3, <1>4, <1>5, <1>6, <1>7, IncrementalExtends
<1>9. ~(budget["stop"] > 0)
  BY <1>1, <1>2, <1>3 DEF Calm, NothingAbove, d
<1> QED
  BY Zenon, <1>1, <1>2, <1>3, <1>4, <1>8, <1>9 DEF TipInv, Tips, Founding, SnapshotNewer, Calm, Awaits

\* An operation other than `add' fails: the cursor stays, at the tip.
LEMMA FailTip ==
  ASSUME TipInv, RestoreInv', op # "add", stateJson' # None, HasHeader, pin > 0, UNCHANGED sqlite,
         pc' = "idle", op' = "none", UNCHANGED <<mem, pin>>, Tip(mem, snap', incr'), Sealed(mem)',
         budget'["stop"] > 0 => UNCHANGED <<snap, incr, budget, stateJson>> /\ pc = "publish"
  PROVE  TipInv'
<1>1. Tips' /\ Founding' /\ SnapshotNewer'
  BY Zenon DEF Tips, Founding, SnapshotNewer
<1>2. Calm'
  BY Zenon DEF TipInv, Calm, NothingAbove, sqlite
<1>3. Awaits'
  BY Zenon DEF TipInv, Awaits, sqlite
<1> QED
  BY Zenon, <1>1, <1>2, <1>3 DEF TipInv

\* The budgets after a fault: a stop is not to come any more.
LEMMA FaultBudget ==
  ASSUME TipInv, NEW k \in {"put", "save", "tick"}, Spend(k)
  PROVE  ~(budget["stop"] > 0) /\ ~(budget'["stop"] > 0) /\ budget'["stop"] = budget["stop"]
<1>1. budget \in [Kinds -> Nat] /\ budget[k] > 0 /\ budget' = [budget EXCEPT ![k] = @ - 1]
  BY Zenon DEF TipInv, RestoreInv, StreamInv, CursorsSound, TypeOK, Spend
<1>2. ~(budget["stop"] > 0)
  BY <1>1 DEF TipInv, Calm
<1>3. budget'["stop"] = budget["stop"]
  BY Zenon, <1>1 DEF Kinds
<1> QED
  BY Zenon, <1>2, <1>3

\* Other bytes are at our sequence number.
LEMMA PublishRefusedTip == ASSUME TipInv, RestoreInv', PublishRefused PROVE TipInv'
<1> USE DEF store, sqlite
<1>1. pc = "publish"
  BY Zenon DEF PublishRefused
<1>2. /\ Tip(mem, snap, incr) /\ op # "add" /\ stateJson # None /\ HasHeader /\ pin > 0
  BY Zenon, <1>1, PublishAtTip
<1>3. /\ pc' = "idle" /\ op' = "none" /\ UNCHANGED <<sqlite, store, mem, pin, budget>>
  BY Zenon, <1>2 DEF PublishRefused, Fail
<1>4. Sealed(mem)'
  BY Zenon, <1>1, <1>3 DEF TipInv, Tips, Sealed
<1> QED
  BY Zenon, <1>1, <1>2, <1>3, <1>4, FailTip

\* The put fails, or its answer is lost.
LEMMA PublishErrorTip ==
  ASSUME TipInv, RestoreInv', PublishError PROVE TipInv' /\ Grows(snap, incr, snap', incr')
<1> USE DEF store, sqlite
<1>1. pc = "publish" /\ Spend("put") /\ UNCHANGED <<sqlite, snap, stateJson>> /\ Fail(mem)
  BY Zenon DEF PublishError
<1>2. /\ Tip(mem, snap, incr) /\ op # "add" /\ stateJson # None /\ HasHeader /\ pin > 0
  BY Zenon, <1>1, PublishAtTip
<1>3. pc' = "idle" /\ op' = "none" /\ UNCHANGED <<mem, pin>>
  BY Zenon, <1>1, <1>2 DEF Fail
<1>4. Sealed(mem)'
  BY Zenon, <1>1, <1>3 DEF TipInv, Tips, Sealed
<1>5. ~(budget'["stop"] > 0)
  BY Zenon, <1>1, FaultBudget
<1>6. Tip(mem, snap, incr') /\ Grows(snap, incr, snap, incr')
  <2>1. CASE UNCHANGED incr
    BY <1>2, <2>1, VersionsAreNat DEF Grows, TipInv, RestoreInv
  <2>2. CASE incr[mem.seq + 1] = None /\ incr' = [incr EXCEPT ![mem.seq + 1] = job.obj]
    <3> DEFINE m2 == Mem(mem.seq + 1, 0, 0, 0, job.obj)
    <3>1. m2.seq = mem.seq + 1 /\ m2.sum = job.obj
      BY Zenon
    <3> HIDE DEF m2
    <3> QED
      BY Zenon, <1>1, <2>2, <3>1, PublishLands
  <2> QED
    BY Zenon, <2>1, <2>2 DEF PublishError
<1>7. TipInv'
  BY Zenon, <1>1, <1>2, <1>3, <1>4, <1>5, <1>6, FailTip
<1> QED
  BY Zenon, <1>1, <1>6, <1>7

-----------------------------------------------------------------------------
(* take_snapshot.                                                           *)

\* From the checkpoint to the upload the cursor and the store stay.
LEMMA SnapshotTip ==
  ASSUME TipInv, RestoreInv', CheckpointOk \/ Reacquire \/ Encode PROVE TipInv'
<1> USE DEF store, sqlite
<1>1. StreamInv /\ Tips /\ Founding /\ SnapshotNewer /\ Calm /\ Awaits
  BY Zenon DEF TipInv, RestoreInv
<1>2. /\ pc \in {"checkpoint", "reacquire", "encode"} /\ pc' \in {"reacquire", "encode", "upload"}
      /\ UNCHANGED <<mem, op, snap, incr, stateJson, budget>>
  BY Zenon DEF CheckpointOk, Reacquire, Encode
<1>3. Tips' /\ Founding' /\ Calm'
  BY Zenon, <1>1, <1>2 DEF Tips, Founding, Calm
<1>4. SnapshotNewer'
  <2>1. base \in Nat /\ committed \in Nat /\ mem.sum.ver \in Nat
    BY Zenon, <1>1, <1>2 DEF StreamInv, CursorsSound, TypeOK, SqliteTypes, TaskTypes, IsSum
  <2>2. \A s \in Seqs : incr[s] # None => incr[s].ver \in Nat /\ incr[s].ver <= committed
    BY Zenon, <1>1 DEF StreamInv, CursorsSound, TypeOK, StoreTypes, IsSum
  <2>3. CASE CheckpointOk
    <3>1. pc' = "reacquire" /\ base' = committed /\ mem.sum.ver <= committed
      BY Zenon, <1>1, <2>3 DEF CheckpointOk, Truncated, StreamInv, CursorsSound, CursorSuperseded
    <3> QED
      BY Zenon, <1>2, <2>2, <3>1 DEF SnapshotNewer, CoveredBy
  <2>4. CASE Reacquire
    <3>1. pc = "reacquire" /\ pc' = "encode" /\ job'.lo = base
      BY Zenon, <2>4 DEF Reacquire
    <3> QED
      BY Zenon, <1>1, <1>2, <3>1 DEF SnapshotNewer, CoveredBy
  <2>5. CASE Encode
    <3>1. pc = "encode" /\ pc' = "upload" /\ job'.obj.sum.lo \in {job.lo, base}
      BY <2>5 DEF Encode, FileSum
    <3>2. job.lo \in Nat /\ job.lo <= base
      BY <1>1, <3>1 DEF StreamInv, CursorsSound, SnapshotSound, TypeOK, SqliteTypes
    <3> QED
      BY <1>1, <1>2, <2>1, <2>2, <3>1, <3>2 DEF SnapshotNewer, CoveredBy
  <2> QED
    BY Zenon, <2>3, <2>4, <2>5
<1>5. pc' = "upload" => job'.obj # None
  <2>1. ASSUME NEW x PROVE [pre |-> mem.sum, sum |-> x] # None
    BY Zenon DEF None
  <2>2. pc' = "upload" => \E lo : job'.obj = [pre |-> mem.sum, sum |-> FileSum(lo, base)]
    BY DEF CheckpointOk, Reacquire, Encode
  <2> QED
    BY Zenon, <2>1, <2>2
<1>6. Awaits'
  BY Zenon, <1>1, <1>2, <1>5 DEF Awaits
<1> QED
  BY Zenon, <1>3, <1>4, <1>6 DEF TipInv

\* What an upload finds: the snapshot covers everything up to the tip.
LEMMA UploadAtTip ==
  ASSUME TipInv, pc = "upload"
  PROVE  /\ mem.seq + 1 \in Seqs /\ mem.seq \in Nat /\ DOMAIN snap = Seqs /\ HasHeader /\ pin > 0
         /\ job.obj # None /\ IsSum(mem.sum) /\ IsSum(job.obj.sum) /\ job.obj.sum.kind = "file"
         /\ mem.sum.ver <= job.obj.sum.lo /\ ~(mem.salt = salt) /\ salt \in Nat
         /\ incr[mem.seq + 1] # None =>
              IsSum(incr[mem.seq + 1]) /\ incr[mem.seq + 1].ver <= job.obj.sum.lo
         /\ op # "add" => Tip(mem, snap, incr) /\ stateJson # None /\ ~(budget["stop"] > 0)
         /\ op = "add" => /\ stateJson = None /\ mem.seq = 0
                          /\ \A s \in Seqs : incr[s] = None /\ (s # 1 => snap[s] = None)
<1>1. StreamInv /\ Tips /\ Founding /\ SnapshotNewer /\ Calm /\ Awaits
  BY Zenon DEF TipInv, RestoreInv
<1>2. SnapshotSound /\ CursorSuperseded /\ DOMAIN snap = Seqs /\ IsSum(mem.sum) /\ IsMem(mem) /\ salt \in Nat
  BY Zenon, <1>1 DEF StreamInv, CursorsSound, TypeOK, SqliteTypes, TaskTypes, StoreTypes
<1>3. CoveredBy(job.obj.sum.lo) /\ job.obj # None
  BY Zenon, <1>1 DEF SnapshotNewer, Awaits
<1>4. /\ mem.seq + 1 \in Seqs /\ mem.seq \in Nat /\ HasHeader /\ pin > 0
      /\ IsSum(job.obj.sum) /\ job.obj.sum.kind = "file" /\ ~(mem.salt = salt)
  BY Zenon, <1>2 DEF SnapshotSound, CursorSuperseded, IsMem
<1>5. /\ mem.sum.ver <= job.obj.sum.lo
      /\ incr[mem.seq + 1] # None =>
           IsSum(incr[mem.seq + 1]) /\ incr[mem.seq + 1].ver <= job.obj.sum.lo
  BY Zenon, <1>1, <1>3, <1>4 DEF CoveredBy, StreamInv, CursorsSound, TypeOK, StoreTypes
<1>6. op # "add" => Tip(mem, snap, incr) /\ stateJson # None /\ ~(budget["stop"] > 0)
  BY Zenon, <1>1 DEF Tips, Awaits, Calm
<1>7. op = "add" => /\ stateJson = None /\ mem.seq = 0
                    /\ \A s \in Seqs : incr[s] = None /\ (s # 1 => snap[s] = None)
  BY Zenon, <1>1 DEF Founding
<1> QED
  BY Zenon, <1>2, <1>3, <1>4, <1>5, <1>6, <1>7

\* The snapshot lands behind the tip, and the cursor follows it.
LEMMA UploadLands ==
  ASSUME TipInv, pc = "upload", op # "add", snap[mem.seq + 1] \in {None, job.obj},
         snap' = [snap EXCEPT ![mem.seq + 1] = job.obj],
         NEW m2, m2.seq = mem.seq + 1, m2.sum = job.obj.sum
  PROVE  /\ Tip(mem, snap', incr) /\ Tip(m2, snap', incr)
         /\ Grows(snap, incr, snap', incr)
<1> DEFINE sn2 == snap'
           o == job.obj
<1>1. /\ Tip(mem, snap, incr) /\ IsSum(mem.sum) /\ mem.seq + 1 \in Seqs /\ DOMAIN snap = Seqs
      /\ o # None /\ IsSum(o.sum) /\ o.sum.kind = "file" /\ mem.sum.ver <= o.sum.lo
  BY Zenon, UploadAtTip
<1>2. incr[mem.seq + 1] # None => IsSum(incr[mem.seq + 1]) /\ incr[mem.seq + 1].ver <= o.sum.lo
  BY Zenon, UploadAtTip
<1>3. \A target \in 0 .. MaxSeq : VersionIn(snap, incr, target) \in Nat
  BY Zenon, VersionsAreNat DEF TipInv, RestoreInv
<1>4. snap[mem.seq + 1] \in {None, o} /\ m2.sum = o.sum
  BY Zenon
<1>5. \A s \in Seqs : sn2[s] = IF s = mem.seq + 1 THEN o ELSE snap[s]
  BY Zenon, <1>1
<1> HIDE DEF sn2, o
<1>6. /\ Tip(mem, sn2, incr) /\ Tip(m2, sn2, incr)
      /\ \A target \in 0 .. MaxSeq : VersionIn(snap, incr, target) <= VersionIn(sn2, incr, target)
  BY Zenon, <1>1, <1>2, <1>3, <1>4, <1>5, SnapshotCovers
<1> QED
  BY Zenon, <1>6 DEF Grows, sn2

\* The first snapshot of a lineage is a tip.
LEMMA FirstSnapshot ==
  ASSUME NEW m, NEW sn, NEW in, NEW o, 1 \in Seqs, m.seq = 1, m.sum = o.sum, sn[1] = o, o # None,
         \A s \in Seqs : in[s] = None /\ (s # 1 => sn[s] = None)
  PROVE  Tip(m, sn, in)
<1>1. Reaches(m, sn, in)
  <2>1. 1 \in 1 .. m.seq /\ SumIn(sn, in, 1, m.seq) = m.sum
    BY DEF SumIn
  <2> QED
    BY <2>1 DEF Reaches
<1> QED
  BY <1>1, BoundsAssumption DEF Tip

\* The snapshot succeeds.
LEMMA UploadOkTip ==
  ASSUME TipInv, RestoreInv', UploadOk
  PROVE  TipInv' /\ (op # "add" => Grows(snap, incr, snap', incr'))
<1> USE DEF store, sqlite
<1>1. StreamInv /\ Tips /\ Founding /\ SnapshotNewer /\ Calm /\ Awaits /\ pc = "upload"
  BY Zenon DEF TipInv, RestoreInv, UploadOk
<1>2. /\ mem.seq + 1 \in Seqs /\ mem.seq \in Nat /\ DOMAIN snap = Seqs /\ HasHeader /\ pin > 0 /\ job.obj # None
      /\ op # "add" => Tip(mem, snap, incr) /\ stateJson # None /\ ~(budget["stop"] > 0)
      /\ op = "add" => /\ stateJson = None /\ mem.seq = 0
                       /\ \A s \in Seqs : incr[s] = None /\ (s # 1 => snap[s] = None)
  BY Zenon, <1>1, UploadAtTip
<1>3. /\ snap[mem.seq + 1] \in {None, job.obj} /\ snap' = [snap EXCEPT ![mem.seq + 1] = job.obj]
      /\ UNCHANGED <<sqlite, incr, stateJson, budget>>
  BY Zenon DEF UploadOk
<1>4. /\ mem' = AfterSnapshot(mem, job.obj.sum) /\ UNCHANGED pin
      /\ op = "snapshot" => pc' = "idle" /\ op' = "none"
      /\ op # "snapshot" => pc' = "save" /\ op' = op
  BY Zenon DEF UploadOk, Finish
<1>5. mem'.seq = mem.seq + 1 /\ mem'.sum = job.obj.sum /\ mem'.salt = salt
  BY Zenon, <1>2, <1>4 DEF AfterSnapshot
<1>6. mem' # None
  BY Zenon, <1>4 DEF AfterSnapshot, None
<1>7. CASE op # "add"
  <2>1. Tip(mem', snap', incr) /\ Grows(snap, incr, snap', incr)
    BY Zenon, <1>1, <1>3, <1>5, <1>7, UploadLands
  <2>2. Sealed(mem)'
    <3>1. \A s \in Seqs : s > mem.seq + 1 => snap'[s] = None
      BY <1>2, <1>3, <1>7 DEF Tip
    <3> QED
      BY <1>2, <1>5, <3>1 DEF Sealed
  <2>3. Tips' /\ Founding' /\ SnapshotNewer' /\ Calm'
    BY Zenon, <1>2, <1>3, <1>4, <1>7, <2>1, <2>2 DEF Tips, Founding, SnapshotNewer, Calm
  <2>4. Awaits'
    BY Zenon, <1>1, <1>2, <1>3, <1>4, <1>5, <1>6, <1>7 DEF Awaits
  <2> QED
    BY Zenon, <1>3, <2>1, <2>3, <2>4 DEF TipInv
<1>8. CASE op = "add"
  <2>0. mem'.seq = 1 /\ 1 \in Seqs /\ pc' = "save" /\ op' = "add" /\ stateJson' = None
    BY <1>2, <1>3, <1>4, <1>5, <1>8
  <2>1. /\ \A s \in Seqs : incr[s] = None /\ (s # 1 => snap'[s] = None)
        /\ snap'[1] = job.obj
    BY <1>2, <1>3, <1>8
  <2>2. Tip(mem', snap', incr)
    BY Zenon, <1>2, <1>5, <2>0, <2>1, FirstSnapshot
  <2>3. Sealed(mem)'
    BY <2>0, <2>1 DEF Sealed
  <2>4. Tips' /\ Founding' /\ SnapshotNewer'
    BY Zenon, <1>3, <2>0, <2>1, <2>2, <2>3 DEF Tips, Founding, SnapshotNewer
  <2>5. Calm' /\ Awaits'
    BY Zenon, <1>1, <1>2, <1>3, <1>4, <1>5, <1>6, <1>8, <2>0 DEF Calm, Awaits
  <2> QED
    BY Zenon, <1>8, <2>4, <2>5 DEF TipInv
<1> QED
  BY Zenon, <1>7, <1>8

\* `add' gives up: nothing is registered, and no state.json is there.
LEMMA AddFails ==
  ASSUME TipInv, RestoreInv', op = "add", pc' = "stopped", op' = "none", mem' = NoMem, stateJson' = None,
         budget' = budget \/ ~(budget'["stop"] > 0)
  PROVE  TipInv'
<1>1. Tips' /\ Founding' /\ SnapshotNewer'
  BY Zenon DEF Tips, Founding, SnapshotNewer
<1>2. Calm' /\ mem' # None
  BY Zenon DEF TipInv, Calm, None
<1>3. Awaits'
  BY Zenon, <1>2 DEF Awaits
<1> QED
  BY Zenon, <1>1, <1>2, <1>3 DEF TipInv

\* Another snapshot is at our sequence number.
LEMMA UploadRefusedTip == ASSUME TipInv, RestoreInv', UploadRefused PROVE TipInv'
<1> USE DEF store, sqlite
<1>1. pc = "upload" /\ Fail(mem) /\ UNCHANGED <<sqlite, store, budget>>
  BY Zenon DEF UploadRefused
<1>2. /\ HasHeader /\ pin > 0 /\ ~(mem.salt = salt)
      /\ op # "add" => Tip(mem, snap, incr) /\ stateJson # None /\ ~(budget["stop"] > 0)
      /\ op = "add" => stateJson = None
  BY Zenon, <1>1, UploadAtTip
<1>3. CASE op # "add"
  <2>1. pc' = "idle" /\ op' = "none" /\ UNCHANGED <<mem, pin>>
    BY Zenon, <1>1, <1>3 DEF Fail
  <2>2. Sealed(mem)'
    BY Zenon, <1>1, <1>2, <2>1 DEF Sealed
  <2> QED
    BY Zenon, <1>1, <1>2, <1>3, <2>1, <2>2, FailTip
<1>4. CASE op = "add"
  BY Zenon, <1>1, <1>2, <1>4, AddFails DEF Fail
<1> QED
  BY Zenon, <1>3, <1>4

\* The upload fails, and may have landed; it is retried or given up.
LEMMA UploadErrorTip ==
  ASSUME TipInv, RestoreInv', UploadError
  PROVE  TipInv' /\ (op # "add" => Grows(snap, incr, snap', incr'))
<1> USE DEF store, sqlite
<1>1. /\ pc = "upload" /\ Spend("put") /\ UNCHANGED <<sqlite, incr, stateJson>>
      /\ \/ UNCHANGED snap
         \/ snap[mem.seq + 1] = None /\ snap' = [snap EXCEPT ![mem.seq + 1] = job.obj]
      /\ Fail(mem) \/ UNCHANGED <<pin, mem, pc, op, job, acked>>
  BY Zenon DEF UploadError
<1>2. /\ mem.seq + 1 \in Seqs /\ mem.seq \in Nat /\ HasHeader /\ pin > 0 /\ ~(mem.salt = salt)
      /\ DOMAIN snap = Seqs
      /\ op # "add" => Tip(mem, snap, incr) /\ stateJson # None
      /\ op = "add" => /\ stateJson = None /\ mem.seq = 0
                       /\ \A s \in Seqs : incr[s] = None /\ (s # 1 => snap[s] = None)
  BY Zenon, <1>1, UploadAtTip
<1>3. ~(budget["stop"] > 0) /\ ~(budget'["stop"] > 0) /\ budget'["stop"] = budget["stop"]
  BY Zenon, <1>1, FaultBudget
<1>4. op # "add" => Tip(mem, snap', incr') /\ Grows(snap, incr, snap', incr')
  <2> SUFFICES ASSUME op # "add" PROVE Tip(mem, snap', incr') /\ Grows(snap, incr, snap', incr')
    BY Zenon
  <2>1. CASE UNCHANGED snap
    BY <1>1, <1>2, <2>1, VersionsAreNat DEF Grows, TipInv, RestoreInv
  <2>2. CASE snap[mem.seq + 1] = None /\ snap' = [snap EXCEPT ![mem.seq + 1] = job.obj]
    <3> DEFINE m2 == Mem(mem.seq + 1, 0, 0, 0, job.obj.sum)
    <3>1. m2.seq = mem.seq + 1 /\ m2.sum = job.obj.sum
      BY Zenon
    <3> HIDE DEF m2
    <3> QED
      BY Zenon, <1>1, <2>2, <3>1, UploadLands
  <2> QED
    BY Zenon, <1>1, <2>1, <2>2
<1>5. CASE Fail(mem)
  <2>1. CASE op = "add"
    BY Zenon, <1>1, <1>2, <1>3, <1>5, <2>1, AddFails DEF Fail
  <2>2. CASE op # "add"
    <3>1. pc' = "idle" /\ op' = "none" /\ UNCHANGED <<mem, pin>>
      BY Zenon, <1>5, <2>2 DEF Fail
    <3>2. Sealed(mem)'
      BY Zenon, <1>1, <1>2, <3>1 DEF Sealed
    <3> QED
      BY Zenon, <1>1, <1>2, <1>3, <1>4, <2>2, <3>1, <3>2, FailTip
  <2> QED
    BY Zenon, <1>4, <2>1, <2>2
<1>6. CASE UNCHANGED <<pin, mem, pc, op, job, acked>>
  <2>1. Tips'
    BY Zenon, <1>1, <1>4, <1>6 DEF Tips
  <2>2. Founding'
    <3> SUFFICES ASSUME op = "add" PROVE Founding'
      BY Zenon, <1>6 DEF Founding
    <3>1. \A s \in Seqs : s # mem.seq + 1 => snap'[s] = snap[s]
      <4>1. CASE UNCHANGED snap
        BY Zenon, <4>1
      <4>2. CASE snap' = [snap EXCEPT ![mem.seq + 1] = job.obj]
        BY Zenon, <1>2, <4>2
      <4> QED
        BY Zenon, <1>1, <4>1, <4>2
    <3>2. \A s \in Seqs : incr'[s] = None /\ (s # 1 => snap'[s] = None)
      BY <1>1, <1>2, <3>1
    <3> QED
      BY Zenon, <1>1, <1>2, <1>6, <3>2 DEF Founding
  <2>3. SnapshotNewer' /\ Calm'
    BY Zenon, <1>1, <1>3, <1>6 DEF TipInv, SnapshotNewer, CoveredBy, Calm
  <2>4. Awaits'
    BY Zenon, <1>1, <1>3, <1>6 DEF TipInv, Awaits
  <2> QED
    BY Zenon, <1>4, <2>1, <2>2, <2>3, <2>4 DEF TipInv
<1> QED
  BY Zenon, <1>1, <1>4, <1>5, <1>6

-----------------------------------------------------------------------------
(* state.json, registration, the timer, the stop.                           *)

\* The cursor is saved: state.json is at the tip.
LEMMA SaveOkTip == ASSUME TipInv, RestoreInv', SaveOk PROVE TipInv'
<1> USE DEF store, sqlite
<1>1. StreamInv /\ Tips /\ Founding /\ SnapshotNewer /\ Calm /\ Awaits /\ pc = "save"
  BY Zenon DEF TipInv, RestoreInv, SaveOk
<1>2. /\ stateJson' = mem /\ mem # None /\ HasHeader /\ pin > 0 /\ mem.salt = salt
      /\ Tip(mem, snap, incr) /\ Sealed(mem) /\ UNCHANGED <<sqlite, snap, incr, budget>>
      /\ Finish(op, job.goal, mem)
  BY Zenon, <1>1 DEF SaveOk, Awaits, Tips
<1>3. CASE op = "remove"
  <2>1. pc' = "stopped" /\ op' = "none" /\ mem' = NoMem /\ ~(budget'["stop"] > 0)
    BY <1>1, <1>2, <1>3 DEF Finish, Awaits
  <2>2. Tips' /\ Founding' /\ SnapshotNewer' /\ Calm'
    BY Zenon, <1>2, <2>1 DEF Tips, Founding, SnapshotNewer, Calm, Sealed
  <2>3. mem' # None
    BY Zenon, <2>1 DEF None
  <2>4. Awaits'
    BY Zenon, <1>2, <2>1, <2>3 DEF Awaits
  <2> QED
    BY Zenon, <2>2, <2>4 DEF TipInv
<1>4. CASE op # "remove"
  <2>1. pc' = "idle" /\ op' = "none" /\ UNCHANGED <<mem, pin>>
    BY Zenon, <1>2, <1>4 DEF Finish
  <2>2. Tips' /\ Founding' /\ SnapshotNewer' /\ Awaits'
    BY Zenon, <1>2, <2>1 DEF Tips, Founding, SnapshotNewer, Sealed, Awaits
  <2>3. budget["stop"] > 0 => NothingAbove(mem)
    BY <1>1, BoundsAssumption DEF Calm, Founding, NothingAbove
  <2>4. Calm'
    BY Zenon, <1>1, <1>2, <2>1, <2>3 DEF Calm, NothingAbove
  <2> QED
    BY Zenon, <2>2, <2>4 DEF TipInv
<1> QED
  BY Zenon, <1>3, <1>4

\* The write of state.json fails, or succeeds and its answer is lost.
LEMMA SaveErrorTip == ASSUME TipInv, RestoreInv', SaveError PROVE TipInv'
<1> USE DEF store, sqlite
<1>1. StreamInv /\ Tips /\ Founding /\ Awaits /\ pc = "save" /\ Spend("save")
  BY Zenon DEF TipInv, RestoreInv, SaveError
<1>2. /\ stateJson' \in {stateJson, mem} /\ mem # None /\ HasHeader /\ pin > 0
      /\ Tip(mem, snap, incr) /\ Sealed(mem) /\ UNCHANGED <<sqlite, snap, incr>> /\ Fail(mem)
  BY Zenon, <1>1 DEF SaveError, Awaits, Tips
<1>3. ~(budget'["stop"] > 0)
  BY Zenon, <1>1, FaultBudget
<1>4. CASE op # "add"
  <2>1. pc' = "idle" /\ op' = "none" /\ UNCHANGED <<mem, pin>> /\ stateJson' # None
    BY Zenon, <1>1, <1>2, <1>4 DEF Fail, Awaits
  <2>2. Sealed(mem)'
    BY Zenon, <1>2, <2>1 DEF Sealed
  <2> QED
    BY Zenon, <1>2, <1>3, <1>4, <2>1, <2>2, FailTip
<1>5. CASE op = "add"
  <2>1. pc' = "stopped" /\ op' = "none" /\ mem' = NoMem /\ stateJson' \in {None, mem}
    BY Zenon, <1>1, <1>2, <1>5 DEF Fail, Founding
  <2>2. Tips' /\ Founding' /\ SnapshotNewer' /\ Calm'
    BY Zenon, <1>2, <1>3, <2>1 DEF Tips, Founding, SnapshotNewer, Calm, Sealed
  <2>3. mem' # None
    BY Zenon, <2>1 DEF None
  <2>4. Awaits'
    BY Zenon, <2>1, <2>3 DEF Awaits
  <2> QED
    BY Zenon, <2>2, <2>4 DEF TipInv
<1> QED
  BY Zenon, <1>4, <1>5

\* A fresh lineage.
LEMMA AddTip == ASSUME TipInv, RestoreInv', Add PROVE TipInv'
<1>1. Calm /\ Awaits
  BY Zenon DEF TipInv
<1>2. /\ pc' = "checkpoint" /\ op' = "add" /\ stateJson' = None /\ mem'.seq = 0 /\ UNCHANGED budget
      /\ \A s \in Seqs : snap'[s] = None /\ incr'[s] = None
  BY Zenon DEF Add
<1>3. mem' # None
  BY Zenon DEF Add, None
<1>4. Tips' /\ Founding' /\ SnapshotNewer' /\ Calm' /\ Awaits'
  BY Zenon, <1>1, <1>2, <1>3 DEF Tips, Founding, SnapshotNewer, Calm, Awaits
<1> QED
  BY Zenon, <1>4 DEF TipInv

\* The replicator is registered again, where state.json is.
LEMMA ReopenTip == ASSUME TipInv, RestoreInv', Reopen PROVE TipInv'
<1> USE DEF store
<1>1. StreamInv /\ Tips /\ Calm /\ Awaits /\ pc = "stopped" /\ stateJson # None
  BY Zenon DEF TipInv, RestoreInv, Reopen
<1>2. /\ mem' = stateJson /\ pc' = "idle" /\ UNCHANGED <<op, snap, incr, stateJson, budget>>
      /\ AppendTxn /\ pin' = committed + 1 /\ op = "none"
  BY Zenon, <1>1 DEF Reopen, OpenCheckpointBlocker, Awaits
<1>3. wal' = "open" /\ pin' > 0 /\ SqliteMoves
  BY <1>1, <1>2 DEF AppendTxn, SqliteMoves, StreamInv, CursorsSound, TypeOK, SqliteTypes
<1>4. Sealed(mem)'
  <2>1. Sealed(stateJson) /\ stateJson.salt \in 0 .. salt
    BY <1>1 DEF Tips, StreamInv, CursorsSound, CursorSound
  <2> QED
    BY Zenon, <1>1, <1>2, <1>3, <2>1, SealedKept DEF Sealed
<1>5. Tips' /\ Founding' /\ SnapshotNewer' /\ Calm'
  BY Zenon, <1>1, <1>2, <1>4 DEF Tips, Founding, SnapshotNewer, Calm
<1>6. Awaits'
  BY Zenon, <1>1, <1>2, <1>3 DEF Awaits
<1> QED
  BY Zenon, <1>5, <1>6 DEF TipInv

\* The snapshot timer.
LEMMA SnapshotTickTip == ASSUME TipInv, RestoreInv', SnapshotTick PROVE TipInv'
<1> USE DEF store, sqlite
<1>1. Tips /\ Founding /\ Awaits /\ pc = "idle" /\ Spend("tick")
  BY Zenon DEF TipInv, SnapshotTick
<1>2. /\ pc' = "checkpoint" /\ op' = "snapshot" /\ UNCHANGED <<mem, snap, incr, stateJson>>
  BY Zenon DEF SnapshotTick, StartSnapshot
<1>3. ~(budget'["stop"] > 0)
  BY Zenon, <1>1, FaultBudget
<1>4. Tips' /\ Founding' /\ SnapshotNewer' /\ Calm' /\ Awaits'
  BY Zenon, <1>1, <1>2, <1>3 DEF Tips, Founding, SnapshotNewer, Calm, Awaits
<1> QED
  BY Zenon, <1>4 DEF TipInv

\* The one stop: state.json is at the tip, or one incremental behind it.
LEMMA CrashTip == ASSUME TipInv, RestoreInv', Crash PROVE TipInv'
<1> USE DEF store, sqlite
<1>1. StreamInv /\ Tips /\ Founding /\ Calm /\ Awaits /\ pc # "stopped" /\ Spend("stop")
  BY Zenon DEF TipInv, RestoreInv, Crash
<1>2. budget["stop"] > 0 /\ ~(budget'["stop"] > 0)
  BY <1>1 DEF Spend, Calm, StreamInv, CursorsSound, TypeOK, Kinds
<1>3. /\ pc' = "stopped" /\ op' = "none" /\ mem' = NoMem
      /\ UNCHANGED <<sqlite, snap, incr, stateJson>>
  BY Zenon DEF Crash
<1>4. Founding' /\ SnapshotNewer' /\ Calm'
  BY Zenon, <1>2, <1>3 DEF Founding, SnapshotNewer, Calm
<1>5. Awaits'
  <2>1. mem' # None
    BY Zenon, <1>3 DEF None
  <2> QED
    BY Zenon, <1>3, <2>1 DEF Awaits
<1>6. Tips'
  <2> SUFFICES ASSUME stateJson # None PROVE Tip(stateJson, snap, incr) /\ Sealed(stateJson)'
    BY Zenon, <1>3 DEF Tips
  <2>1. /\ op # "add" /\ Tip(mem, snap, incr) /\ NothingAbove(mem) /\ mem.seq \in Nat
        /\ pc \in {"idle", "publish", "save"}
    BY Zenon, <1>1, <1>2 DEF Tips, Founding, Calm, StreamInv, CursorsSound, TypeOK, TaskTypes, IsMem
  <2>2. CASE pc # "save"
    <3>1. mem.seq = stateJson.seq /\ mem.sum = stateJson.sum
      BY Zenon, <1>1, <1>2, <2>1, <2>2 DEF Calm
    <3> QED
      BY <1>3, <2>1, <3>1 DEF Tip, Reaches, Sealed, NothingAbove
  <2>3. CASE pc = "save"
    <3>1. /\ mem.seq = stateJson.seq + 1 /\ stateJson.seq \in Seqs
          /\ Reaches(stateJson, snap, incr)
          /\ incr[mem.seq] = mem.sum /\ mem.sum.pre = stateJson.sum /\ snap[mem.seq] = None
      BY Zenon, <1>1, <1>2, <2>1, <2>3 DEF Calm
    <3>2. Tip(stateJson, snap, incr)
      BY Zenon, <2>1, <3>1 DEF Tip, NothingAbove
    <3>3. Sealed(stateJson)'
      BY Zenon, <1>3, <3>1 DEF Sealed
    <3> QED
      BY Zenon, <3>2, <3>3
  <2> QED
    BY Zenon, <2>2, <2>3
<1> QED
  BY Zenon, <1>4, <1>5, <1>6 DEF TipInv

=============================================================================
