-------------------------- MODULE OwnedStreamProofs --------------------------
(***************************************************************************)
(* Proofs about OwnedStream for every bound: as long as no checkpoint of   *)
(* ours ends busy, the stream has its types and no incremental spans a     *)
(* gap, whatever the interleaving of commits, crashes, lost answers and    *)
(* foreign checkpoints.                                                    *)
(***************************************************************************)
EXTENDS OwnedTip, TLAPS

USE DEF Seqs, NoSalt, NoChain, Mem, Job, JobOf, NoMem, NoJob, HasHeader

\* What a step of anybody may do to the database files.
SqliteMoves ==
  \/ AppendTxn
  \/ Truncated
  \/ base' \in base .. committed /\ UNCHANGED <<committed, walBase, salt, wal>>

\* A step keeps the inductive invariant.
Keeps(A) == StreamInv /\ A => StreamInv'

\* The conjuncts of StreamInv about storage.
IncrSound == \A s \in Seqs : incr[s] # None => incr[s].kind = "incr" /\ incr[s].ver <= committed

-----------------------------------------------------------------------------
(* Facts that do not depend on the operation.                               *)

\* Commits and checkpoints keep the main file between the WAL and its end.
LEMMA SqliteSoundKept ==
  ASSUME StreamInv, SqliteMoves, pin' \in 0 .. committed'
  PROVE  /\ SqliteTypes' /\ SqliteSound'
         /\ committed' \in Nat /\ committed <= committed'
         /\ base' \in Nat /\ walBase' \in Nat /\ salt' \in Nat /\ salt <= salt'
         /\ wal' \in {"empty", "open"} /\ pin' \in Nat
BY DEF StreamInv, CursorsSound, TypeOK, SqliteTypes, SqliteSound, SqliteMoves, AppendTxn, Truncated

\* A WAL that still has the salt of an earlier moment is the WAL of that moment.
LEMMA SameWal ==
  ASSUME StreamInv, SqliteMoves, NEW s \in 0 .. salt
  PROVE  /\ wal' = "open" /\ s = salt' => wal = "open" /\ s = salt /\ walBase' = walBase
         /\ salt' \in Nat /\ salt <= salt' /\ committed' \in Nat /\ committed <= committed'
BY DEF StreamInv, CursorsSound, TypeOK, SqliteTypes, SqliteMoves, AppendTxn, Truncated

\* A sound cursor stays sound: either the WAL is still the one it was taken in,
\* which only grows, or the salt has changed.
LEMMA CursorKept ==
  ASSUME StreamInv, SqliteMoves, NEW m, IsMem(m), IsSum(m.sum), CursorSound(m)
  PROVE  /\ m.salt \in 1 .. salt' /\ m.sum.ver <= committed'
         /\ wal' = "open" /\ m.salt = salt' => walBase' + m.off <= Floor(m.sum)
<1>1. m.salt \in 1 .. salt /\ m.sum.ver <= committed /\ m.sum.ver \in Nat
      /\ (wal = "open" /\ m.salt = salt => walBase + m.off <= Floor(m.sum))
  BY Zenon DEF CursorSound, IsSum
<1>2. committed \in Nat /\ salt \in Nat
  BY Zenon DEF StreamInv, CursorsSound, TypeOK, SqliteTypes
<1> QED
  BY <1>1, <1>2, SameWal

\* The cursor in state.json.
LEMMA SavedCursorKept ==
  ASSUME StreamInv, SqliteMoves, UNCHANGED stateJson
  PROVE  stateJson' # None => CursorSound(stateJson)'
<1> SUFFICES ASSUME stateJson # None PROVE CursorSound(stateJson)'
  BY Zenon
<1>1. IsMem(stateJson) /\ IsSum(stateJson.sum) /\ CursorSound(stateJson)
  BY Zenon DEF StreamInv, CursorsSound, TypeOK, StoreTypes
<1> QED
  BY Zenon, <1>1, CursorKept DEF CursorSound, Floor

\* The cursor in memory.
LEMMA MemCursorKept ==
  ASSUME StreamInv, SqliteMoves, pc # "stopped", CursorSound(mem), UNCHANGED mem
  PROVE  CursorSound(mem)'
<1>1. IsMem(mem) /\ IsSum(mem.sum)
  BY Zenon DEF StreamInv, CursorsSound, TypeOK, TaskTypes
<1> QED
  BY Zenon, <1>1, CursorKept DEF CursorSound, Floor

\* A superseded cursor stays superseded.
LEMMA SupersededKept ==
  ASSUME StreamInv, SqliteMoves, pc # "stopped", CursorSuperseded, UNCHANGED <<mem, op, pc>>
  PROVE  CursorSuperseded'
<1>1. mem.sum.ver \in Nat /\ committed \in Nat /\ salt \in Nat
  BY Zenon DEF StreamInv, CursorsSound, TypeOK, SqliteTypes, TaskTypes, IsSum
<1> QED
  BY <1>1, SameWal DEF CursorSuperseded

\* Objects in storage are immutable.
LEMMA StoreKept ==
  ASSUME StreamInv, committed' \in Nat, committed <= committed', UNCHANGED store
  PROVE  StoreTypes' /\ ChainSound' /\ IncrSound'
<1>1. StoreTypes'
  BY Zenon DEF StreamInv, CursorsSound, TypeOK, StoreTypes, store, IsMem, IsSum
<1>2. committed \in Nat
  BY Zenon DEF StreamInv, CursorsSound, TypeOK, SqliteTypes
<1>3. ChainSound'
  BY Zenon DEF StreamInv, CursorsSound, ChainSound, store, Floor
<1>4. IncrSound'
  BY <1>2 DEF StreamInv, CursorsSound, TypeOK, StoreTypes, IncrSound, store, IsSum
<1> QED
  BY Zenon, <1>1, <1>3, <1>4

\* Fault budgets are natural numbers, and no busy checkpoint is left.
LEMMA BudgetKept ==
  ASSUME StreamInv, NEW k \in Kinds, Spend(k) \/ UNCHANGED budget
  PROVE  budget' \in [Kinds -> Nat] /\ budget'["busy"] = 0
<1>1. budget \in [Kinds -> Nat] /\ budget["busy"] = 0
  BY Zenon DEF StreamInv, CursorsSound, TypeOK
<1>2. CASE UNCHANGED budget
  BY Zenon, <1>1, <1>2
<1>3. CASE Spend(k)
  BY <1>1, <1>3 DEF Spend
<1> QED
  BY Zenon, <1>2, <1>3

-----------------------------------------------------------------------------
(* The environment: it moves SQLite and leaves replicator and store alone.  *)

\* Any step of the application or of another connection.
LEMMA EnvironmentInv ==
  ASSUME StreamInv, SqliteMoves,
         pc \in {"encode", "upload"} => UNCHANGED <<walBase, wal>> /\ base <= base',
         UNCHANGED <<pin, mem, pc, op, job, store, intent, acked, refused>>,
         \E k \in Kinds : Spend(k)
  PROVE  StreamInv'
<1>1. budget' \in [Kinds -> Nat] /\ budget'["busy"] = 0
  BY Zenon, BudgetKept
<1>2. committed' \in Nat /\ committed <= committed'
  BY DEF StreamInv, CursorsSound, TypeOK, SqliteTypes, SqliteMoves, AppendTxn, Truncated
<1>3. pin' \in 0 .. committed'
  BY <1>2 DEF StreamInv, CursorsSound, TypeOK, SqliteTypes, SqliteSound
<1>4. SqliteTypes' /\ SqliteSound' /\ base' \in Nat /\ walBase' \in Nat /\ salt' \in Nat /\ salt <= salt'
      /\ wal' \in {"empty", "open"} /\ pin' \in Nat
  BY Zenon, <1>3, SqliteSoundKept
<1>5. TypeOK'
  <2>1. TaskTypes'
    BY Zenon DEF StreamInv, CursorsSound, TypeOK, TaskTypes, IsMem, IsSum
  <2> QED
    BY Zenon, <1>1, <1>2, <1>4, <2>1, StoreKept DEF StreamInv, CursorsSound, TypeOK
<1>6. stateJson' # None => CursorSound(stateJson)'
  BY Zenon, SavedCursorKept DEF store
<1>7. pc' \in {"idle", "publish", "save"} => CursorSound(mem)'
  BY Zenon, MemCursorKept DEF StreamInv, CursorsSound
<1>8. pc' \in {"checkpoint", "reacquire", "encode", "upload"} => CursorSuperseded'
  BY Zenon, SupersededKept DEF StreamInv, CursorsSound
<1>9. pc' = "publish" => PublishSound'
  <2> SUFFICES ASSUME pc = "publish" PROVE PublishSound'
    BY Zenon
  <2>1. PublishSound /\ mem.salt \in 1 .. salt /\ committed \in Nat
    BY Zenon DEF StreamInv, CursorsSound, CursorSound, TypeOK, SqliteTypes
  <2>2. wal' = "open" /\ mem.salt = salt' => wal = "open" /\ mem.salt = salt /\ walBase' = walBase
    BY <2>1, SameWal
  <2> QED
    BY <1>2, <2>1, <2>2 DEF PublishSound, IsSum, Floor
<1>10. pc' \in {"encode", "upload"} => SnapshotSound'
  <2> SUFFICES ASSUME pc \in {"encode", "upload"} PROVE SnapshotSound'
    BY Zenon
  <2>1. SnapshotSound /\ UNCHANGED <<walBase, wal, mem, job, pin, pc>> /\ base <= base'
    BY Zenon DEF StreamInv, CursorsSound
  <2>2. committed \in Nat /\ base \in Nat /\ walBase \in Nat
    BY Zenon DEF StreamInv, CursorsSound, TypeOK, SqliteTypes
  <2> QED
    BY <1>2, <1>4, <2>1, <2>2 DEF SnapshotSound, IsSum
<1>11. ChainSound' /\ IncrSound'
  BY Zenon, <1>2, StoreKept
<1> QED
  BY Zenon, <1>1, <1>4, <1>5, <1>6, <1>7, <1>8, <1>9, <1>10, <1>11 DEF StreamInv, CursorsSound,
         IncrSound

\* A commit by the application.
LEMMA AppCommitInv == Keeps(AppCommit)
<1> SUFFICES ASSUME StreamInv, AppCommit PROVE StreamInv'
  BY Zenon DEF Keeps
<1>1. SqliteMoves /\ \E k \in Kinds : Spend(k)
  BY Zenon DEF AppCommit, SqliteMoves, Kinds
<1>2. pc \in {"encode", "upload"} => UNCHANGED <<walBase, wal>> /\ base <= base'
  BY DEF AppCommit, AppendTxn, StreamInv, CursorsSound, SnapshotSound, TypeOK, SqliteTypes
<1> QED
  BY Zenon, <1>1, <1>2, EnvironmentInv DEF AppCommit

\* A partial checkpoint by another connection.
LEMMA ExtBackfillInv == Keeps(ExtBackfill)
<1> SUFFICES ASSUME StreamInv, ExtBackfill PROVE StreamInv'
  BY Zenon DEF Keeps
<1>1. base' \in base .. committed /\ UNCHANGED <<committed, walBase, salt, wal>>
  BY DEF ExtBackfill, StreamInv, CursorsSound, TypeOK, SqliteTypes, SqliteSound
<1>2. \E k \in Kinds : Spend(k)
  BY Zenon DEF ExtBackfill, Kinds
<1> QED
  BY <1>1, <1>2, EnvironmentInv DEF ExtBackfill, SqliteMoves

\* A complete checkpoint by another connection: never under a pin.
LEMMA ExtTruncateInv == Keeps(ExtTruncate)
<1> SUFFICES ASSUME StreamInv, ExtTruncate PROVE StreamInv'
  BY Zenon DEF Keeps
<1>1. \E k \in Kinds : Spend(k)
  BY Zenon DEF ExtTruncate, Kinds
<1>2. pc \notin {"encode", "upload"}
  BY DEF ExtTruncate, StreamInv, CursorsSound, SnapshotSound
<1> QED
  BY Zenon, <1>1, <1>2, EnvironmentInv DEF ExtTruncate, SqliteMoves

-----------------------------------------------------------------------------
(* The replicator: its steps other than the checkpoint and the blocker      *)
(* leave SQLite alone.                                                      *)

\* The store and the budgets of StreamInv, for steps that leave SQLite alone.
StoreSound ==
  /\ StoreTypes /\ ChainSound /\ IncrSound
  /\ stateJson # None => CursorSound(stateJson)
  /\ refused \subseteq Nat /\ acked \in Nat

\* Nothing is published: the store stays as it is.
LEMMA StoreSoundKept ==
  ASSUME StreamInv, UNCHANGED <<sqlite, store>>, refused' \subseteq Nat, acked' \in Nat
  PROVE  StoreSound'
<1>1. stateJson' # None => CursorSound(stateJson)'
  BY Zenon DEF StreamInv, CursorsSound, sqlite, store, CursorSound
<1>2. committed' \in Nat /\ committed <= committed'
  BY DEF StreamInv, CursorsSound, TypeOK, SqliteTypes, sqlite
<1> QED
  BY Zenon, <1>1, <1>2, StoreKept DEF StoreSound

\* The types, for a step that leaves SQLite alone.
LEMMA TypesKept ==
  ASSUME StreamInv, UNCHANGED sqlite, pin' \in {0, pin}, StoreSound', TaskTypes',
         budget' \in [Kinds -> Nat]
  PROVE  TypeOK' /\ SqliteSound'
<1>1. SqliteTypes' /\ SqliteSound'
  BY DEF StreamInv, CursorsSound, TypeOK, SqliteTypes, SqliteSound, sqlite
<1> QED
  BY Zenon, <1>1 DEF TypeOK, StoreSound

\* An operation returns, with Ok or with Err.
LEMMA ReturnInv ==
  ASSUME StreamInv, UNCHANGED sqlite, StoreSound',
         budget' \in [Kinds -> Nat] /\ budget'["busy"] = 0,
         op' = "none", job' = NoJob, pin' \in {0, pin}, IsMem(mem)',
         pc' = "stopped" \/ (pc' = "idle" /\ IsSum(mem.sum)' /\ CursorSound(mem)')
  PROVE  StreamInv'
<1>1. TaskTypes'
  BY Zenon DEF TaskTypes
<1>2. TypeOK' /\ SqliteSound'
  BY Zenon, <1>1, TypesKept
<1> QED
  BY Zenon, <1>2 DEF StreamInv, CursorsSound, StoreSound, IncrSound

\* What a read of the WAL leaves of the cursor.
LEMMA AfterReadSound ==
  ASSUME StreamInv, pc = "idle", HasHeader
  PROVE  /\ IsMem(AfterRead(mem)) /\ AfterRead(mem).sum = mem.sum
         /\ AfterRead(mem).seq = mem.seq /\ AfterRead(mem).salt = salt
         /\ ~RolledOver(mem) => AfterRead(mem).off = mem.off /\ mem.salt = salt
<1> DEFINE r == IF RolledOver(mem) THEN Mem(mem.seq, 0, salt, NoChain, mem.sum)
                                  ELSE Mem(mem.seq, mem.off, salt, mem.chain, mem.sum)
<1>1. WalLen \in Nat /\ salt \in Nat /\ IsMem(mem)
  BY DEF StreamInv, CursorsSound, TypeOK, SqliteTypes, TaskTypes, StoreTypes, SqliteSound, WalLen
<1>2. IsMem(r) /\ r.sum = mem.sum /\ r.seq = mem.seq /\ r.salt = salt
      /\ (~RolledOver(mem) => r.off = mem.off)
  BY Zenon, <1>1 DEF IsMem
<1>3. ~RolledOver(mem) => mem.salt = salt
  BY DEF StreamInv, CursorsSound, CursorSound, RolledOver, SqliteTypes
<1>4. AfterRead(mem) = IF HasBatch(r) THEN Mem(r.seq, r.off, r.salt, WalLen, r.sum) ELSE r
  BY Zenon DEF AfterRead
<1> HIDE DEF r
<1>5. CASE HasBatch(r)
  BY <1>1, <1>2, <1>3, <1>4 DEF IsMem
<1>6. CASE ~HasBatch(r)
  BY Zenon, <1>2, <1>3, <1>4, <1>6
<1> QED
  BY Zenon, <1>5, <1>6

\* No WAL header: the sync returns at once.
LEMMA SyncNoWalInv == ASSUME NEW o \in {"sync", "remove"}
                      PROVE  Keeps(SyncNoWal(o))
<1> SUFFICES ASSUME StreamInv, SyncNoWal(o) PROVE StreamInv'
  BY Zenon DEF Keeps
<1> USE DEF SyncNoWal, Begin, Finish
<1>1. budget' \in [Kinds -> Nat] /\ budget'["busy"] = 0
  <2>1. "stop" \in Kinds /\ (Spend("stop") \/ UNCHANGED budget)
    BY Zenon DEF Kinds
  <2> QED
    BY Zenon, <2>1, BudgetKept
<1>2. acked' \in Nat /\ refused' \subseteq Nat
  BY Zenon DEF StreamInv, CursorsSound, TypeOK, SqliteTypes, TaskTypes, StoreTypes
<1>3. StoreSound'
  BY Zenon, <1>2, StoreSoundKept
<1>4. IsMem(mem)' /\ (pc' = "idle" => IsSum(mem.sum)' /\ CursorSound(mem)')
  <2>1. IsMem(mem) /\ IsSum(mem.sum) /\ CursorSound(mem)
    BY Zenon DEF StreamInv, CursorsSound, TypeOK, TaskTypes
  <2>2. CASE o = "remove"
    BY <2>2 DEF IsMem
  <2>3. CASE o # "remove"
    BY Zenon, <2>1, <2>3 DEF CursorSound, sqlite
  <2> QED
    BY Zenon, <2>2, <2>3
<1> QED
  BY Zenon, <1>1, <1>3, <1>4, ReturnInv

\* Nothing behind the offset: the sync returns, with salt and chain refreshed.
LEMMA SyncEmptyInv == ASSUME NEW o \in {"sync", "remove"}
                      PROVE  Keeps(SyncEmpty(o))
<1> SUFFICES ASSUME StreamInv, SyncEmpty(o) PROVE StreamInv'
  BY Zenon DEF Keeps
<1> USE DEF SyncEmpty, Begin, Finish
<1>1. budget' \in [Kinds -> Nat] /\ budget'["busy"] = 0
  <2>1. "stop" \in Kinds /\ (Spend("stop") \/ UNCHANGED budget)
    BY Zenon DEF Kinds
  <2> QED
    BY Zenon, <2>1, BudgetKept
<1>2. acked' \in Nat /\ refused' \subseteq Nat
  BY Zenon DEF StreamInv, CursorsSound, TypeOK, SqliteTypes
<1>3. StoreSound'
  BY Zenon, <1>2, StoreSoundKept
<1>4. IsMem(mem)'
  BY AfterReadSound DEF IsMem
<1>5. pc' = "idle" => IsSum(mem.sum)' /\ CursorSound(mem)'
  <2> SUFFICES ASSUME pc' = "idle" PROVE IsSum(mem.sum)' /\ CursorSound(mem)'
    BY Zenon
  <2>1. mem'.sum = mem.sum /\ mem'.salt = mem.salt /\ mem'.off = mem.off
    BY Zenon, AfterReadSound
  <2>2. CursorSound(mem) /\ IsSum(mem.sum)
    BY Zenon DEF StreamInv, CursorsSound, TypeOK, TaskTypes
  <2> QED
    BY Zenon, <2>1, <2>2 DEF CursorSound, sqlite
<1> QED
  BY Zenon, <1>1, <1>3, <1>4, <1>5, ReturnInv

\* A rollover: the cursor is given up and a snapshot begins.
LEMMA SyncRolloverInv == ASSUME NEW o \in {"sync", "remove"}
                         PROVE  Keeps(SyncRollover(o))
<1> SUFFICES ASSUME StreamInv, SyncRollover(o) PROVE StreamInv'
  BY Zenon DEF Keeps
<1> USE DEF SyncRollover, Begin, StartSnapshot
<1>1. budget' \in [Kinds -> Nat] /\ budget'["busy"] = 0
  <2>1. "stop" \in Kinds /\ (Spend("stop") \/ UNCHANGED budget)
    BY Zenon DEF Kinds
  <2> QED
    BY Zenon, <2>1, BudgetKept
<1>2. StoreSound'
  BY Zenon, StoreSoundKept DEF StreamInv, CursorsSound, TypeOK
<1>3. IsMem(mem)' /\ mem'.sum = mem.sum /\ mem'.seq = mem.seq /\ mem'.salt = salt
  BY Zenon, AfterReadSound
<1>4. TypeOK' /\ SqliteSound'
  <2>1. IsSum(mem'.sum) /\ job'.goal \in Nat
    BY Zenon, <1>3 DEF StreamInv, CursorsSound, TypeOK, SqliteTypes, TaskTypes
  <2>2. TaskTypes'
    BY Zenon, <1>3, <2>1 DEF TaskTypes
  <2> QED
    BY Zenon, <1>1, <1>2, <2>2, TypesKept
<1>5. CursorSuperseded'
  <2>1. pc' = "checkpoint" /\ mem.sum.ver <= committed /\ salt > 0 /\ salt \in Nat
    BY DEF StreamInv, CursorsSound, TypeOK, SqliteTypes, CursorSound
  <2> QED
    BY <1>3, <2>1 DEF CursorSuperseded, sqlite
<1>6. mem'.seq + 1 \in Seqs
  <2>1. mem'.seq \in Nat /\ mem'.seq < MaxSeq
    BY Zenon, <1>3 DEF IsMem
  <2> QED
    BY <2>1, BoundsAssumption
<1> QED
  BY Zenon, <1>1, <1>2, <1>4, <1>5, <1>6 DEF StreamInv, CursorsSound, StoreSound, IncrSound

\* The batch that is read starts at the cursor, in the WAL the cursor is of.
LEMMA SyncReadInv == ASSUME NEW o \in {"sync", "remove"}
                     PROVE  Keeps(SyncRead(o))
<1> SUFFICES ASSUME StreamInv, SyncRead(o) PROVE StreamInv'
  BY Zenon DEF Keeps
<1>0. pc = "idle" /\ wal = "open" /\ ~RolledOver(mem) /\ UNCHANGED <<sqlite, store, acked, refused, pin>>
      /\ mem' = AfterRead(mem) /\ pc' = "publish" /\ op' = o
  BY Zenon DEF SyncRead, Begin
<1>1. budget' \in [Kinds -> Nat] /\ budget'["busy"] = 0
  <2>1. "stop" \in Kinds /\ (Spend("stop") \/ UNCHANGED budget)
    BY Zenon DEF Kinds, SyncRead, Begin
  <2> QED
    BY Zenon, <2>1, BudgetKept
<1>2. StoreSound'
  BY Zenon, <1>0, StoreSoundKept DEF StreamInv, CursorsSound, TypeOK
<1>3. IsMem(mem)' /\ mem'.sum = mem.sum /\ mem'.seq = mem.seq /\ mem'.salt = salt
      /\ mem'.off = mem.off /\ mem.salt = salt
  BY Zenon, <1>0, AfterReadSound
<1>4. /\ CursorSound(mem) /\ IsSum(mem.sum) /\ IsMem(mem)
      /\ committed \in Nat /\ walBase \in Nat /\ salt \in Nat /\ walBase <= committed
  BY <1>0 DEF StreamInv, CursorsSound, TypeOK, SqliteTypes, TaskTypes, SqliteSound
<1>5. job' = Job(committed, committed - walBase, 0,
                 IncrSum(mem.sum, walBase + mem.off, committed), intent)
  BY Zenon DEF WalLen, SyncRead
<1>6. TypeOK' /\ SqliteSound'
  <2>1. job'.goal \in Nat /\ IsSum(mem'.sum)
    BY Zenon, <1>3, <1>4, <1>5
  <2>2. TypeOK'
    BY Zenon, <1>0, <1>1, <1>2, <1>3, <2>1 DEF StreamInv, CursorsSound, TypeOK, SqliteTypes, TaskTypes,
           StoreTypes, StoreSound, sqlite
  <2> QED
    BY Zenon, <1>0, <2>2 DEF StreamInv, CursorsSound, SqliteSound, sqlite
<1>7. CursorSound(mem)'
  BY Zenon, <1>0, <1>3, <1>4 DEF CursorSound, sqlite
<1>8. mem.off < committed - walBase
  BY Zenon, <1>0 DEF HasBatch, WalLen, SyncRead
<1>9. PublishSound'
  <2>0. mem.seq < MaxSeq
    BY Zenon DEF SyncRead
  <2>1. mem'.seq + 1 \in Seqs
    BY <1>3, <1>4, <2>0, BoundsAssumption DEF IsMem
  <2>2. walBase + mem.off <= Floor(mem.sum) /\ mem.sum.ver <= committed
    BY Zenon, <1>0, <1>3, <1>4 DEF CursorSound
  <2>3. Floor(mem.sum)' = Floor(mem.sum) /\ mem'.sum.ver = mem.sum.ver
    BY Zenon, <1>3
  <2> QED
    BY <1>0, <1>3, <1>4, <1>5, <1>8, <2>1, <2>2 DEF PublishSound, IncrSum, IsSum, sqlite,
           IsMem
<1> QED
  BY Zenon, <1>0, <1>1, <1>2, <1>6, <1>7, <1>9 DEF StreamInv, CursorsSound, StoreSound, IncrSound

-----------------------------------------------------------------------------
(* Publishing, and the first half of take_snapshot.                         *)

\* An incremental lands: it extends the state its checksum names.
LEMMA IncrLands ==
  ASSUME StreamInv, pc = "publish", UNCHANGED <<sqlite, snap, stateJson>>,
         incr' = [incr EXCEPT ![mem.seq + 1] = job.obj],
         refused' \subseteq Nat, acked' \in Nat
  PROVE  StoreSound'
<1>1. PublishSound /\ IsSum(mem.sum) /\ mem.seq + 1 \in Seqs /\ DOMAIN incr = Seqs
  BY Zenon DEF StreamInv, CursorsSound, TypeOK, TaskTypes, StoreTypes, PublishSound
<1>2. \A s \in Seqs : incr'[s] = IF s = mem.seq + 1 THEN job.obj ELSE incr[s]
  BY Zenon, <1>1
<1>3. DOMAIN incr' = Seqs
  BY Zenon, <1>1
<1>4. \A s \in Seqs : incr'[s] # None => IsSum(incr'[s])
  BY Zenon DEF StreamInv, CursorsSound, TypeOK, SqliteTypes, TaskTypes, StoreTypes, PublishSound
<1>5. ChainSound'
  BY DEF StreamInv, CursorsSound, ChainSound, PublishSound
<1>6. IncrSound'
  BY DEF StreamInv, CursorsSound, IncrSound, PublishSound, sqlite
<1>7. stateJson' # None => IsMem(stateJson') /\ IsSum(stateJson'.sum) /\ CursorSound(stateJson)'
  BY Zenon DEF StreamInv, CursorsSound, TypeOK, SqliteTypes, TaskTypes, StoreTypes, CursorSound, sqlite
<1>8. DOMAIN snap' = Seqs /\ \A s \in Seqs : snap'[s] # None => IsSum(snap'[s].sum)
  BY Zenon DEF StreamInv, CursorsSound, TypeOK, StoreTypes
<1>9. StoreTypes'
  BY Zenon, <1>3, <1>4, <1>7, <1>8 DEF StoreTypes
<1> QED
  BY Zenon, <1>5, <1>6, <1>7, <1>9 DEF StoreSound

\* The put succeeds: memory advances to the object.
LEMMA PublishOkInv == Keeps(PublishOk)
<1> SUFFICES ASSUME StreamInv, PublishOk PROVE StreamInv'
  BY Zenon DEF Keeps
<1> USE DEF PublishOk
<1>1. StoreSound'
  BY Zenon, IncrLands DEF StreamInv, CursorsSound, TypeOK
<1>2. PublishSound /\ CursorSound(mem) /\ IsMem(mem) /\ job.goal \in Nat
  BY Zenon DEF StreamInv, CursorsSound, TypeOK, TaskTypes
<1>3. IsMem(mem)' /\ mem'.sum = job.obj /\ mem'.salt = mem.salt /\ mem'.off = job.off
  BY <1>2 DEF IsMem, PublishSound
<1>4. IsSum(mem'.sum)
  BY Zenon, <1>2 DEF PublishSound
<1>5. TypeOK' /\ SqliteSound' /\ budget'["busy"] = 0
  <2>1. TaskTypes'
    BY Zenon, <1>2, <1>3, <1>4 DEF StreamInv, CursorsSound, TypeOK, TaskTypes
  <2>2. budget' \in [Kinds -> Nat] /\ budget'["busy"] = 0
    BY Zenon DEF StreamInv, CursorsSound, TypeOK
  <2> QED
    BY Zenon, <1>1, <2>1, <2>2, TypesKept
<1>6. CursorSound(mem)'
  BY Zenon, <1>2 DEF CursorSound, PublishSound, Floor, sqlite
<1> QED
  BY Zenon, <1>1, <1>5, <1>6 DEF StreamInv, CursorsSound, StoreSound, IncrSound

\* The object is ours from before a crash: adopt it and re-anchor.
LEMMA PublishAdoptInv == Keeps(PublishAdopt)
<1> SUFFICES ASSUME StreamInv, PublishAdopt PROVE StreamInv'
  BY Zenon DEF Keeps
<1> USE DEF PublishAdopt, StartSnapshot
<1>1. StoreSound'
  BY Zenon, StoreSoundKept DEF StreamInv, CursorsSound, TypeOK, SqliteTypes, TaskTypes
<1>2. /\ CursorSound(mem) /\ IsMem(mem) /\ job.goal \in Nat /\ mem.seq + 1 \in Seqs
      /\ IsSum(incr[mem.seq + 1]) /\ incr[mem.seq + 1].ver <= committed /\ salt \in Nat
  BY Zenon DEF StreamInv, CursorsSound, TypeOK, SqliteTypes, TaskTypes, StoreTypes, PublishSound
<1>3. IsMem(mem)' /\ mem'.sum = incr[mem.seq + 1] /\ mem'.salt = mem.salt
      /\ mem'.seq + 1 \in Seqs
  BY <1>2, BoundsAssumption DEF IsMem
<1>4. TypeOK' /\ SqliteSound' /\ budget'["busy"] = 0
  <2>1. IsSum(mem'.sum) /\ job'.goal \in Nat
    BY Zenon, <1>2, <1>3
  <2>2. TaskTypes'
    BY Zenon, <1>3, <2>1 DEF StreamInv, CursorsSound, TypeOK, TaskTypes
  <2>3. budget' \in [Kinds -> Nat] /\ budget'["busy"] = 0
    BY Zenon DEF StreamInv, CursorsSound, TypeOK
  <2> QED
    BY Zenon, <1>1, <2>2, <2>3, TypesKept
<1>5. CursorSuperseded'
  BY <1>2 DEF CursorSuperseded, CursorSound, sqlite
<1> QED
  BY Zenon, <1>1, <1>3, <1>4, <1>5 DEF StreamInv, CursorsSound, StoreSound, IncrSound

\* A refused or failed operation that left the cursor in memory sound.
LEMMA FailInv ==
  ASSUME StreamInv, Fail(mem), UNCHANGED sqlite, StoreSound',
         budget' \in [Kinds -> Nat] /\ budget'["busy"] = 0,
         pc \in {"publish", "save", "upload"}
  PROVE  StreamInv'
<1>1. pc' = "idle" => CursorSound(mem)
  BY DEF StreamInv, CursorsSound, StoreTypes, Fail, CursorSuperseded, CursorSound, IsMem
<1>2. IsMem(mem) /\ IsSum(mem.sum) /\ pc' \in {"stopped", "idle"}
  BY Zenon DEF StreamInv, CursorsSound, TypeOK, TaskTypes, Fail
<1>3. mem' = mem \/ (mem' = NoMem /\ pc' = "stopped")
  BY Zenon DEF Fail
<1>4. CASE mem' = mem
  <2>1. IsMem(mem)' /\ IsSum(mem.sum)'
    BY Zenon, <1>2, <1>4
  <2>2. pc' = "idle" => CursorSound(mem)'
    BY Zenon, <1>1, <1>4 DEF CursorSound, sqlite
  <2> QED
    BY Zenon, <2>1, <2>2, ReturnInv DEF Fail
<1>5. CASE mem' = NoMem /\ pc' = "stopped"
  <2>1. IsMem(mem)'
    BY Zenon, <1>5 DEF IsMem
  <2> QED
    BY Zenon, <1>5, <2>1, ReturnInv DEF Fail
<1> QED
  BY Zenon, <1>3, <1>4, <1>5

\* The bytes at our sequence number are not ours.
LEMMA PublishRefusedInv == Keeps(PublishRefused)
<1> SUFFICES ASSUME StreamInv, PublishRefused PROVE StreamInv'
  BY Zenon DEF Keeps
<1>1. refused' \subseteq Nat /\ acked' \in Nat
  <2>1. mem.seq + 1 \in Nat /\ refused \subseteq Nat /\ acked \in Nat
    BY DEF StreamInv, CursorsSound, TypeOK, TaskTypes, IsMem
  <2>2. refused' = refused \cup {mem.seq + 1} /\ acked' = acked
    BY Zenon DEF PublishRefused, Fail
  <2> QED
    BY <2>1, <2>2, Zenon
<1>2. StoreSound'
  BY Zenon, <1>1, StoreSoundKept DEF PublishRefused
<1>3. budget' \in [Kinds -> Nat] /\ budget'["busy"] = 0
  BY Zenon DEF StreamInv, CursorsSound, TypeOK, TaskTypes, PublishRefused
<1> QED
  BY Zenon, <1>2, <1>3, FailInv DEF PublishRefused

\* The put fails, and may have landed all the same.
LEMMA PublishErrorInv == Keeps(PublishError)
<1> SUFFICES ASSUME StreamInv, PublishError PROVE StreamInv'
  BY Zenon DEF Keeps
<1>1. refused' \subseteq Nat /\ acked' \in Nat
  BY Zenon DEF StreamInv, CursorsSound, TypeOK, PublishError, Fail
<1>2. StoreSound'
  <2>1. CASE UNCHANGED incr
    BY Zenon, <1>1, <2>1, StoreSoundKept DEF PublishError, store
  <2>2. CASE incr' = [incr EXCEPT ![mem.seq + 1] = job.obj]
    BY Zenon, <1>1, <2>2, IncrLands DEF PublishError
  <2> QED
    BY Zenon, <2>1, <2>2 DEF PublishError
<1>3. budget' \in [Kinds -> Nat] /\ budget'["busy"] = 0
  <2>1. "put" \in Kinds /\ Spend("put")
    BY Zenon DEF Kinds, PublishError
  <2> QED
    BY Zenon, <2>1, BudgetKept
<1> QED
  BY Zenon, <1>2, <1>3, FailInv DEF PublishError

-----------------------------------------------------------------------------
(* take_snapshot.                                                           *)

\* The checkpoint empties the WAL the cursor was taken in.
LEMMA CheckpointOkInv == Keeps(CheckpointOk)
<1> SUFFICES ASSUME StreamInv, CheckpointOk PROVE StreamInv'
  BY Zenon DEF Keeps
<1> USE DEF CheckpointOk, store
<1>1. SqliteMoves /\ committed' = committed /\ committed \in Nat /\ pin' \in 0 .. committed'
  BY DEF SqliteMoves, Truncated, StreamInv, CursorsSound, TypeOK, SqliteTypes, SqliteSound
<1>2. SqliteTypes' /\ SqliteSound'
  BY Zenon, <1>1, SqliteSoundKept
<1>3. TypeOK' /\ budget'["busy"] = 0
  <2>1. TaskTypes'
    BY Zenon DEF StreamInv, CursorsSound, TypeOK, TaskTypes
  <2> QED
    BY <1>1, <1>2, <2>1, StoreKept DEF StreamInv, CursorsSound, TypeOK
<1>4. stateJson' # None => CursorSound(stateJson)'
  BY Zenon, <1>1, SavedCursorKept
<1>5. ChainSound' /\ IncrSound'
  BY <1>1, StoreKept
<1>6. CursorSuperseded' /\ mem'.seq + 1 \in Seqs
  BY Zenon DEF StreamInv, CursorsSound, TaskTypes, CursorSuperseded, Truncated
<1> QED
  BY Zenon, <1>2, <1>3, <1>4, <1>5, <1>6 DEF StreamInv, CursorsSound, IncrSound

\* No busy checkpoint is left in the budget.
LEMMA CheckpointBusyInv == Keeps(CheckpointBusy)
<1> SUFFICES ASSUME StreamInv, CheckpointBusy PROVE StreamInv'
  BY Zenon DEF Keeps
<1> QED
  BY DEF StreamInv, CursorsSound, CheckpointBusy, Spend

\* The blocker opens a new WAL and pins it; the main file covers what precedes it.
LEMMA ReacquireInv == Keeps(Reacquire)
<1> SUFFICES ASSUME StreamInv, Reacquire PROVE StreamInv'
  BY Zenon DEF Keeps
<1> USE DEF Reacquire, OpenCheckpointBlocker, store
<1>1. SqliteMoves /\ committed' = committed + 1 /\ committed \in Nat /\ pin' \in 0 .. committed'
  BY DEF SqliteMoves, AppendTxn, StreamInv, CursorsSound, TypeOK, SqliteTypes
<1>2. SqliteTypes' /\ SqliteSound' /\ base' \in Nat /\ walBase' \in Nat
  BY Zenon, <1>1, SqliteSoundKept
<1>3. TypeOK' /\ budget'["busy"] = 0
  <2>1. TaskTypes'
    BY Zenon DEF StreamInv, CursorsSound, TypeOK, TaskTypes
  <2> QED
    BY <1>1, <1>2, <2>1, StoreKept DEF StreamInv, CursorsSound, TypeOK
<1>4. stateJson' # None => CursorSound(stateJson)'
  BY Zenon, <1>1, SavedCursorKept
<1>5. ChainSound' /\ IncrSound'
  BY <1>1, StoreKept
<1>6. CursorSuperseded'
  BY DEF StreamInv, CursorsSound, TypeOK, SqliteTypes, TaskTypes, CursorSuperseded, AppendTxn,
         SqliteSound, IsSum
<1>7. SnapshotSound'
  <2>1. wal' = "open" /\ pin' > 0 /\ mem'.seq + 1 \in Seqs /\ pc' = "encode"
    BY <1>1 DEF StreamInv, CursorsSound, AppendTxn
  <2>2. job'.lo \in walBase' .. base'
    BY <1>2 DEF SqliteSound, AppendTxn
  <2> QED
    BY Zenon, <2>1, <2>2 DEF SnapshotSound
<1> QED
  BY Zenon, <1>2, <1>3, <1>4, <1>5, <1>6, <1>7 DEF StreamInv, CursorsSound, IncrSound

\* The image read lies between the file at the pin and the file now.
LEMMA EncodeInv == Keeps(Encode)
<1> SUFFICES ASSUME StreamInv, Encode PROVE StreamInv'
  BY Zenon DEF Keeps
<1> USE DEF Encode
<1>1. StoreSound'
  BY Zenon, StoreSoundKept DEF StreamInv, CursorsSound, TypeOK
<1>2. PICK lo \in {job.lo, base} :
        job' = Job(job.goal, 0, lo, [pre |-> mem.sum, sum |-> FileSum(lo, base)], None)
  BY Zenon
<1>3. SnapshotSound /\ walBase \in Nat /\ base \in Nat /\ committed \in Nat
      /\ walBase <= base /\ base <= committed /\ job.goal \in Nat
  BY Zenon DEF StreamInv, CursorsSound, TypeOK, SqliteTypes, TaskTypes, SqliteSound
<1>4. lo \in Nat /\ walBase <= lo /\ lo <= base
  BY <1>3 DEF SnapshotSound
<1>5. job'.goal = job.goal /\ job'.obj.sum = FileSum(lo, base)
  BY Zenon, <1>2
<1>6. TypeOK' /\ SqliteSound' /\ budget'["busy"] = 0
  <2>1. TaskTypes'
    BY Zenon, <1>3, <1>5 DEF StreamInv, CursorsSound, TypeOK, TaskTypes
  <2>2. budget' \in [Kinds -> Nat] /\ budget'["busy"] = 0
    BY Zenon DEF StreamInv, CursorsSound, TypeOK
  <2> QED
    BY Zenon, <1>1, <2>1, <2>2, TypesKept
<1>7. CursorSuperseded'
  BY Zenon DEF StreamInv, CursorsSound, CursorSuperseded, sqlite
<1>8. SnapshotSound'
  <2>1. IsSum(job'.obj.sum) /\ job'.obj.sum.kind = "file"
        /\ job'.obj.sum.lo = lo /\ job'.obj.sum.ver = base
    BY <1>3, <1>4, <1>5 DEF FileSum, IsSum
  <2> QED
    BY Zenon, <1>3, <1>4, <2>1 DEF SnapshotSound, sqlite
<1> QED
  BY Zenon, <1>1, <1>6, <1>7, <1>8 DEF StreamInv, CursorsSound, StoreSound, IncrSound

\* A snapshot lands.
LEMMA SnapLands ==
  ASSUME StreamInv, pc = "upload", UNCHANGED <<sqlite, incr, stateJson>>,
         snap' = [snap EXCEPT ![mem.seq + 1] = job.obj],
         refused' \subseteq Nat, acked' \in Nat
  PROVE  StoreSound'
<1>1. SnapshotSound /\ mem.seq + 1 \in Seqs /\ DOMAIN snap = Seqs
  BY Zenon DEF StreamInv, CursorsSound, TypeOK, SqliteTypes, TaskTypes, StoreTypes, SnapshotSound
<1>2. \A s \in Seqs : snap'[s] = IF s = mem.seq + 1 THEN job.obj ELSE snap[s]
  BY Zenon, <1>1
<1>3. DOMAIN snap' = Seqs
  BY Zenon, <1>1
<1>4. \A s \in Seqs : snap'[s] # None => IsSum(snap'[s].sum)
  BY Zenon, <1>1, <1>2 DEF StreamInv, CursorsSound, TypeOK, SqliteTypes, TaskTypes, StoreTypes,
         SnapshotSound
<1>5. ChainSound' /\ IncrSound'
  BY Zenon DEF StreamInv, CursorsSound, ChainSound, IncrSound, sqlite
<1>6. stateJson' # None => IsMem(stateJson') /\ IsSum(stateJson'.sum) /\ CursorSound(stateJson)'
  BY Zenon DEF StreamInv, CursorsSound, TypeOK, StoreTypes, CursorSound, sqlite
<1>7. DOMAIN incr' = Seqs /\ \A s \in Seqs : incr'[s] # None => IsSum(incr'[s])
  BY Zenon DEF StreamInv, CursorsSound, TypeOK, SqliteTypes, TaskTypes, StoreTypes
<1>8. StoreTypes'
  BY Zenon, <1>3, <1>4, <1>6, <1>7 DEF StoreTypes
<1> QED
  BY Zenon, <1>5, <1>6, <1>8 DEF StoreSound

\* The snapshot succeeds: the cursor starts over in the pinned WAL.
LEMMA UploadOkInv == Keeps(UploadOk)
<1> SUFFICES ASSUME StreamInv, UploadOk PROVE StreamInv'
  BY Zenon DEF Keeps
<1> USE DEF UploadOk
<1>0. acked' \in Nat /\ refused' \subseteq Nat
  BY Zenon DEF StreamInv, CursorsSound, TypeOK, SqliteTypes, TaskTypes, StoreTypes, Finish
<1>1. StoreSound'
  BY Zenon, <1>0, SnapLands
<1>2. /\ SnapshotSound /\ IsMem(mem) /\ job.goal \in Nat /\ salt > 0 /\ salt \in Nat
      /\ walBase \in Nat /\ committed \in Nat
  BY Zenon DEF StreamInv, CursorsSound, TypeOK, SqliteTypes, TaskTypes, StoreTypes, SqliteSound,
         SnapshotSound
<1> DEFINE m == AfterSnapshot(mem, job.obj.sum)
<1>3. m = Mem(mem.seq + 1, 0, salt, NoChain, job.obj.sum)
  BY Zenon, <1>2 DEF AfterSnapshot, SnapshotSound
<1>4. IsMem(m) /\ IsSum(m.sum)
  BY <1>2, <1>3 DEF IsMem, SnapshotSound
<1>5. m.salt = salt /\ m.off = 0 /\ m.sum = job.obj.sum
  BY <1>3
<1> HIDE DEF m
<1>6. budget' \in [Kinds -> Nat] /\ budget'["busy"] = 0
  BY Zenon DEF StreamInv, CursorsSound, TypeOK, SqliteTypes, TaskTypes, StoreTypes
<1>7. mem' = m => IsMem(mem)' /\ IsSum(mem.sum)' /\ CursorSound(mem)'
  <2> SUFFICES ASSUME mem' = m PROVE IsMem(mem)' /\ IsSum(mem.sum)' /\ CursorSound(mem)'
    BY Zenon
  <2>1. IsMem(mem)' /\ IsSum(mem.sum)'
    BY Zenon, <1>4 DEF IsMem, IsSum
  <2>2. CursorSound(mem)'
    BY <1>2, <1>5 DEF CursorSound, SnapshotSound, Floor, IsSum, sqlite
  <2> QED
    BY Zenon, <2>1, <2>2
<1>8. CASE op = "snapshot"
  <2>1. mem' = m /\ pc' = "idle" /\ op' = "none" /\ job' = NoJob /\ pin' = pin
    BY Zenon, <1>8 DEF Finish, m
  <2> QED
    BY Zenon, <1>1, <1>6, <1>7, <2>1, ReturnInv
<1>9. CASE op # "snapshot"
  <2>1. mem' = m /\ pc' = "save" /\ UNCHANGED <<pin, op, job, acked>>
    BY Zenon, <1>9 DEF m
  <2>2. TaskTypes'
    BY Zenon, <1>2, <1>7, <2>1 DEF StreamInv, CursorsSound, TypeOK, TaskTypes
  <2>3. TypeOK' /\ SqliteSound'
    BY Zenon, <1>1, <1>6, <2>1, <2>2, TypesKept
  <2> QED
    BY Zenon, <1>1, <1>6, <1>7, <2>1, <2>3 DEF StreamInv, CursorsSound, StoreSound, IncrSound
<1> QED
  BY Zenon, <1>8, <1>9

\* Another snapshot is at our sequence number.
LEMMA UploadRefusedInv == Keeps(UploadRefused)
<1> SUFFICES ASSUME StreamInv, UploadRefused PROVE StreamInv'
  BY Zenon DEF Keeps
<1>1. refused' \subseteq Nat /\ acked' \in Nat
  <2>1. mem.seq + 1 \in Nat /\ refused \subseteq Nat /\ acked \in Nat
    BY DEF StreamInv, CursorsSound, TypeOK, TaskTypes, IsMem
  <2>2. refused' = refused \cup {mem.seq + 1} /\ acked' = acked
    BY Zenon DEF UploadRefused, Fail
  <2> QED
    BY <2>1, <2>2, Zenon
<1>2. StoreSound'
  BY Zenon, <1>1, StoreSoundKept DEF UploadRefused
<1>3. budget' \in [Kinds -> Nat] /\ budget'["busy"] = 0
  BY Zenon DEF StreamInv, CursorsSound, TypeOK, UploadRefused
<1> QED
  BY Zenon, <1>2, <1>3, FailInv DEF UploadRefused

\* The upload fails, and may have landed; it is retried or given up.
LEMMA UploadErrorInv == Keeps(UploadError)
<1> SUFFICES ASSUME StreamInv, UploadError PROVE StreamInv'
  BY Zenon DEF Keeps
<1>1. refused' \subseteq Nat /\ acked' \in Nat
  BY Zenon DEF StreamInv, CursorsSound, TypeOK, UploadError, Fail
<1>2. StoreSound'
  <2>1. CASE UNCHANGED snap
    BY Zenon, <1>1, <2>1, StoreSoundKept DEF UploadError, store
  <2>2. CASE snap' = [snap EXCEPT ![mem.seq + 1] = job.obj]
    BY Zenon, <1>1, <2>2, SnapLands DEF UploadError
  <2> QED
    BY Zenon, <2>1, <2>2 DEF UploadError
<1>3. budget' \in [Kinds -> Nat] /\ budget'["busy"] = 0
  <2>1. "put" \in Kinds /\ Spend("put")
    BY Zenon DEF Kinds, UploadError
  <2> QED
    BY Zenon, <2>1, BudgetKept
<1>4. CASE Fail(mem)
  BY Zenon, <1>2, <1>3, <1>4, FailInv DEF UploadError
<1>5. CASE UNCHANGED <<pin, mem, pc, op, job, acked>>
  <2>1. UNCHANGED sqlite /\ pc = "upload"
    BY Zenon DEF UploadError
  <2>2. TypeOK' /\ SqliteSound'
    <3>1. TaskTypes'
      BY Zenon, <1>5 DEF StreamInv, CursorsSound, TypeOK, TaskTypes
    <3> QED
      BY Zenon, <1>2, <1>3, <1>5, <2>1, <3>1, TypesKept
  <2>3. CursorSuperseded' /\ SnapshotSound'
    BY Zenon, <1>5, <2>1 DEF StreamInv, CursorsSound, CursorSuperseded, SnapshotSound, sqlite, IsSum
  <2> QED
    BY Zenon, <1>2, <1>3, <1>5, <2>1, <2>2, <2>3 DEF StreamInv, CursorsSound, StoreSound, IncrSound
<1> QED
  BY Zenon, <1>4, <1>5 DEF UploadError

-----------------------------------------------------------------------------
(* state.json, registration, the timer, crashes.                            *)

\* state.json receives a sound cursor, or stays.
LEMMA SaveLands ==
  ASSUME StreamInv, pc = "save", UNCHANGED <<sqlite, snap, incr>>,
         stateJson' \in {stateJson, mem}, refused' \subseteq Nat, acked' \in Nat
  PROVE  StoreSound'
<1>1. CursorSound(mem) /\ IsMem(mem) /\ IsSum(mem.sum)
  BY Zenon DEF StreamInv, CursorsSound, TypeOK, SqliteTypes, TaskTypes, StoreTypes
<1>2. stateJson' # None => IsMem(stateJson') /\ IsSum(stateJson'.sum) /\ CursorSound(stateJson)'
  <2>1. CASE stateJson' = mem
    <3>1. IsMem(stateJson') /\ IsSum(stateJson'.sum)
      BY Zenon, <1>1, <2>1
    <3>2. CursorSound(stateJson)'
      BY Zenon, <1>1, <2>1 DEF CursorSound, sqlite
    <3> QED
      BY Zenon, <3>1, <3>2
  <2>2. CASE stateJson' = stateJson
    BY Zenon, <2>2 DEF StreamInv, CursorsSound, TypeOK, SqliteTypes, TaskTypes, StoreTypes,
           CursorSound, sqlite
  <2> QED
    BY Zenon, <2>1, <2>2
<1>3. ChainSound' /\ IncrSound'
  BY Zenon DEF StreamInv, CursorsSound, ChainSound, IncrSound, sqlite
<1>4. StoreTypes'
  BY Zenon, <1>2 DEF StreamInv, CursorsSound, TypeOK, StoreTypes
<1> QED
  BY Zenon, <1>2, <1>3, <1>4 DEF StoreSound

\* The operation is done.
LEMMA SaveOkInv == Keeps(SaveOk)
<1> SUFFICES ASSUME StreamInv, SaveOk PROVE StreamInv'
  BY Zenon DEF Keeps
<1>1. acked' \in Nat /\ refused' \subseteq Nat
  BY Zenon DEF StreamInv, CursorsSound, TypeOK, SqliteTypes, TaskTypes, StoreTypes, SaveOk, Finish
<1>2. StoreSound'
  BY Zenon, <1>1, SaveLands DEF SaveOk
<1>3. budget' \in [Kinds -> Nat] /\ budget'["busy"] = 0
  BY Zenon DEF StreamInv, CursorsSound, TypeOK, SqliteTypes, TaskTypes, StoreTypes, SaveOk
<1>4. CursorSound(mem) /\ IsMem(mem) /\ IsSum(mem.sum)
  BY Zenon DEF StreamInv, CursorsSound, TypeOK, SqliteTypes, TaskTypes, StoreTypes, SaveOk
<1>5. CASE op = "remove"
  <2>1. pc' = "stopped" /\ pin' = 0 /\ mem' = NoMem /\ op' = "none" /\ job' = NoJob
    BY Zenon, <1>5 DEF SaveOk, Finish
  <2>2. IsMem(mem)'
    BY Zenon, <2>1 DEF IsMem
  <2> QED
    BY Zenon, <1>2, <1>3, <2>1, <2>2, ReturnInv DEF SaveOk
<1>6. CASE op # "remove"
  <2>1. pc' = "idle" /\ pin' = pin /\ mem' = mem /\ op' = "none" /\ job' = NoJob
    BY Zenon, <1>6 DEF SaveOk, Finish
  <2>2. IsMem(mem)' /\ IsSum(mem.sum)' /\ CursorSound(mem)'
    BY Zenon, <1>4, <2>1 DEF IsMem, IsSum, CursorSound, SaveOk, sqlite
  <2> QED
    BY Zenon, <1>2, <1>3, <2>1, <2>2, ReturnInv DEF SaveOk
<1> QED
  BY Zenon, <1>5, <1>6

\* state.json could not be written, or its answer is lost.
LEMMA SaveErrorInv == Keeps(SaveError)
<1> SUFFICES ASSUME StreamInv, SaveError PROVE StreamInv'
  BY Zenon DEF Keeps
<1>1. acked' \in Nat /\ refused' \subseteq Nat
  BY Zenon DEF StreamInv, CursorsSound, TypeOK, SaveError, Fail
<1>2. StoreSound'
  BY Zenon, <1>1, SaveLands DEF SaveError
<1>3. budget' \in [Kinds -> Nat] /\ budget'["busy"] = 0
  <2>1. "save" \in Kinds /\ Spend("save")
    BY Zenon DEF Kinds, SaveError
  <2> QED
    BY Zenon, <2>1, BudgetKept
<1> QED
  BY Zenon, <1>2, <1>3, FailInv DEF SaveError

\* A first registration starts a lineage of its own.
LEMMA AddInv == Keeps(Add)
<1> SUFFICES ASSUME StreamInv, Add PROVE StreamInv'
  BY Zenon DEF Keeps
<1> USE DEF Add
<1>1. SqliteMoves /\ committed \in Nat /\ base \in Nat /\ committed' = committed + 1
      /\ pin' \in 0 .. committed' /\ base <= committed
  BY DEF SqliteMoves, AppendTxn, StreamInv, CursorsSound, TypeOK, SqliteTypes, SqliteSound
<1>2. SqliteTypes' /\ SqliteSound' /\ salt' \in Nat
  BY Zenon, <1>1, SqliteSoundKept
<1>3. \A s \in Seqs : incr'[s] = None /\ snap'[s] = None
  BY Zenon
<1>4. mem'.sum = FileSum(base, base) /\ IsMem(mem)' /\ mem'.seq = 0 /\ mem'.salt = 0
  BY Zenon DEF IsMem
<1>5. IsSum(mem'.sum) /\ mem'.sum.ver = base
  BY <1>1, <1>4 DEF IsSum, FileSum
<1>6. TypeOK' /\ budget'["busy"] = 0
  <2>1. TaskTypes'
    BY Zenon, <1>1, <1>4, <1>5 DEF TaskTypes
  <2>2. StoreTypes'
    BY Zenon, <1>3 DEF StoreTypes
  <2> QED
    BY Zenon, <1>2, <2>1, <2>2 DEF StreamInv, CursorsSound, TypeOK
<1>7. ChainSound' /\ IncrSound'
  BY Zenon, <1>3 DEF ChainSound, IncrSound
<1>8. CursorSuperseded' /\ mem'.seq + 1 \in Seqs
  BY <1>1, <1>2, <1>4, <1>5, BoundsAssumption DEF CursorSuperseded
<1> QED
  BY Zenon, <1>2, <1>6, <1>7, <1>8 DEF StreamInv, CursorsSound, IncrSound

\* A reopen takes over the cursor of state.json; its blocker may start a new WAL.
LEMMA ReopenInv == Keeps(Reopen)
<1> SUFFICES ASSUME StreamInv, Reopen PROVE StreamInv'
  BY Zenon DEF Keeps
<1> USE DEF Reopen, OpenCheckpointBlocker, store
<1>1. SqliteMoves /\ committed \in Nat /\ committed' = committed + 1 /\ pin' \in 0 .. committed'
  BY DEF SqliteMoves, AppendTxn, StreamInv, CursorsSound, TypeOK, SqliteTypes, SqliteSound
<1>2. SqliteTypes' /\ SqliteSound' /\ committed' \in Nat /\ committed <= committed'
  BY Zenon, <1>1, SqliteSoundKept
<1>3. IsMem(stateJson) /\ IsSum(stateJson.sum)
  BY Zenon DEF StreamInv, CursorsSound, TypeOK, SqliteTypes, TaskTypes, StoreTypes
<1>4. IsMem(mem)' /\ IsSum(mem.sum)'
  BY Zenon, <1>3 DEF IsMem, IsSum
<1>5. TypeOK' /\ budget'["busy"] = 0
  <2>1. TaskTypes'
    BY Zenon, <1>4 DEF StreamInv, CursorsSound, TypeOK, TaskTypes
  <2> QED
    BY Zenon, <1>2, <2>1, StoreKept DEF StreamInv, CursorsSound, TypeOK
<1>6. CursorSound(stateJson)'
  BY Zenon, <1>1, SavedCursorKept
<1>7. CursorSound(mem)'
  BY Zenon, <1>6 DEF CursorSound
<1>8. ChainSound' /\ IncrSound'
  BY Zenon, <1>1, <1>2, StoreKept
<1> QED
  BY Zenon, <1>2, <1>5, <1>6, <1>7, <1>8 DEF StreamInv, CursorsSound, IncrSound

\* A periodic snapshot gives up the cursor.
LEMMA SnapshotTickInv == Keeps(SnapshotTick)
<1> SUFFICES ASSUME StreamInv, SnapshotTick PROVE StreamInv'
  BY Zenon DEF Keeps
<1> USE DEF SnapshotTick, StartSnapshot
<1>1. budget' \in [Kinds -> Nat] /\ budget'["busy"] = 0
  <2>1. "tick" \in Kinds /\ Spend("tick")
    BY Zenon DEF Kinds
  <2> QED
    BY Zenon, <2>1, BudgetKept
<1>2. StoreSound'
  BY Zenon, StoreSoundKept DEF StreamInv, CursorsSound, TypeOK
<1>3. IsMem(mem) /\ IsSum(mem.sum) /\ CursorSound(mem) /\ committed \in Nat /\ salt \in Nat
  BY Zenon DEF StreamInv, CursorsSound, TypeOK, SqliteTypes, TaskTypes, StoreTypes
<1>4. TaskTypes'
  BY Zenon, <1>3 DEF TaskTypes
<1>5. TypeOK' /\ SqliteSound'
  BY Zenon, <1>1, <1>2, <1>4, TypesKept
<1>6. CursorSuperseded' /\ mem'.seq + 1 \in Seqs
  BY <1>3, BoundsAssumption DEF CursorSuperseded, CursorSound, IsMem, sqlite
<1> QED
  BY Zenon, <1>1, <1>2, <1>5, <1>6 DEF StreamInv, CursorsSound, StoreSound, IncrSound

\* A crash loses the memory and nothing else.
LEMMA CrashInv == Keeps(Crash)
<1> SUFFICES ASSUME StreamInv, Crash PROVE StreamInv'
  BY Zenon DEF Keeps
<1> USE DEF Crash
<1>1. budget' \in [Kinds -> Nat] /\ budget'["busy"] = 0
  <2>1. "stop" \in Kinds /\ Spend("stop")
    BY Zenon DEF Kinds
  <2> QED
    BY Zenon, <2>1, BudgetKept
<1>2. StoreSound'
  BY Zenon, StoreSoundKept DEF StreamInv, CursorsSound, TypeOK
<1>3. IsMem(mem)'
  BY Zenon DEF IsMem
<1> QED
  BY Zenon, <1>1, <1>2, <1>3, ReturnInv

-----------------------------------------------------------------------------
(* The theorems.                                                            *)

\* Every step keeps the inductive invariant.
LEMMA NextInv == StreamInv /\ [Next]_vars => StreamInv'
<1> SUFFICES ASSUME StreamInv, [Next]_vars PROVE StreamInv'
  BY Zenon
<1>1. CASE UNCHANGED vars
  <2>1. UNCHANGED <<sqlite, store>> /\ refused' \subseteq Nat /\ acked' \in Nat
    BY Zenon, <1>1 DEF vars, sqlite, store, StreamInv, CursorsSound, TypeOK
  <2>2. StoreSound'
    BY Zenon, <2>1, StoreSoundKept
  <2>3. TypeOK' /\ SqliteSound'
    <3>1. TaskTypes' /\ budget' \in [Kinds -> Nat] /\ pin' = pin
      BY Zenon, <1>1 DEF vars, StreamInv, CursorsSound, TypeOK, TaskTypes
    <3> QED
      BY Zenon, <2>1, <2>2, <3>1, TypesKept
  <2>4. CursorSuperseded => CursorSuperseded'
    BY Zenon, <1>1 DEF CursorSuperseded, vars
  <2>5. PublishSound => PublishSound'
    BY Zenon, <1>1 DEF PublishSound, vars
  <2>6. SnapshotSound => SnapshotSound'
    BY Zenon, <1>1 DEF SnapshotSound, vars
  <2>7. CursorSound(mem) => CursorSound(mem)'
    BY Zenon, <1>1 DEF CursorSound, vars
  <2> QED
    BY Zenon, <1>1, <2>2, <2>3, <2>4, <2>5, <2>6, <2>7 DEF StreamInv, CursorsSound, StoreSound,
           IncrSound, vars
<1>2. CASE \E o \in {"sync", "remove"} : Sync(o)
  BY Zenon, <1>2, SyncNoWalInv, SyncRolloverInv, SyncEmptyInv, SyncReadInv DEF Sync, Keeps
<1>3. CASE PublishOk \/ PublishAdopt \/ PublishRefused \/ PublishError
  BY Zenon, <1>3, PublishOkInv, PublishAdoptInv, PublishRefusedInv, PublishErrorInv DEF Keeps
<1>4. CASE CheckpointOk \/ CheckpointBusy \/ Reacquire \/ Encode
  BY Zenon, <1>4, CheckpointOkInv, CheckpointBusyInv, ReacquireInv, EncodeInv DEF Keeps
<1>5. CASE UploadOk \/ UploadRefused \/ UploadError
  BY Zenon, <1>5, UploadOkInv, UploadRefusedInv, UploadErrorInv DEF Keeps
<1>6. CASE SaveOk \/ SaveError
  BY Zenon, <1>6, SaveOkInv, SaveErrorInv DEF Keeps
<1>7. CASE SnapshotTick \/ Add \/ Reopen \/ Crash
  BY Zenon, <1>7, SnapshotTickInv, AddInv, ReopenInv, CrashInv DEF Keeps
<1>8. CASE AppCommit \/ ExtBackfill \/ ExtTruncate
  BY Zenon, <1>8, AppCommitInv, ExtBackfillInv, ExtTruncateInv DEF Keeps
<1> QED
  BY Zenon, <1>1, <1>2, <1>3, <1>4, <1>5, <1>6, <1>7, <1>8 DEF Next, Work

\* The initial state satisfies the inductive invariant.
LEMMA InitInv == ASSUME NeverBusy PROVE Init => StreamInv
<1> SUFFICES ASSUME Init PROVE StreamInv
  BY Zenon
<1> USE BoundsAssumption DEF Init
<1>1. budget \in [Kinds -> Nat] /\ budget["busy"] = 0
  BY Zenon DEF NeverBusy
<1>2. TypeOK
  BY Zenon, <1>1 DEF TypeOK, SqliteTypes, TaskTypes, StoreTypes, IsMem, IsSum
<1> QED
  BY <1>1, <1>2 DEF StreamInv, CursorsSound, ChainSound, SqliteSound

\* As long as no checkpoint of the replicator's own ends busy, the inductive invariant
\* holds at every await of take_snapshot, the syncs and the saves.
THEOREM StreamInvariant == ASSUME NeverBusy PROVE Spec => []StreamInv
<1>1. Init => StreamInv
  BY Zenon, InitInv
<1> QED
  BY <1>1, NextInv, PTL DEF Spec

\* The cursors of the replicator, in memory and in state.json, never run ahead of what
\* was published.
THEOREM CursorsStaySound == ASSUME NeverBusy PROVE Spec => []CursorsSound
<1>1. StreamInv => CursorsSound
  BY Zenon DEF StreamInv
<1> QED
  BY <1>1, StreamInvariant, PTL

\* ... and therefore every incremental in storage extends the state its
\* prev_checksum names: none was published across a WAL reset.
THEOREM NoIncrementalAcrossGap == ASSUME NeverBusy PROVE Spec => []ChainSound
<1>1. StreamInv => ChainSound
  BY Zenon DEF StreamInv, CursorsSound
<1> QED
  BY <1>1, StreamInvariant, PTL

\* ... and the state has its types.
THEOREM TypeCorrect == ASSUME NeverBusy PROVE Spec => []TypeOK
<1>1. StreamInv => TypeOK
  BY Zenon DEF StreamInv, CursorsSound
<1> QED
  BY <1>1, StreamInvariant, PTL

-----------------------------------------------------------------------------
(* Restores, and what the steps leave alone.                                *)

\* The objects a restore applies, in order: the newest snapshot and what follows
\* it without a hole, each naming the checksum before it.
LEMMA RestoreWalks ==
  ASSUME NEW target \in Nat, target <= MaxSeq, NEW r \in Restores(target)
  PROVE  /\ stateJson # None
         /\ r[1] \in Seqs /\ r[2] \in Seqs /\ r[1] <= r[2] /\ r[2] <= target
         /\ r = <<r[1], r[2]>>
         /\ snap[r[1]] # None /\ \A s \in r[1] + 1 .. target : snap[s] = None
         /\ \A s \in r[1] + 1 .. target : incr[s] # None <=> s <= r[2]
         /\ \A s \in r[1] + 1 .. r[2] : incr[s].pre = SumAt(r[1], s - 1)
BY BoundsAssumption DEF Restores, RestoreBase

\* Snapshots stay what they are, and new ones hash the file as it was read.
LEMMA RestoreInvNext == RestoreInv /\ [Next]_vars => RestoreInv'
<1> SUFFICES ASSUME RestoreInv, [Next]_vars PROVE RestoreInv'
  BY Zenon
<1>1. StreamInv /\ StreamInv' /\ SnapsAreFiles
  BY Zenon, NextInv DEF RestoreInv
<1>2. committed \in Nat /\ committed' \in Nat /\ DOMAIN snap = Seqs
  BY Zenon, <1>1 DEF StreamInv, CursorsSound, TypeOK, SqliteTypes, StoreTypes
<1>3. committed' \in {committed, committed + 1}
  BY Zenon DEF Next, Work, Sync, AppCommit, ExtBackfill, ExtTruncate, SyncNoWal, SyncRollover, SyncEmpty,
         SyncRead, PublishOk, PublishAdopt, PublishRefused, PublishError, CheckpointOk, CheckpointBusy,
         Reacquire, Encode, UploadOk, UploadRefused, UploadError, SaveOk, SaveError, SnapshotTick, Add,
         Reopen, Crash, AppendTxn, OpenCheckpointBlocker, Truncated, sqlite, vars
<1>4. CASE UploadOk \/ UploadError
  <2>1. SnapshotSound /\ pc = "upload" /\ mem.seq + 1 \in Seqs
    BY Zenon, <1>1, <1>4 DEF StreamInv, CursorsSound, SnapshotSound, UploadOk, UploadError
  <2>2. job.obj.sum.kind = "file" /\ job.obj.sum.ver <= committed /\ job.obj.sum.ver \in Nat
    BY Zenon, <2>1 DEF SnapshotSound, IsSum
  <2>3. snap' = snap \/ snap' = [snap EXCEPT ![mem.seq + 1] = job.obj]
    BY Zenon, <1>4 DEF UploadOk, UploadError
  <2>4. \A s \in Seqs : snap'[s] = snap[s] \/ snap'[s] = job.obj
    BY Zenon, <1>2, <2>1, <2>3
  <2>5. committed' = committed
    BY Zenon, <1>4 DEF UploadOk, UploadError, sqlite
  <2> QED
    BY Zenon, <1>1, <2>2, <2>4, <2>5 DEF RestoreInv, SnapsAreFiles
<1>5. CASE Add
  BY Zenon, <1>1, <1>5 DEF RestoreInv, SnapsAreFiles, Add
<1>6. CASE UNCHANGED snap
  <2>1. \A s \in Seqs : snap[s] # None => snap[s].sum.ver \in Nat
    BY Zenon, <1>1 DEF StreamInv, CursorsSound, TypeOK, StoreTypes, IsSum
  <2> QED
    BY <1>1, <1>2, <1>3, <1>6, <2>1 DEF RestoreInv, SnapsAreFiles
<1>7. UploadOk \/ UploadError \/ Add \/ UNCHANGED snap
  BY Zenon DEF Next, Work, Sync, AppCommit, ExtBackfill, ExtTruncate, SyncNoWal, SyncRollover, SyncEmpty,
         SyncRead, PublishOk, PublishAdopt, PublishRefused, PublishError, CheckpointOk, CheckpointBusy,
         Reacquire, Encode, UploadRefused, SaveOk, SaveError, SnapshotTick, Reopen, Crash, store, vars
<1> QED
  BY Zenon, <1>4, <1>5, <1>6, <1>7

\* Which steps store what.
LEMMA StoreSteps ==
  ASSUME Next
  PROVE  \/ UNCHANGED <<snap, incr>> /\ (UNCHANGED stateJson \/ SaveOk \/ SaveError)
         \/ Add /\ stateJson = None /\ stateJson' = None
         \/ (PublishOk \/ PublishError \/ UploadOk \/ UploadError) /\ UNCHANGED <<stateJson, committed>>
BY ZenonT(30) DEF Next, Work, Sync, AppCommit, ExtBackfill, ExtTruncate, SyncNoWal, SyncRollover, SyncEmpty,
       SyncRead, PublishOk, PublishAdopt, PublishRefused, PublishError, CheckpointOk, CheckpointBusy,
       Reacquire, Encode, UploadOk, UploadError, UploadRefused, SaveOk, SaveError, SnapshotTick, Add,
       Reopen, Crash, store, sqlite

\* Which steps spend, refuse and acknowledge.
LEMMA QuietSteps ==
  ASSUME Next
  PROVE  /\ UNCHANGED budget \/ \E k \in Kinds : Spend(k)
         /\ UNCHANGED refused \/ PublishRefused \/ UploadRefused
         /\ \/ UNCHANGED acked
            \/ \E o \in {"sync", "remove"} : SyncNoWal(o) \/ SyncEmpty(o)
            \/ UploadOk \/ SaveOk
<1>1. UNCHANGED budget \/ \E k \in Kinds : Spend(k)
  BY Zenon DEF Next, Work, Sync, Begin, AppCommit, ExtBackfill, ExtTruncate, SyncNoWal, SyncRollover, SyncEmpty,
       SyncRead, PublishOk, PublishAdopt, PublishRefused, PublishError, CheckpointOk, CheckpointBusy,
       Reacquire, Encode, UploadOk, UploadError, UploadRefused, SaveOk, SaveError, SnapshotTick, Add,
       Reopen, Crash, Kinds
<1>2. UNCHANGED refused \/ PublishRefused \/ UploadRefused
  BY Zenon DEF Next, Work, Sync, AppCommit, ExtBackfill, ExtTruncate, SyncNoWal, SyncRollover, SyncEmpty,
       SyncRead, PublishOk, PublishAdopt, PublishError, CheckpointOk, CheckpointBusy,
       Reacquire, Encode, UploadOk, UploadError, SaveOk, SaveError, SnapshotTick, Add, Reopen, Crash
<1>3. \/ UNCHANGED acked
      \/ \E o \in {"sync", "remove"} : SyncNoWal(o) \/ SyncEmpty(o)
      \/ UploadOk \/ SaveOk
  BY Zenon DEF Next, Work, Sync, AppCommit, ExtBackfill, ExtTruncate, SyncRollover, Fail,
       SyncRead, PublishOk, PublishAdopt, PublishRefused, PublishError, CheckpointOk, CheckpointBusy,
       Reacquire, Encode, UploadError, UploadRefused, SaveError, SnapshotTick, Add, Reopen, Crash
<1> QED
  BY Zenon, <1>1, <1>2, <1>3

-----------------------------------------------------------------------------
(* The version a restore returns, as a function of what is stored.          *)

\* That is what RestoredVersion is, before and after a step, once there is a
\* state.json.
LEMMA RestoredIs ==
  ASSUME NEW target \in Nat
  PROVE  /\ RestoredVersion(target) = IF stateJson = None THEN 0 ELSE VersionIn(snap, incr, target)
         /\ RestoredVersion(target)' = IF stateJson' = None THEN 0 ELSE VersionIn(snap', incr', target)
<1>1. Restores(target) = IF stateJson = None THEN {} ELSE WalksTo(snap, incr, target)
  BY DEF Restores, RestoreBase, WalksTo, Walks, SumAt, SumIn
<1>2. Restores(target)' = IF stateJson' = None THEN {} ELSE WalksTo(snap', incr', target)
  BY DEF Restores, RestoreBase, WalksTo, Walks, SumAt, SumIn
<1>3. stateJson = None => RestoredVersion(target) = 0
  BY Zenon, <1>1 DEF RestoredVersion
<1>4. stateJson' = None => RestoredVersion(target)' = 0
  BY Zenon, <1>2 DEF RestoredVersion
<1>5. ASSUME stateJson # None PROVE RestoredVersion(target) = VersionIn(snap, incr, target)
  <2>1. Restores(target) = WalksTo(snap, incr, target)
    BY Zenon, <1>1, <1>5
  <2> QED
    BY <2>1 DEF RestoredVersion, VersionIn, SumAt, SumIn
<1>6. ASSUME stateJson' # None PROVE RestoredVersion(target)' = VersionIn(snap', incr', target)
  <2>1. Restores(target)' = WalksTo(snap', incr', target)
    BY Zenon, <1>2, <1>6
  <2> QED
    BY <2>1 DEF RestoredVersion, VersionIn, SumAt, SumIn
<1> QED
  BY Zenon, <1>3, <1>4, <1>5, <1>6

\* There is one way to restore at most.
LEMMA VersionOfWalk ==
  ASSUME NEW sn, NEW in, NEW target \in Nat, NEW t, NEW n, Walks(sn, in, target, t, n)
  PROVE  VersionIn(sn, in, target) = Floor(SumIn(sn, in, t, n))
<1>1. <<t, n>> \in WalksTo(sn, in, target)
  BY DEF WalksTo, Walks
<1>2. ASSUME NEW r \in WalksTo(sn, in, target) PROVE r[1] = t /\ r[2] = n
  <2>1. Walks(sn, in, target, r[1], r[2]) /\ r[1] \in Nat /\ r[2] \in Nat /\ t \in Nat /\ n \in Nat
    BY <1>2 DEF WalksTo, Walks
  <2>2. r[1] = t
    BY <2>1 DEF Walks
  <2>3. r[2] = n
    BY <2>1, <2>2 DEF Walks
  <2> QED
    BY Zenon, <2>2, <2>3
<1> QED
  BY Zenon, <1>1, <1>2 DEF VersionIn

\* It is a version, 0 without a walk.
LEMMA VersionIsNat ==
  ASSUME NEW sn, NEW in, NEW target \in Nat,
         \A s \in 1 .. target : sn[s] # None => IsSum(sn[s].sum),
         \A s \in 1 .. target : in[s] # None => IsSum(in[s])
  PROVE  VersionIn(sn, in, target) \in Nat
<1>1. CASE WalksTo(sn, in, target) = {}
  BY Zenon, <1>1 DEF VersionIn
<1>2. CASE WalksTo(sn, in, target) # {}
  <2>1. PICK r \in WalksTo(sn, in, target) : r = CHOOSE q \in WalksTo(sn, in, target) : TRUE
    BY Zenon, <1>2
  <2>2. Walks(sn, in, target, r[1], r[2])
    BY Zenon, <2>1 DEF WalksTo
  <2>3. VersionIn(sn, in, target) = Floor(SumIn(sn, in, r[1], r[2]))
    BY Zenon, <1>2, <2>1 DEF VersionIn
  <2>4. IsSum(SumIn(sn, in, r[1], r[2]))
    BY <2>2 DEF Walks, SumIn
  <2> QED
    BY Zenon, <2>2, <2>3, <2>4 DEF IsSum, Floor
<1> QED
  BY Zenon, <1>1, <1>2

\* What is stored above the target does not matter.
LEMMA VersionBelow ==
  ASSUME NEW sn, NEW in, NEW sn2, NEW in2, NEW target \in Nat,
         \A s \in 1 .. target : sn2[s] = sn[s],
         \A s \in 1 .. target : in2[s] = in[s]
  PROVE  VersionIn(sn2, in2, target) = VersionIn(sn, in, target)
<1>1. \A t, n, s : t \in 1 .. target /\ n \in t .. target /\ s \in t .. n =>
                     SumIn(sn2, in2, t, s) = SumIn(sn, in, t, s)
  BY DEF SumIn
<1>2. \A t \in 1 .. target, n \in 1 .. target :
        Walks(sn2, in2, target, t, n) <=> Walks(sn, in, target, t, n)
  <2> SUFFICES ASSUME NEW t \in 1 .. target, NEW n \in t .. target
               PROVE  Walks(sn2, in2, target, t, n) <=> Walks(sn, in, target, t, n)
    BY Zenon DEF Walks
  <2>1. /\ sn2[t] # None <=> sn[t] # None
        /\ \A s \in t + 1 .. target : /\ sn2[s] = None <=> sn[s] = None
                                     /\ in2[s] # None <=> in[s] # None
    OBVIOUS
  <2>2. \A s \in t + 1 .. n : /\ in2[s].pre = in[s].pre
                            /\ SumIn(sn2, in2, t, s - 1) = SumIn(sn, in, t, s - 1)
    BY DEF SumIn
  <2> QED
    BY <2>1, <2>2 DEF Walks
<1>3. WalksTo(sn2, in2, target) = WalksTo(sn, in, target)
  BY Zenon, <1>2 DEF WalksTo
<1>4. \A r \in WalksTo(sn, in, target) : SumIn(sn2, in2, r[1], r[2]) = SumIn(sn, in, r[1], r[2])
  BY <1>1 DEF WalksTo, Walks
<1> QED
  BY <1>3, <1>4 DEF VersionIn

\* A restore ends at the cursor when nothing is behind it.
LEMMA WalkToTip ==
  ASSUME NEW m, NEW sn, NEW in, Tip(m, sn, in), NEW target \in m.seq .. MaxSeq,
         target > m.seq => sn[m.seq + 1] = None /\ in[m.seq + 1] = None
  PROVE  VersionIn(sn, in, target) = Floor(m.sum)
<1>1. PICK t \in 1 .. m.seq :
        /\ sn[t] # None
        /\ \A s \in t + 1 .. m.seq : sn[s] = None /\ in[s] # None /\ in[s].pre = SumIn(sn, in, t, s - 1)
        /\ SumIn(sn, in, t, m.seq) = m.sum
  BY Zenon DEF Tip, Reaches
<1>2. m.seq \in Nat /\ target \in Nat /\ MaxSeq \in Nat /\ m.seq \in 1 .. target
  BY BoundsAssumption DEF Tip
<1>3. \A s \in m.seq + 1 .. target : sn[s] = None /\ in[s] = None
  BY <1>2 DEF Tip
<1>4. Walks(sn, in, target, t, m.seq)
  <2>1. \A s \in t + 1 .. target : sn[s] = None /\ (in[s] # None <=> s <= m.seq)
    BY <1>1, <1>2, <1>3
  <2> QED
    BY <1>1, <1>2, <2>1 DEF Walks
<1> QED
  BY <1>1, <1>2, <1>4, VersionOfWalk

\* ... and at the incremental behind it when there is one and no snapshot.
LEMMA WalkBehindTip ==
  ASSUME NEW m, NEW sn, NEW in, Tip(m, sn, in), NEW target \in m.seq + 1 .. MaxSeq,
         sn[m.seq + 1] = None, in[m.seq + 1] # None
  PROVE  VersionIn(sn, in, target) = Floor(in[m.seq + 1])
<1> DEFINE n == m.seq + 1
<1>1. PICK t \in 1 .. m.seq :
        /\ sn[t] # None
        /\ \A s \in t + 1 .. m.seq : sn[s] = None /\ in[s] # None /\ in[s].pre = SumIn(sn, in, t, s - 1)
        /\ SumIn(sn, in, t, m.seq) = m.sum
  BY Zenon DEF Tip, Reaches
<1>2. m.seq \in Nat /\ target \in Nat /\ MaxSeq \in Nat /\ n \in 1 .. target /\ n \in Seqs
  BY BoundsAssumption DEF Tip
<1>3. \A s \in n + 1 .. target : sn[s] = None /\ in[s] = None
  BY <1>2 DEF Tip
<1>4. in[n].pre = SumIn(sn, in, t, n - 1)
  BY <1>1, <1>2 DEF Tip
<1>5. Walks(sn, in, target, t, n)
  <2>1. \A s \in t + 1 .. target : sn[s] = None /\ (in[s] # None <=> s <= n)
    BY <1>1, <1>2, <1>3
  <2>2. \A s \in t + 1 .. n : in[s].pre = SumIn(sn, in, t, s - 1)
    BY <1>1, <1>2, <1>4
  <2> QED
    BY <1>1, <1>2, <2>1, <2>2 DEF Walks
<1>6. SumIn(sn, in, t, n) = in[n]
  BY Zenon, <1>1, <1>2 DEF SumIn
<1>7. target \in Nat
  BY Zenon, <1>2
<1> HIDE DEF n
<1>8. VersionIn(sn, in, target) = Floor(SumIn(sn, in, t, n))
  BY Zenon, <1>5, <1>7, VersionOfWalk
<1> QED
  BY Zenon, <1>6, <1>8 DEF n

\* ... and at a snapshot behind it.
LEMMA WalkAtSnapshot ==
  ASSUME NEW sn, NEW in, NEW n \in Seqs, sn[n] # None, NEW target \in n .. MaxSeq,
         \A s \in Seqs : s > n => sn[s] = None /\ in[s] = None
  PROVE  VersionIn(sn, in, target) = Floor(sn[n].sum)
<1>1. target \in Nat /\ n \in Nat /\ MaxSeq \in Nat
  BY BoundsAssumption
<1>2. \A s \in n + 1 .. target : sn[s] = None /\ (in[s] # None <=> s <= n)
  BY <1>1
<1>3. Walks(sn, in, target, n, n)
  BY <1>1, <1>2 DEF Walks
<1>4. SumIn(sn, in, n, n) = sn[n].sum
  BY Zenon DEF SumIn
<1>5. VersionIn(sn, in, target) = Floor(SumIn(sn, in, n, n))
  BY <1>1, <1>3, VersionOfWalk
<1> QED
  BY Zenon, <1>4, <1>5

\* The chain to the cursor is what is stored up to there.
LEMMA ReachesBelow ==
  ASSUME NEW m, NEW sn, NEW in, NEW sn2, NEW in2, m.seq \in Nat, Reaches(m, sn, in),
         \A s \in 1 .. m.seq : sn2[s] = sn[s] /\ in2[s] = in[s]
  PROVE  Reaches(m, sn2, in2)
<1>1. PICK t \in 1 .. m.seq :
        /\ sn[t] # None
        /\ \A s \in t + 1 .. m.seq : sn[s] = None /\ in[s] # None /\ in[s].pre = SumIn(sn, in, t, s - 1)
        /\ SumIn(sn, in, t, m.seq) = m.sum
  BY Zenon DEF Reaches
<1>2. \A s \in t .. m.seq : SumIn(sn2, in2, t, s) = SumIn(sn, in, t, s)
  BY <1>1 DEF SumIn
<1>3. sn2[t] # None /\ SumIn(sn2, in2, t, m.seq) = m.sum
  BY <1>1, <1>2
<1>4. \A s \in t + 1 .. m.seq :
        sn2[s] = None /\ in2[s] # None /\ in2[s].pre = SumIn(sn2, in2, t, s - 1)
  <2> SUFFICES ASSUME NEW s \in t + 1 .. m.seq
               PROVE  sn2[s] = None /\ in2[s] # None /\ in2[s].pre = SumIn(sn2, in2, t, s - 1)
    BY Zenon
  <2>1. s - 1 \in t .. m.seq /\ s \in 1 .. m.seq
    OBVIOUS
  <2> QED
    BY Zenon, <1>1, <1>2, <2>1
<1> QED
  BY Zenon, <1>3, <1>4 DEF Reaches

\* An incremental that names the cursor's checksum extends what can be restored.
LEMMA IncrementalExtends ==
  ASSUME NEW m, NEW m2, NEW sn, NEW in, NEW in2, NEW d,
         \A target \in 0 .. MaxSeq : VersionIn(sn, in, target) \in Nat,
         Tip(m, sn, in), IsSum(m.sum), m.seq + 1 \in Seqs,
         sn[m.seq + 1] = None, in[m.seq + 1] \in {None, d}, d # None,
         IsSum(d), d.kind = "incr", d.pre = m.sum, m.sum.ver <= d.ver,
         \A s \in Seqs : in2[s] = IF s = m.seq + 1 THEN d ELSE in[s], m2.seq = m.seq + 1, m2.sum = d
  PROVE  /\ Tip(m, sn, in2) /\ Tip(m2, sn, in2)
         /\ \A target \in 0 .. MaxSeq : VersionIn(sn, in, target) <= VersionIn(sn, in2, target)
<1> DEFINE n == m.seq + 1
<1>1. n \in Seqs /\ m.seq \in Seqs /\ m.seq \in Nat /\ n \in Nat /\ MaxSeq \in Nat
  BY BoundsAssumption DEF Tip
<1>2. \A s \in Seqs : in2[s] = IF s = n THEN d ELSE in[s]
  BY Zenon
<1>3. Floor(d) = d.ver /\ Floor(m.sum) <= d.ver /\ d.ver \in Nat
  BY DEF Floor, IsSum
<1>4. Tip(m, sn, in2)
  <2>1. Reaches(m, sn, in2)
    BY <1>1, <1>2, ReachesBelow DEF Tip
  <2> QED
    BY <1>1, <1>2, <2>1 DEF Tip
<1>5. Tip(m2, sn, in2)
  <2>1. PICK t \in 1 .. m.seq :
          /\ sn[t] # None
          /\ \A s \in t + 1 .. m.seq :
               sn[s] = None /\ in2[s] # None /\ in2[s].pre = SumIn(sn, in2, t, s - 1)
          /\ SumIn(sn, in2, t, m.seq) = m.sum
    BY Zenon, <1>4 DEF Tip, Reaches
  <2>2. in2[n] = d /\ SumIn(sn, in2, t, n) = d /\ in2[n].pre = SumIn(sn, in2, t, n - 1)
    BY <1>1, <1>2, <2>1 DEF SumIn
  <2>3. \A s \in t + 1 .. n : sn[s] = None /\ in2[s] # None /\ in2[s].pre = SumIn(sn, in2, t, s - 1)
    BY <1>1, <2>1, <2>2
  <2>4. Reaches(m2, sn, in2)
    BY <1>1, <2>1, <2>2, <2>3 DEF Reaches
  <2>5. \A s \in Seqs : s > n => sn[s] = None /\ in2[s] = None
    BY <1>1, <1>2 DEF Tip
  <2> QED
    BY <1>1, <2>4, <2>5 DEF Tip
<1>6. ASSUME NEW target \in 0 .. MaxSeq PROVE VersionIn(sn, in, target) <= VersionIn(sn, in2, target)
  <2>0. target \in Nat
    OBVIOUS
  <2>1. CASE target < n
    <3>1. \A s \in 1 .. target : in2[s] = in[s]
      BY <1>1, <1>2, <2>1
    <3>2. VersionIn(sn, in2, target) = VersionIn(sn, in, target)
      BY <2>0, <3>1, VersionBelow
    <3> QED
      BY <3>2
  <2>2. CASE target >= n
    <3>0. target \in m.seq + 1 .. MaxSeq /\ target \in m.seq .. MaxSeq
      BY <1>1, <2>2
    <3>1. VersionIn(sn, in2, target) = d.ver
      <4>1. in2[m.seq + 1] # None /\ in2[m.seq + 1] = d
        BY Zenon, <1>1, <1>2
      <4>2. VersionIn(sn, in2, target) = Floor(in2[m.seq + 1])
        BY <1>4, <3>0, <4>1, WalkBehindTip
      <4> QED
        BY Zenon, <1>3, <4>1, <4>2
    <3>2. CASE in[m.seq + 1] = None
      <4>1. VersionIn(sn, in, target) = Floor(m.sum)
        BY Zenon, <3>0, <3>2, WalkToTip
      <4> QED
        BY Zenon, <1>3, <3>1, <4>1
    <3>3. CASE in[m.seq + 1] # None
      <4>1. VersionIn(sn, in, target) = Floor(in[m.seq + 1])
        BY Zenon, <3>0, <3>3, WalkBehindTip
      <4> QED
        BY <1>3, <3>1, <3>3, <4>1
    <3> QED
      BY Zenon, <3>2, <3>3
  <2> QED
    BY <1>1, <2>0, <2>1, <2>2
<1> QED
  BY Zenon, <1>4, <1>5, <1>6

\* A snapshot with everything up to the cursor, and what is stored behind it,
\* takes no restore point away.
LEMMA SnapshotCovers ==
  ASSUME NEW m, NEW m2, NEW sn, NEW in, NEW sn2, NEW o,
         \A target \in 0 .. MaxSeq : VersionIn(sn, in, target) \in Nat,
         Tip(m, sn, in), IsSum(m.sum), m.seq + 1 \in Seqs,
         sn[m.seq + 1] \in {None, o}, o # None, IsSum(o.sum), o.sum.kind = "file",
         m.sum.ver <= o.sum.lo,
         in[m.seq + 1] # None => IsSum(in[m.seq + 1]) /\ in[m.seq + 1].ver <= o.sum.lo,
         \A s \in Seqs : sn2[s] = IF s = m.seq + 1 THEN o ELSE sn[s], m2.seq = m.seq + 1, m2.sum = o.sum
  PROVE  /\ Tip(m, sn2, in) /\ Tip(m2, sn2, in)
         /\ \A target \in 0 .. MaxSeq : VersionIn(sn, in, target) <= VersionIn(sn2, in, target)
<1> DEFINE n == m.seq + 1
<1>1. n \in Seqs /\ m.seq \in Seqs /\ m.seq \in Nat /\ n \in Nat /\ MaxSeq \in Nat
  BY BoundsAssumption DEF Tip
<1>2. \A s \in Seqs : sn2[s] = IF s = n THEN o ELSE sn[s]
  BY Zenon
<1>3. Floor(o.sum) = o.sum.lo /\ Floor(m.sum) <= o.sum.lo /\ o.sum.lo \in Nat
  BY DEF Floor, IsSum
<1>4. Tip(m, sn2, in)
  <2>1. Reaches(m, sn2, in)
    BY <1>1, <1>2, ReachesBelow DEF Tip
  <2> QED
    BY <1>1, <1>2, <2>1 DEF Tip
<1>5. \A s \in Seqs : s > n => sn2[s] = None /\ in[s] = None
  BY <1>1, <1>2 DEF Tip
<1>6. Tip(m2, sn2, in)
  <2>1. sn2[n] # None /\ SumIn(sn2, in, n, n) = o.sum
    BY Zenon, <1>1, <1>2 DEF SumIn
  <2>2. Reaches(m2, sn2, in)
    BY <1>1, <2>1 DEF Reaches
  <2> QED
    BY <1>1, <1>5, <2>2 DEF Tip
<1>7. ASSUME NEW target \in 0 .. MaxSeq PROVE VersionIn(sn, in, target) <= VersionIn(sn2, in, target)
  <2> DEFINE in2 == in
  <2>0. target \in Nat /\ \A s \in 1 .. target : in2[s] = in[s]
    OBVIOUS
  <2> HIDE DEF in2
  <2>1. CASE target < n
    <3>1. \A s \in 1 .. target : sn2[s] = sn[s]
      BY <1>1, <1>2, <2>1
    <3>2. VersionIn(sn2, in2, target) = VersionIn(sn, in, target)
      BY <2>0, <3>1, VersionBelow
    <3> QED
      BY <3>2 DEF in2
  <2>2. CASE target >= n
    <3>0. target \in m.seq + 1 .. MaxSeq /\ target \in m.seq .. MaxSeq /\ target \in n .. MaxSeq
      BY <1>1, <2>2
    <3> HIDE DEF n
    <3>1. VersionIn(sn2, in, target) = o.sum.lo
      <4>1. sn2[n] # None /\ sn2[n].sum = o.sum
        BY Zenon, <1>1, <1>2
      <4>2. VersionIn(sn2, in, target) = Floor(sn2[n].sum)
        BY <1>1, <1>5, <3>0, <4>1, WalkAtSnapshot
      <4> QED
        BY Zenon, <1>3, <4>1, <4>2
    <3>2. CASE sn[m.seq + 1] = o
      <4>1. \A s \in 1 .. target : sn2[s] = sn[s]
        BY <1>1, <1>2, <3>2 DEF n
      <4>2. VersionIn(sn2, in2, target) = VersionIn(sn, in, target)
        BY <2>0, <4>1, VersionBelow
      <4> QED
        BY <1>3, <3>1, <4>2 DEF in2
    <3>3. CASE sn[m.seq + 1] = None /\ in[m.seq + 1] = None
      <4>1. VersionIn(sn, in, target) = Floor(m.sum)
        BY Zenon, <3>0, <3>3, WalkToTip
      <4> QED
        BY Zenon, <1>3, <3>1, <4>1
    <3>4. CASE sn[m.seq + 1] = None /\ in[m.seq + 1] # None
      <4>1. VersionIn(sn, in, target) = Floor(in[m.seq + 1])
        BY <3>0, <3>4, WalkBehindTip
      <4>2. Floor(in[m.seq + 1]) <= o.sum.lo
        BY <1>3, <3>4 DEF Floor, IsSum
      <4> QED
        BY Zenon, <3>1, <4>1, <4>2
    <3> QED
      BY Zenon, <3>2, <3>3, <3>4
  <2> QED
    BY <1>1, <2>0, <2>1, <2>2
<1> QED
  BY Zenon, <1>4, <1>6, <1>7

\* A restore of everything has what the cursor at the tip stands for.
LEMMA TipFloor ==
  ASSUME NEW m, NEW sn, NEW in, Tip(m, sn, in), IsSum(m.sum),
         m.seq + 1 \in Seqs => sn[m.seq + 1] = None,
         m.seq + 1 \in Seqs /\ in[m.seq + 1] # None =>
           IsSum(in[m.seq + 1]) /\ in[m.seq + 1].kind = "incr" /\ m.sum.ver <= in[m.seq + 1].ver
  PROVE  Floor(m.sum) <= VersionIn(sn, in, MaxSeq)
<1>1. m.seq \in Nat /\ MaxSeq \in Nat /\ m.seq <= MaxSeq /\ MaxSeq \in m.seq .. MaxSeq
  BY BoundsAssumption DEF Tip
<1>2. Floor(m.sum) \in Nat /\ Floor(m.sum) <= m.sum.ver /\ m.sum.ver \in Nat
  BY DEF Floor, IsSum
<1>3. MaxSeq > m.seq => m.seq + 1 \in Seqs /\ MaxSeq \in m.seq + 1 .. MaxSeq
  BY <1>1
<1>4. CASE MaxSeq > m.seq /\ in[m.seq + 1] # None
  <2>1. VersionIn(sn, in, MaxSeq) = Floor(in[m.seq + 1])
    BY Zenon, <1>3, <1>4, WalkBehindTip
  <2> QED
    BY <1>2, <1>3, <1>4, <2>1 DEF Floor, IsSum
<1>5. CASE ~(MaxSeq > m.seq /\ in[m.seq + 1] # None)
  <2>1. VersionIn(sn, in, MaxSeq) = Floor(m.sum)
    BY Zenon, <1>1, <1>3, <1>5, WalkToTip
  <2> QED
    BY <1>2, <2>1
<1> QED
  BY Zenon, <1>4, <1>5

-----------------------------------------------------------------------------
(* What a restore returns, computed along the chain.                        *)

INSTANCE WellFoundedInduction

\* A set of naturals has a least element.
LEMMA LeastExists ==
  ASSUME NEW S \in SUBSET Nat, S # {}
  PROVE  \E x \in S : \A y \in S : x <= y
<1>1. PICK x \in S : \A y \in S : ~(<<y, x>> \in OpToRel(<, Nat))
  BY Zenon, NatLessThanWellFounded, WFMin
<1>2. \A y \in S : x <= y
  <2> SUFFICES ASSUME NEW y \in S, y < x PROVE FALSE
    OBVIOUS
  <2>1. <<y, x>>[1] < <<y, x>>[2] /\ <<y, x>> \in Nat \X Nat
    BY Zenon
  <2>2. <<y, x>> \in OpToRel(<, Nat)
    BY <2>1, Zenon DEF OpToRel
  <2> QED
    BY <1>1, <2>2, Zenon
<1> QED
  BY Zenon, <1>2

\* The pages of a restored file are at the versions its checksum tells.
LEMMA ContentOfSum ==
  ASSUME RestoreInv, NEW target \in Seqs, NEW r \in Restores(target)
  PROVE  Content(r[1], r[2]) = [lo |-> Floor(SumAt(r[1], r[2])), ver |-> SumAt(r[1], r[2]).ver]
<1> DEFINE t == r[1]
           n == r[2]
           of(s) == [lo |-> Floor(SumAt(t, s)), ver |-> SumAt(t, s).ver]
           step(c, s) ==
             IF s = t THEN [lo |-> snap[t].sum.lo, ver |-> snap[t].sum.ver]
             ELSE IF c[s-1] # None /\ incr[s].lo <= c[s-1].lo /\ c[s-1].ver <= incr[s].ver
                  THEN [lo |-> incr[s].ver, ver |-> incr[s].ver]
                  ELSE None
           Solves(c) == c = [s \in t .. n |-> step(c, s)]
           whole == [s \in t .. n |-> of(s)]
<1>0. target \in Nat /\ target <= MaxSeq
  BY BoundsAssumption
<1>1. /\ t \in Nat /\ n \in Nat /\ t <= n /\ t \in Seqs /\ n \in Seqs /\ snap[t] # None
      /\ \A s \in t + 1 .. n : incr[s] # None /\ s \in Seqs /\ incr[s].pre = SumAt(t, s - 1)
  BY <1>0, RestoreWalks, BoundsAssumption
<1>2. of(t) = [lo |-> snap[t].sum.lo, ver |-> snap[t].sum.ver]
  BY Zenon, <1>1 DEF SumAt, Floor, RestoreInv, SnapsAreFiles
<1>3. \A s \in t + 1 .. n : /\ of(s) = [lo |-> incr[s].ver, ver |-> incr[s].ver]
                            /\ incr[s].lo <= of(s-1).lo /\ of(s-1).ver <= incr[s].ver
                            /\ of(s-1) # None
  <2> SUFFICES ASSUME NEW s \in t + 1 .. n
               PROVE  /\ of(s) = [lo |-> incr[s].ver, ver |-> incr[s].ver]
                      /\ incr[s].lo <= of(s-1).lo /\ of(s-1).ver <= incr[s].ver
                      /\ of(s-1) # None
    BY Zenon
  <2>1. incr[s] # None /\ s \in Seqs /\ incr[s].pre = SumAt(t, s - 1) /\ s # t
    BY <1>1
  <2>2. incr[s].kind = "incr" /\ incr[s].lo <= Floor(incr[s].pre) /\ incr[s].pre.ver <= incr[s].ver
    BY Zenon, <2>1 DEF RestoreInv, StreamInv, CursorsSound, ChainSound
  <2>3. of(s) = [lo |-> incr[s].ver, ver |-> incr[s].ver]
    BY Zenon, <2>1, <2>2 DEF SumAt, Floor
  <2>4. of(s-1) # None
    BY Zenon DEF None
  <2> QED
    BY Zenon, <2>1, <2>2, <2>3, <2>4
<1> HIDE DEF of
<1>4. \A s \in t .. n : step(whole, s) = of(s)
  <2> SUFFICES ASSUME NEW s \in t .. n PROVE step(whole, s) = of(s)
    BY Zenon
  <2>1. CASE s = t
    BY Zenon, <1>2, <2>1
  <2>2. CASE s # t
    <3>1. s \in t + 1 .. n /\ s - 1 \in t .. n
      BY <1>1, <2>2
    <3>2. whole[s-1] = of(s-1)
      BY Zenon, <3>1
    <3> QED
      BY Zenon, <1>3, <2>2, <3>1, <3>2
  <2> QED
    BY Zenon, <2>1, <2>2
<1>5. Solves(whole)
  BY Zenon, <1>4
<1>6. ASSUME NEW c, Solves(c) PROVE c[n] = of(n)
  <2> DEFINE Bad == {s \in t .. n : c[s] # of(s)}
  <2> HIDE DEF step
  <2>1. \A s \in t .. n : c[s] = step(c, s)
    BY Zenon, <1>6
  <2> SUFFICES ASSUME Bad # {} PROVE FALSE
    BY <1>1
  <2>2. Bad \in SUBSET Nat
    BY <1>1
  <2>3. PICK s \in Bad : \A y \in Bad : s <= y
    BY Zenon, <2>2, LeastExists
  <2>4. s # t
    BY Zenon, <1>2, <2>1, <2>3 DEF step
  <2>5. s \in t + 1 .. n /\ s - 1 \in t .. n /\ s - 1 < s
    BY <1>1, <2>3, <2>4
  <2>6. c[s-1] = of(s-1)
    BY <1>1, <2>3, <2>5
  <2>7. step(c, s) = of(s)
    BY Zenon, <1>3, <2>4, <2>5, <2>6 DEF step
  <2> QED
    BY Zenon, <2>1, <2>3, <2>5, <2>7
<1>7. Content(t, n) = (CHOOSE c : Solves(c))[n]
  BY Zenon DEF Content
<1> HIDE DEF Solves
<1>8. Solves(CHOOSE c : Solves(c))
  BY Zenon, <1>5
<1>9. Content(t, n) = of(n)
  BY Zenon, <1>6, <1>7, <1>8
<1> QED
  BY Zenon, <1>9 DEF of

-----------------------------------------------------------------------------
\* ... from the first state on.
LEMMA RestoreInvariant == ASSUME NeverBusy PROVE Spec => []RestoreInv
<1>1. Init => RestoreInv
  <2> SUFFICES ASSUME Init PROVE RestoreInv
    BY Zenon
  <2>1. \A s \in Seqs : snap[s] = None
    BY Zenon DEF Init
  <2> QED
    BY Zenon, <2>1, InitInv DEF RestoreInv, SnapsAreFiles
<1> QED
  BY <1>1, RestoreInvNext, PTL DEF Spec

\* As long as no checkpoint of the replicator's own ends busy, a restore to any
\* point in time that succeeds yields a database: the pages of one committed
\* version, or those of a bare snapshot's file (sync::restore).
THEOREM RestoresADatabase == ASSUME NeverBusy PROVE Spec => []RestoreExact
<1>1. RestoreInv => RestoreExact
  <2> SUFFICES ASSUME RestoreInv, NEW target \in Seqs, NEW r \in Restores(target)
               PROVE  LET c == Content(r[1], r[2]) IN
                      c # None /\ (r[2] > r[1] => c.lo = c.ver) /\ c.ver <= committed
    BY Zenon DEF RestoreExact
  <2> DEFINE sum == SumAt(r[1], r[2])
  <2>1. target \in Nat /\ target <= MaxSeq
    BY BoundsAssumption
  <2>2. /\ r[1] \in Seqs /\ r[2] \in Seqs /\ r[1] <= r[2] /\ r[2] <= target /\ snap[r[1]] # None
        /\ r[2] # r[1] => r[2] \in r[1] + 1 .. target /\ incr[r[2]] # None
    BY <2>1, RestoreWalks, BoundsAssumption
  <2>3. sum.ver <= committed
    BY Zenon, <2>2 DEF SumAt, RestoreInv, SnapsAreFiles, StreamInv, CursorsSound
  <2>4. r[2] # r[1] => Floor(sum) = sum.ver
    BY Zenon, <2>2 DEF SumAt, Floor, RestoreInv, StreamInv, CursorsSound
  <2>5. r[2] > r[1] => r[2] # r[1]
    BY <2>2
  <2> HIDE DEF sum
  <2>6. Content(r[1], r[2]) = [lo |-> Floor(sum), ver |-> sum.ver]
    BY Zenon, ContentOfSum DEF sum
  <2> QED
    BY <2>3, <2>4, <2>5, <2>6 DEF None
<1> QED
  BY <1>1, RestoreInvariant, PTL

=============================================================================
