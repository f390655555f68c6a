----------------------------- MODULE WatchProofs -----------------------------
(***************************************************************************)
(* Proofs about IndependentWatch.  WatchInv of WatchInvariants is          *)
(* inductive, and with it a restore from what the task has published is    *)
(* never a file that was not the database (NoWrongRestore).                *)
(***************************************************************************)
EXTENDS WatchInvariants, LegacyRestoreProofs

-----------------------------------------------------------------------------
(* The uploader.                                                            *)

\* The task's side of the invariant is unaffected by the uploader.
LEMMA UploadKeeps ==
  ASSUME WatchInv, Upload \/ CloseChannel
  PROVE  WatchInv'
<1>1. StoreOK' /\ (StoreSound => StoreSound')
  <2>1. CASE Upload
    BY <2>1, UploadKeepsStore, Zenon DEF Upload, WatchInv
  <2>2. CASE CloseChannel
    <3>1. remote' = remote /\ entries' = entries /\ flights' = flights
      BY <2>2, Zenon DEF CloseChannel, StartDrain, manifest
    <3> QED
      BY <3>1, StoreStays, Zenon DEF WatchInv
  <2> QED
    BY <2>1, <2>2
<1>2. /\ mode' = mode /\ db' = db /\ wal' = wal /\ layout' = layout /\ pc' = pc /\ cur' = cur
      /\ job' = job /\ caveats' = caveats
  BY Zenon DEF Upload, CloseChannel, watch
<1>3. DatabaseOK'
  BY <1>2, Zenon DEF DatabaseOK, WatchInv
<1>4. TaskOK'
  BY <1>2, Zenon DEF TaskOK, WatchInv
<1>5. CursorTied /\ JobTied /\ TaskSound => CursorTied' /\ JobTied' /\ TaskSound'
  BY <1>2, Zenon DEF CursorTied, InUse, JobTied, TaskSound
<1> QED
  BY <1>1, <1>2, <1>3, <1>4, <1>5, Zenon DEF WatchInv, Spared

-----------------------------------------------------------------------------
(* The application.                                                         *)

\* What the ties are about are numbers.
LEMMA TaskNumbers ==
  ASSUME TaskOK, TaskSound
  PROVE  /\ cur.off \in Nat /\ cur.salt \in Salts /\ cur.sum \in Sums /\ cur.txid \in Nat
         /\ Anchored(cur.sum) => Shipped(cur.sum) \in Nat
         /\ job.off \in Nat /\ job.salt \in Salts
         /\ pc \in {"snap", "put"} =>
              /\ job.obj.sum \in Sums
              /\ Anchored(job.obj.sum) => Shipped(job.obj.sum) \in Nat
<1>1. cur.off \in Nat /\ cur.salt \in Salts /\ cur.sum \in Sums /\ cur.txid \in Nat
  BY DEF TaskOK, Cursors
<1>2. job.off \in Nat /\ job.salt \in Salts
  BY DEF TaskOK, Jobs
<1>3. Anchored(cur.sum) => Shipped(cur.sum) \in Nat
  BY <1>1, SumStands, Zenon DEF TaskSound
<1>4. ASSUME pc \in {"snap", "put"}
      PROVE  job.obj.sum \in Sums /\ (Anchored(job.obj.sum) => Shipped(job.obj.sum) \in Nat)
  <2>1. job.obj \in Objects /\ SoundSum(job.obj.sum)
    BY <1>4, Zenon DEF TaskOK, TaskSound, SoundObject
  <2>2. job.obj.sum \in Sums
    BY <2>1 DEF Objects
  <2> QED
    BY <2>1, <2>2, SumStands, Zenon
<1> QED
  BY <1>1, <1>2, <1>3, <1>4, Zenon

\* A commit appends to the WAL, or begins one.
LEMMA GrowthKeepsDatabase ==
  ASSUME DatabaseOK, db' = db + 1, wal' = AppendTo(wal), mode' = mode, layout' \in Layouts
  PROVE  DatabaseOK'
<1>1. db \in Nat /\ wal \in Wals /\ wal.base <= db /\ mode \in {"direct", "cache"}
  BY Zenon DEF DatabaseOK
<1>2. wal.salt + 1 \in Nat /\ db + 1 \in Nat /\ wal.base <= db + 1 /\ db <= db + 1
  BY <1>1 DEF Wals
<1>3. wal' \in Wals /\ wal'.base <= db'
  BY <1>1, <1>2 DEF AppendTo, Wals
<1> QED
  BY <1>1, <1>2, <1>3, Zenon DEF DatabaseOK

\* A commit lengthens the WAL behind the cursor and behind the object under way.
LEMMA GrowthKeepsTies ==
  ASSUME DatabaseOK, TaskOK, TaskSound, db' = db + 1, wal' = AppendTo(wal),
         mode' = mode, cur' = cur, job' = job
  PROVE  /\ CursorTied /\ (pc' = pc \/ (pc = "open" /\ pc' = "idle")) => CursorTied'
         /\ JobTied /\ pc' = pc => JobTied'
<1> DEFINE w == IF wal.open THEN wal ELSE [salt |-> wal.salt + 1, base |-> db, open |-> TRUE]
<1>1. wal' = w /\ db \in Nat /\ wal \in Wals /\ wal.base <= db
  BY Zenon DEF AppendTo, DatabaseOK
<1>2. wal.salt \in Nat /\ wal.base \in Nat /\ wal.open \in BOOLEAN
  BY <1>1 DEF Wals
<1>3. w \in Wals /\ wal.salt <= w.salt /\ (wal.open => w = wal)
  BY <1>1, <1>2 DEF Wals
<1>4. \A sum, off, salt : Shipped(sum) \in Nat /\ off \in Nat /\ salt \in Salts /\ Tied(db, wal, sum, off, salt)
        => Tied(db', wal', sum, off, salt)
  <2> SUFFICES ASSUME NEW sum, NEW off \in Nat, NEW salt \in Salts, Shipped(sum) \in Nat,
                      Tied(db, wal, sum, off, salt)
               PROVE  Tied(db', wal', sum, off, salt)
    BY Zenon
  <2>1. Tied(db + 1, w, sum, off, salt)
    BY <1>1, TiedCommit, Zenon
  <2> QED
    BY <1>1, <2>1, Zenon
<1> HIDE DEF w
<1>5. wal'.salt \in Nat
  BY <1>1, <1>3 DEF Wals
<1>6. ASSUME CursorTied, pc' = pc \/ (pc = "open" /\ pc' = "idle")
      PROVE  CursorTied'
  <2> SUFFICES ASSUME Anchored(cur.sum), InUse
               PROVE  /\ Tied(db', wal', cur.sum, cur.off, cur.salt)
                      /\ mode = "direct" /\ cur.salt = None => cur.off = 0
                      /\ mode = "cache" => cur.salt = None \/ (wal'.open /\ cur.salt = wal'.salt)
                      /\ pc \in {"encode", "snap"} => cur.salt # None
                      /\ pc = "read" => /\ job.salt <= wal'.salt
                                        /\ cur.salt \in {None, job.salt}
                                        /\ cur.off = 0 => wal'.open /\ job.salt = wal'.salt
    BY <1>6, Zenon DEF CursorTied, InUse
  <2>1. Tied(db', wal', cur.sum, cur.off, cur.salt)
    BY <1>4, <1>6, TaskNumbers, Zenon DEF CursorTied
  <2>2. ASSUME pc = "read"
        PROVE  job.salt <= wal'.salt
    <3>1. job.salt \in Nat /\ job.salt <= wal.salt
      BY <1>6, <2>2, Zenon DEF CursorTied, TaskOK
    <3> QED
      BY <1>1, <1>2, <1>3, <1>5, <3>1
  <2> QED
    BY <1>1, <1>3, <1>6, <2>1, <2>2, Zenon DEF CursorTied
<1>7. ASSUME JobTied, pc' = pc
      PROVE  JobTied'
  <2>1. 0 \in Nat /\ None \in Salts
    BY DEF Salts
  <2>2. ASSUME pc = "snap"
        PROVE  Anchored(job.obj.sum) /\ Tied(db', wal', job.obj.sum, 0, None)
    BY <1>4, <1>7, <2>1, <2>2, TaskNumbers, Zenon DEF JobTied
  <2>3. ASSUME pc = "put"
        PROVE  Anchored(job.obj.sum) => Tied(db', wal', job.obj.sum, job.off, job.salt)
    BY <1>4, <1>7, <2>3, TaskNumbers, Zenon DEF JobTied
  <2> QED
    BY <1>7, <2>2, <2>3, Zenon DEF JobTied
<1> QED
  BY <1>6, <1>7, Zenon

\* Neither does a commit that leaves the layout alone matter to what is stored.
LEMMA CommitKeeps ==
  ASSUME WatchInv, Commit \/ CommitScattered
  PROVE  WatchInv'
<1>1. /\ db' = db + 1 /\ wal' = AppendTo(wal) /\ mode' = mode /\ cur' = cur /\ job' = job /\ pc' = pc
      /\ remote' = remote /\ entries' = entries /\ flights' = flights
      /\ Spared' => Spared /\ layout' = layout
  <2>1. ~Spared' \/ Commit
    BY Zenon DEF CommitScattered, Spared
  <2> QED
    BY <2>1, Zenon DEF Commit, CommitScattered, manifest, tasks, Spared
<1>2. layout' \in Layouts
  <2>1. Layouts \ {"packed"} \subseteq Layouts
    OBVIOUS
  <2> QED
    BY <2>1, Zenon DEF Commit, CommitScattered, WatchInv, DatabaseOK
<1>3. StoreOK' /\ (StoreSound => StoreSound')
  BY <1>1, StoreStays, Zenon DEF WatchInv
<1>4. TaskOK' /\ (TaskSound => TaskSound')
  BY <1>1, Zenon DEF TaskOK, TaskSound, WatchInv
<1>5. DatabaseOK'
  BY <1>1, <1>2, GrowthKeepsDatabase, Zenon DEF WatchInv
<1>6. CursorTied /\ JobTied /\ TaskSound => CursorTied' /\ JobTied'
  BY <1>1, GrowthKeepsTies, Zenon DEF WatchInv
<1> QED
  BY <1>1, <1>3, <1>4, <1>5, <1>6, Zenon DEF WatchInv, Spared

\* A reset that finds the task guarded: the cursor it is going to read from has the salt of
\* the old WAL, and so has a batch under way.
LEMMA GuardedHasSalt ==
  ASSUME WatchInv, Spared, ~Unguarded, ~Pinned
  PROVE  /\ Anchored(cur.sum) /\ InUse => cur.salt \in Nat /\ mode = "direct"
         /\ pc = "read" => cur.off # 0
         /\ pc # "snap"
<1>1. pc # "snap" /\ (pc = "read" => cur.off # 0)
  BY Zenon DEF Unguarded
<1>2. ASSUME Anchored(cur.sum), InUse
      PROVE  cur.salt \in Nat /\ mode = "direct"
  <2>1. TaskOK /\ CursorTied /\ mode \in {"direct", "cache"} /\ cur.txid > 0
    BY <1>2, Zenon DEF WatchInv, DatabaseOK, TaskOK
  <2>2. cur.salt # None
    <3>1. CASE pc = "encode"
      BY <1>2, <2>1, <3>1, Zenon DEF CursorTied
    <3>2. CASE pc # "encode"
      BY <1>2, <2>1, <3>2 DEF Unguarded, InUse
    <3> QED
      BY <3>1, <3>2
  <2>3. cur.salt \in Nat
    BY <2>1, <2>2 DEF TaskOK, Cursors, Salts
  <2>4. ASSUME mode = "cache"
        PROVE  FALSE
    <3>1. pc \notin {"tick", "read", "put"} /\ (pc \in {"encode", "snap"} => job.at # "tick")
      BY <2>1, <2>4 DEF TaskOK
    <3>2. pc \in {"open", "idle", "cached", "drain", "closing"}
      BY <1>2, <3>1 DEF InUse
    <3>3. pc = "open"
      BY <2>4, <3>2 DEF Pinned
    <3> QED
      BY <2>4, <3>3 DEF Unguarded
  <2> QED
    BY <2>1, <2>3, <2>4
<1> QED
  BY <1>1, <1>2, Zenon

\* The ties of a guarded task survive a reset.
LEMMA ResetKeepsTies ==
  ASSUME WatchInv, Spared, ~Unguarded, ~Pinned,
         mode' = mode, cur' = cur, job' = job, pc' = pc,
         wal'.salt \in Nat, wal.salt <= wal'.salt,
         \A sum : \A off, salt \in Nat : Shipped(sum) \in Nat /\ Tied(db, wal, sum, off, salt)
                                           => Tied(db', wal', sum, off, salt)
  PROVE  CursorTied' /\ JobTied'
<1>1. CursorTied /\ JobTied /\ TaskOK /\ TaskSound /\ wal.salt \in Nat
  BY DEF WatchInv, DatabaseOK, Wals
<1>2. CursorTied'
  <2> SUFFICES ASSUME Anchored(cur.sum), InUse
               PROVE  /\ Tied(db', wal', cur.sum, cur.off, cur.salt)
                      /\ mode = "direct" /\ cur.salt = None => cur.off = 0
                      /\ mode = "cache" => cur.salt = None \/ (wal'.open /\ cur.salt = wal'.salt)
                      /\ pc \in {"encode", "snap"} => cur.salt # None
                      /\ pc = "read" => /\ job.salt <= wal'.salt
                                        /\ cur.salt \in {None, job.salt}
                                        /\ cur.off = 0 => wal'.open /\ job.salt = wal'.salt
    BY <1>1, Zenon DEF CursorTied, InUse
  <2>1. cur.salt \in Nat /\ mode = "direct" /\ (pc = "read" => cur.off # 0)
    BY GuardedHasSalt, Zenon
  <2>2. mode # "cache" /\ cur.salt # None
    BY <2>1, UploaderAssumption
  <2>3. Tied(db', wal', cur.sum, cur.off, cur.salt)
    BY <1>1, <2>1, TaskNumbers, Zenon DEF CursorTied
  <2>4. pc = "read" => job.salt \in Nat /\ job.salt <= wal.salt /\ cur.salt \in {None, job.salt}
    BY <1>1, Zenon DEF CursorTied, TaskOK
  <2>5. pc = "read" => job.salt <= wal'.salt
    BY <1>1, <2>4
  <2> QED
    BY <2>1, <2>2, <2>3, <2>4, <2>5, Zenon
<1>3. JobTied'
  <2>1. pc # "snap"
    BY GuardedHasSalt, Zenon
  <2>2. ASSUME pc = "put"
        PROVE  Anchored(job.obj.sum) => Tied(db', wal', job.obj.sum, job.off, job.salt)
    BY <1>1, <2>2, TaskNumbers, Zenon DEF JobTied, TaskOK
  <2> QED
    BY <2>1, <2>2, Zenon DEF JobTied
<1> QED
  BY <1>2, <1>3

\* Neither a restart nor a truncation of the WAL is read past, unless it finds the task
\* unguarded, which caveats records.
LEMMA ResetKeeps ==
  ASSUME WatchInv, CommitRestarting \/ Truncate
  PROVE  WatchInv'
<1>1. /\ mode' = mode /\ cur' = cur /\ job' = job /\ pc' = pc /\ layout' = layout
      /\ remote' = remote /\ entries' = entries /\ flights' = flights /\ ~Pinned
      /\ Spared' => Spared /\ ~Unguarded
  BY Zenon DEF CommitRestarting, Truncate, manifest, tasks, Spared
<1>2. StoreOK' /\ (StoreSound => StoreSound')
  BY <1>1, StoreStays, Zenon DEF WatchInv
<1>3. TaskOK' /\ (TaskSound => TaskSound')
  BY <1>1, Zenon DEF TaskOK, TaskSound, WatchInv
<1>4. db \in Nat /\ wal \in Wals /\ wal.base <= db /\ mode \in {"direct", "cache"} /\ layout \in Layouts
  BY Zenon DEF WatchInv, DatabaseOK
<1>5. wal.salt \in Nat /\ wal.base \in Nat
  BY <1>4 DEF Wals
<1>6. /\ db' \in Nat /\ wal' \in Wals /\ wal'.base <= db' /\ wal'.salt \in Nat /\ wal.salt <= wal'.salt
      /\ \A sum : \A off, salt \in Nat : Shipped(sum) \in Nat /\ Tied(db, wal, sum, off, salt)
                                           => Tied(db', wal', sum, off, salt)
  <2>1. CASE CommitRestarting
    <3> DEFINE w == [salt |-> wal.salt + 1, base |-> db, open |-> TRUE]
    <3>1. db' = db + 1 /\ wal' = w
      BY <2>1, Zenon DEF CommitRestarting
    <3>2. w \in Wals /\ w.base <= db + 1 /\ wal.salt <= w.salt /\ w.salt \in Nat /\ db + 1 \in Nat
      BY <1>4, <1>5 DEF Wals
    <3>3. ASSUME NEW sum, NEW off \in Nat, NEW salt \in Nat, Shipped(sum) \in Nat,
                 Tied(db, wal, sum, off, salt)
          PROVE  Tied(db', wal', sum, off, salt)
      BY <1>4, <3>1, <3>3, TiedRestart, Zenon
    <3> QED
      BY <3>1, <3>2, <3>3, Zenon
  <2>2. CASE Truncate
    <3> DEFINE w == [wal EXCEPT !.open = FALSE]
    <3>1. db' = db /\ wal' = w
      BY <2>2, Zenon DEF Truncate
    <3>2. w \in Wals /\ w.base = wal.base /\ w.salt = wal.salt
      BY Zenon, <1>4 DEF Wals
    <3>4. wal.salt <= wal.salt
      BY <1>5
    <3>3. ASSUME NEW sum, NEW off \in Nat, NEW salt \in Nat, Shipped(sum) \in Nat,
                 Tied(db, wal, sum, off, salt)
          PROVE  Tied(db', wal', sum, off, salt)
      BY <1>4, <3>1, <3>3, TiedTruncate, Zenon
    <3> QED
      BY <1>4, <1>5, <3>1, <3>2, <3>3, <3>4, Zenon
  <2> QED
    BY <2>1, <2>2
<1>7. DatabaseOK'
  BY <1>1, <1>4, <1>6, Zenon DEF DatabaseOK
<1>8. Spared' => CursorTied' /\ JobTied'
  BY <1>1, <1>6, ResetKeepsTies, Zenon
<1> QED
  BY <1>1, <1>2, <1>3, <1>7, <1>8, Zenon DEF WatchInv, Spared

-----------------------------------------------------------------------------
(* The task.                                                                *)

\* The cursor of WatchedDbState, by its fields.
LEMMA CursorIs ==
  ASSUME NEW txid \in Nat, NEW sum \in Sums, NEW off \in Nat, NEW salt \in Salts
  PROVE  LET c == Cursor(txid, sum, off, salt) IN
         c \in Cursors /\ c.txid = txid /\ c.sum = sum /\ c.off = off /\ c.salt = salt
  BY DEF Cursor, Cursors

\* The job a branch of the select! loop starts, by its fields.
LEMMA JobIs ==
  ASSUME NEW at \in {"startup", "tick", "timer"},
         NEW why \in {"anchor", "initial", "rollover", "periodic", "sync"}, NEW salt \in Salts
  PROVE  LET j == Job(at, why, salt) IN
         j \in Jobs /\ j.at = at /\ j.why = why /\ j.salt = salt
  BY DEF Job, Jobs

\* The loop between two branches has no job.
LEMMA NoJobIs == NoJob \in Jobs
<1>1. None \in Salts
  BY DEF Salts
<1> QED
  BY <1>1, JobIs, Zenon DEF NoJob

\* The job once its object has been encoded, and once it has been uploaded.
LEMMA JobWith ==
  ASSUME NEW j \in Jobs, NEW o \in Objects \cup {None}
  PROVE  LET k == [j EXCEPT !.obj = o] IN k \in Jobs /\ k.obj = o /\ k.at = j.at /\ k.why = j.why
  BY DEF Jobs

\* A task with nothing encoded, and no history behind its cursor or no further use for it,
\* has no ties to keep.
LEMMA NoTies ==
  ASSUME pc' \notin {"snap", "put"}, ~Anchored(cur'.sum) \/ pc' \in {"down", "closed", "dead"}
  PROVE  CursorTied' /\ JobTied'
<1>1. CursorTied'
  BY DEF CursorTied, InUse
<1>2. JobTied'
  BY DEF JobTied
<1> QED
  BY <1>1, <1>2

\* The process starts: what it discovers in storage is its TXID, and its checksum is that
\* of the file.
LEMMA StartKeeps ==
  ASSUME WatchInv, Start
  PROVE  WatchInv'
<1> DEFINE head == DiscoverTxid(remote)
<1>1. /\ mode' = mode /\ db' = db /\ wal' = wal /\ layout' = layout /\ caveats' = caveats
      /\ remote' = remote /\ entries' = entries /\ flights' = flights
      /\ cur' = Cursor(head, FileSum, 0, None)
      /\ \/ pc' = "encode" /\ job' = Job("startup", IF head > 0 THEN "anchor" ELSE "initial", None)
         \/ pc' = "open" /\ job' = job
  BY Zenon DEF Start, manifest, tasks
<1>2. head \in Nat
  BY DiscoveredTypes, Zenon DEF WatchInv, StoreOK
<1> HIDE DEF head
<1>3. 0 \in Nat /\ None \in Salts
  BY DEF Salts
<1>4. cur' \in Cursors /\ cur'.sum = FileSum
  <2>1. FileSum \in Sums
    BY FileSumIs, Zenon
  <2>2. Cursor(head, FileSum, 0, None) \in Cursors /\ Cursor(head, FileSum, 0, None).sum = FileSum
    BY <1>2, <1>3, <2>1, CursorIs, SMT
  <2> QED
    BY <1>1, <2>2, Zenon
<1>5. ~Anchored(cur'.sum) /\ SoundSum(cur'.sum)
  BY <1>4, FileSumIs, Zenon
<1>6. job' \in Jobs /\ (pc' = "encode" => job'.at = "startup" /\ job'.why \in {"anchor", "initial"})
  <2>1. CASE pc' = "encode"
    <3>1. PICK why \in {"anchor", "initial"} : job' = Job("startup", why, None)
      BY <1>1, <2>1
    <3>2. why \in {"anchor", "initial", "rollover", "periodic", "sync"} /\ "startup" \in {"startup", "tick", "timer"}
      OBVIOUS
    <3> DEFINE j == Job("startup", why, None)
    <3>3. j \in Jobs /\ j.at = "startup" /\ j.why = why
      BY <1>3, <3>2, JobIs, SMT
    <3> QED
      BY <3>1, <3>3, Zenon
  <2>2. CASE pc' = "open"
    <3>1. job' = job
      BY <1>1, <2>2
    <3> QED
      BY <2>2, <3>1 DEF WatchInv, TaskOK
  <2> QED
    BY <1>1, <2>1, <2>2
<1>7. TaskOK'
  BY <1>1, <1>4, <1>5, <1>6 DEF TaskOK
<1>8. DatabaseOK'
  BY <1>1, Zenon DEF DatabaseOK, WatchInv
<1>9. StoreOK' /\ (StoreSound => StoreSound')
  BY <1>1, StoreStays, Zenon DEF WatchInv
<1>10. pc' \notin {"snap", "put"}
  BY <1>1
<1>11. CursorTied' /\ JobTied' /\ TaskSound'
  BY <1>5, <1>10, NoTies, Zenon DEF TaskSound
<1> QED
  BY <1>1, <1>7, <1>8, <1>9, <1>11, Zenon DEF WatchInv, Spared

\* The task goes on, or comes to its end, with its cursor where it is.
LEMMA QuietKeeps ==
  ASSUME WatchInv, mode' = mode, db' = db, wal' = wal, layout' = layout, cur' = cur, job' = job,
         remote' = remote, entries' = entries, flights' \subseteq flights, caveats' = caveats,
         pc' \in {"idle", "drain", "closing", "closed", "down"},
         pc \in {"open", "idle", "tick", "cached", "drain", "closing"} \/ pc' \in {"down", "closed"}
  PROVE  WatchInv'
<1>1. StoreOK' /\ (StoreSound => StoreSound')
  BY StoreStays, Zenon DEF WatchInv
<1>2. DatabaseOK'
  BY Zenon DEF DatabaseOK, WatchInv
<1>3. pc' \notin {"tick", "read", "put", "encode", "snap"}
  OBVIOUS
<1>4. TaskOK' /\ (TaskSound => TaskSound')
  BY <1>3, Zenon DEF TaskOK, TaskSound, WatchInv
<1>5. CursorTied => CursorTied'
  BY <1>3, Zenon DEF CursorTied, InUse
<1>6. JobTied'
  BY <1>3, Zenon DEF JobTied
<1> QED
  BY <1>1, <1>2, <1>4, <1>5, <1>6, Zenon DEF WatchInv, Spared

\* The steps of the shutdown, and the notification of the uploader (run_db_task).
LEMMA ShutdownKeeps ==
  ASSUME WatchInv, Signal \/ Notify \/ NothingToCache \/ SendShutdown \/ Close
  PROVE  WatchInv'
<1>1. /\ mode' = mode /\ db' = db /\ wal' = wal /\ layout' = layout /\ cur' = cur /\ job' = job
      /\ remote' = remote /\ entries' = entries /\ caveats' = caveats
  BY Zenon DEF Signal, Notify, NothingToCache, SendShutdown, Close, manifest
<1>2. flights' \subseteq flights
  BY Zenon DEF Signal, Notify, NothingToCache, SendShutdown, Close, NotifyUploader, DropUploader, tasks
<1>3. AfterSync \in {"idle", "closed", "drain"}
  BY DEF AfterSync
<1>4. pc' \in {"idle", "drain", "closing", "closed", "down"}
  BY <1>3 DEF Signal, Notify, NothingToCache, SendShutdown, Close
<1>5. pc \in {"open", "idle", "tick", "cached", "drain", "closing"} \/ pc' \in {"down", "closed"}
  BY DEF Signal, Notify, NothingToCache, SendShutdown, Close
<1> QED
  BY <1>1, <1>2, <1>4, <1>5, QuietKeeps, Zenon

\* A crash forgets the cursor.
LEMMA StopKeeps ==
  ASSUME WatchInv, Stop
  PROVE  WatchInv'
<1>1. /\ mode' = mode /\ db' = db /\ wal' = wal /\ layout' = layout /\ caveats' = caveats
      /\ remote' = remote /\ entries' = entries /\ flights' = {}
      /\ cur' = NoCursor /\ job' = NoJob /\ pc' = "down"
  BY Zenon DEF Stop, DropUploader, manifest
<1>2. StoreOK' /\ (StoreSound => StoreSound')
  BY <1>1, StoreStays, Zenon DEF WatchInv
<1>3. DatabaseOK'
  BY <1>1, Zenon DEF DatabaseOK, WatchInv
<1>4. FileSum \in Sums /\ ~Anchored(FileSum) /\ SoundSum(FileSum) /\ 0 \in Nat /\ None \in Salts
  BY FileSumIs DEF Salts
<1>5. NoCursor \in Cursors /\ NoCursor.sum = FileSum
  BY <1>4, CursorIs, SMT DEF NoCursor
<1>6. job' \in Jobs
  BY <1>1, NoJobIs, Zenon
<1>7. pc' \notin {"tick", "read", "put", "encode", "snap"}
  BY <1>1
<1>8. TaskOK' /\ TaskSound'
  BY <1>1, <1>4, <1>5, <1>6, <1>7, Zenon DEF TaskOK, TaskSound
<1>9. CursorTied' /\ JobTied'
  BY <1>1, <1>7, NoTies, Zenon
<1> QED
  BY <1>1, <1>2, <1>3, <1>8, <1>9, Zenon DEF WatchInv, Spared

\* Opening the cache writes to the database through the new blocker.
LEMMA OpenKeeps ==
  ASSUME WatchInv, Open
  PROVE  WatchInv'
<1>1. /\ mode' = mode /\ layout' = layout /\ cur' = cur /\ job' = job /\ remote' = remote /\ pc = "open"
  BY Zenon DEF Open
<1>2. \/ /\ db' = db /\ wal' = wal /\ entries' = entries /\ flights' = flights /\ caveats' = caveats
         /\ pc' \in {"idle", "down"}
      \/ /\ db' = db + 1 /\ wal' = AppendTo(wal) /\ pc' = "idle" /\ entries' = entries /\ flights' = {}
         /\ Spared' => Spared
  BY Zenon DEF Open, OpenCache, manifest, tasks, Spared
<1>3. CASE /\ db' = db /\ wal' = wal /\ entries' = entries /\ flights' = flights /\ caveats' = caveats
           /\ pc' \in {"idle", "down"}
  <2>1. pc' \in {"idle", "drain", "closing", "closed", "down"}
    BY <1>3
  <2> QED
    BY <1>1, <1>3, <2>1, QuietKeeps, Zenon
<1>4. CASE /\ db' = db + 1 /\ wal' = AppendTo(wal) /\ pc' = "idle" /\ entries' = entries /\ flights' = {}
           /\ Spared' => Spared
  <2>1. StoreOK' /\ (StoreSound => StoreSound')
    BY <1>1, <1>4, StoreStays, Zenon DEF WatchInv
  <2>2. DatabaseOK'
    BY <1>1, <1>4, GrowthKeepsDatabase, Zenon DEF WatchInv, DatabaseOK
  <2>3. pc' \notin {"tick", "read", "put", "encode", "snap"}
    BY <1>4
  <2>4. TaskOK' /\ (TaskSound => TaskSound')
    BY <1>1, <2>3, Zenon DEF TaskOK, TaskSound, WatchInv
  <2>5. CursorTied /\ TaskSound => CursorTied'
    BY <1>1, <1>4, GrowthKeepsTies, Zenon DEF WatchInv
  <2>6. JobTied'
    BY <2>3, Zenon DEF JobTied
  <2> QED
    BY <1>1, <1>4, <2>1, <2>2, <2>4, <2>5, <2>6, Zenon DEF WatchInv, Spared
<1> QED
  BY <1>2, <1>3, <1>4

-----------------------------------------------------------------------------
(* Snapshots.                                                               *)

\* The snapshot timer asks for a snapshot; the cursor is not used until it is published.
LEMMA SnapshotTickKeeps ==
  ASSUME WatchInv, SnapshotTick
  PROVE  WatchInv'
<1> DEFINE j == Job("timer", "periodic", None)
<1>1. /\ mode' = mode /\ db' = db /\ wal' = wal /\ layout' = layout /\ caveats' = caveats /\ cur' = cur
      /\ remote' = remote /\ entries' = entries /\ flights' = flights /\ pc' = "encode" /\ job' = j
  BY Zenon DEF SnapshotTick, manifest, tasks
<1>2. /\ "timer" \in {"startup", "tick", "timer"} /\ None \in Salts
      /\ "periodic" \in {"anchor", "initial", "rollover", "periodic", "sync"}
  BY DEF Salts
<1>3. j \in Jobs /\ j.at = "timer" /\ j.why = "periodic"
  BY <1>2, JobIs, SMT
<1> HIDE DEF j
<1>4. StoreOK' /\ (StoreSound => StoreSound')
  BY <1>1, StoreStays, Zenon DEF WatchInv
<1>5. DatabaseOK'
  BY <1>1, Zenon DEF DatabaseOK, WatchInv
<1>6. /\ pc' \notin {"tick", "read", "put", "snap", "open", "idle", "cached", "drain", "closing"}
      /\ job'.at # "startup" /\ job'.at # "tick"
  BY <1>1, <1>3
<1>7. TaskOK' /\ (TaskSound => TaskSound')
  BY <1>1, <1>3, <1>6, Zenon DEF TaskOK, TaskSound, WatchInv
<1>8. CursorTied' /\ JobTied'
  BY <1>6, Zenon DEF CursorTied, JobTied, InUse
<1> QED
  BY <1>1, <1>4, <1>5, <1>7, <1>8, Zenon DEF WatchInv, Spared

\* A snapshot has a TXID and a generation of its own.
LEMMA SlotIs ==
  ASSUME WatchInv, NEW why
  PROVE  LET slot == SnapshotSlot(why) IN
         slot[1] \in Nat /\ slot[1] > 0 /\ slot[2] \in Nat /\ slot[2] > 0
<1> DEFINE t == DiscoverTxid(remote)
           g == DiscoverGeneration(remote)
<1>1. t \in Nat /\ g \in Nat
  BY DiscoveredTypes, Zenon DEF WatchInv, StoreOK
<1>2. cur.txid \in Nat
  BY DEF WatchInv, TaskOK, Cursors
<1> HIDE DEF t, g
<1>3. SnapshotSlot(why) \in {<<1, 1>>, <<cur.txid + 1, g + 1>>, <<t + 1, g + 1>>}
  BY Zenon DEF SnapshotSlot, t, g
<1> QED
  BY <1>1, <1>2, <1>3

\* The snapshot that is encoded is of the newest version, and the frames behind it begin
\* there or below: also when its checkpoint has truncated the WAL.
LEMMA EncodeSnapshotKeeps ==
  ASSUME WatchInv, EncodeSnapshot
  PROVE  WatchInv'
<1> DEFINE slot == SnapshotSlot(job.why)
           o    == Snapshot(slot[2], slot[1], db, layout)
           w    == IF job.why = "rollover" THEN [wal EXCEPT !.open = FALSE] ELSE wal
<1>1. /\ mode' = mode /\ db' = db /\ wal' = w /\ layout' = layout /\ cur' = cur
      /\ remote' = remote /\ entries' = entries /\ flights' = flights
      /\ pc = "encode" /\ pc' = "snap" /\ job' = [job EXCEPT !.obj = o]
      /\ Spared' => Spared
  BY Zenon DEF EncodeSnapshot, manifest, tasks, Spared
<1>2. slot[1] \in Nat /\ slot[1] > 0 /\ slot[2] \in Nat /\ slot[2] > 0
  BY SlotIs, Zenon
<1>3. db \in Nat /\ layout \in Layouts /\ wal \in Wals /\ wal.base <= db /\ mode \in {"direct", "cache"}
  BY Zenon DEF WatchInv, DatabaseOK
<1>4. wal.base \in Nat /\ wal.salt \in Nat /\ wal.open \in BOOLEAN
  BY <1>3 DEF Wals
<1>5. w \in Wals /\ w.base = wal.base /\ w.salt = wal.salt /\ w.open \in BOOLEAN
  BY Zenon, <1>3, <1>4 DEF Wals
<1>6. TaskOK /\ job \in Jobs /\ cur \in Cursors
  BY Zenon DEF WatchInv, TaskOK
<1> HIDE DEF slot, w
<1>7. /\ o \in Objects /\ o.max = slot[1]
      /\ layout = "packed" => o.sum = DbSum(Image(db)) /\ SoundObject(o)
  <2> SUFFICES ASSUME NEW g \in Nat, NEW t \in Nat, g > 0, NEW v \in Nat, NEW b \in Layouts
               PROVE  LET s == Snapshot(g, t, v, b) IN
                      /\ s \in Objects /\ s.max = t
                      /\ b = "packed" => s.sum = DbSum(Image(v)) /\ SoundObject(s)
    BY <1>2, <1>3, Zenon
  <2> QED
    BY SnapshotTypes, SMT
<1>8. layout = "packed" => Anchored(o.sum) /\ Shipped(o.sum) = db
  BY <1>3, <1>7, SnapshotIsSound, Zenon
<1> HIDE DEF o
<1>9. job' \in Jobs /\ job'.obj = o /\ job'.at = job.at /\ job'.why = job.why
  <2>1. o \in Objects \cup {None}
    BY <1>7
  <2> DEFINE k == [job EXCEPT !.obj = o]
  <2>2. k \in Jobs /\ k.obj = o /\ k.at = job.at /\ k.why = job.why
    BY <1>6, <2>1, JobWith, Zenon
  <2> QED
    BY <1>1, <2>2, Zenon
<1>10. StoreOK' /\ (StoreSound => StoreSound')
  BY <1>1, StoreStays, Zenon DEF WatchInv
<1>11. DatabaseOK'
  BY <1>1, <1>3, <1>5, Zenon DEF DatabaseOK
<1>12. TaskOK'
  <2>1. pc' \notin {"tick", "read", "put"} /\ pc \in {"encode", "snap"} /\ job'.obj.max > 0
    BY <1>1, <1>2, <1>7, <1>9
  <2> QED
    BY <1>1, <1>6, <1>7, <1>9, <2>1, Zenon DEF TaskOK
<1>13. layout = "packed" /\ TaskSound => TaskSound'
  BY <1>1, <1>7, <1>9, Zenon DEF TaskSound
<1>14. layout = "packed" => JobTied'
  <2>1. layout = "packed" => Tied(db, w, o.sum, 0, None)
    BY <1>3, <1>4, <1>5, <1>8, UploaderAssumption, SMT DEF Tied
  <2>2. pc' # "put"
    BY <1>1
  <2> QED
    BY <1>1, <1>8, <1>9, <2>1, <2>2, Zenon DEF JobTied
<1>15. ASSUME CursorTied, TaskSound
       PROVE  CursorTied'
  <2> SUFFICES ASSUME Anchored(cur.sum), job.at = "tick"
               PROVE  /\ Tied(db, w, cur.sum, cur.off, cur.salt) /\ cur.salt # None /\ mode = "direct"
    <3>1. pc' \notin {"open", "idle", "tick", "read", "put", "cached", "drain", "closing"}
      BY <1>1
    <3>2. mode = "direct" => mode # "cache"
      OBVIOUS
    <3> QED
      BY <1>1, <1>9, <3>1, <3>2, Zenon DEF CursorTied, InUse
  <2>1. InUse /\ mode = "direct"
    BY <1>1, <1>6, Zenon DEF InUse, TaskOK
  <2>2. Tied(db, wal, cur.sum, cur.off, cur.salt) /\ cur.salt # None
    BY <1>1, <1>15, <2>1, Zenon DEF CursorTied
  <2>3. cur.salt \in Nat /\ cur.off \in Nat /\ Shipped(cur.sum) \in Nat
    BY <1>6, <1>15, <2>2, TaskNumbers, Zenon DEF Salts
  <2>4. Tied(db, [wal EXCEPT !.open = FALSE], cur.sum, cur.off, cur.salt)
    BY <1>3, <2>2, <2>3, TiedTruncate, Zenon
  <2> QED
    BY <2>1, <2>2, <2>4, Zenon DEF w
<1> QED
  BY <1>1, <1>10, <1>11, <1>12, <1>13, <1>14, <1>15, Zenon DEF WatchInv, Spared

\* A published snapshot takes the cursor to its version.
LEMMA PublishSnapshotKeeps ==
  ASSUME WatchInv, PublishSnapshot
  PROVE  WatchInv'
<1> DEFINE o == job.obj
           s == IF job.why = "initial" THEN None ELSE WalSalt
<1>1. /\ mode' = mode /\ db' = db /\ wal' = wal /\ layout' = layout /\ pc = "snap"
      /\ remote' = Put(remote, o) /\ entries' = entries /\ flights' = flights
      /\ cur' = Cursor(o.max, o.sum, 0, s) /\ job' = NoJob
      /\ Spared' => Spared
  BY Zenon DEF PublishSnapshot, manifest, tasks, Spared
<1>2. pc' \in {"open", "idle", "closed", "drain"}
  BY DEF PublishSnapshot, AfterSync
<1>3. o \in Objects /\ (Anchored(o.sum) => o.max > 0) /\ DatabaseOK /\ StoreOK /\ TaskOK
  BY <1>1, Zenon DEF WatchInv, TaskOK
<1>4. o.max \in Nat /\ o.sum \in Sums /\ 0 \in Nat
  BY <1>3 DEF Objects
<1>5. db \in Nat /\ wal \in Wals /\ wal.salt \in Nat /\ wal.open \in BOOLEAN
  BY <1>3 DEF DatabaseOK, Wals
<1>6. s = None \/ (wal.open /\ s = wal.salt)
  BY <1>5, Zenon DEF WalSalt
<1>7. s \in Salts
  BY <1>5, <1>6, Zenon DEF Salts
<1> HIDE DEF s
<1>8. cur' \in Cursors /\ cur'.txid = o.max /\ cur'.sum = o.sum /\ cur'.off = 0 /\ cur'.salt = s
  <2> DEFINE c == Cursor(o.max, o.sum, 0, s)
  <2>1. c \in Cursors /\ c.txid = o.max /\ c.sum = o.sum /\ c.off = 0 /\ c.salt = s
    BY <1>4, <1>7, CursorIs, SMT
  <2> QED
    BY <1>1, <2>1, Zenon
<1> HIDE DEF o
<1>9. /\ remote' \in SUBSET Objects /\ Bounded(remote')
      /\ StoreSound /\ SoundObject(o) => \A p \in remote' : SoundObject(p)
  BY <1>1, <1>3, PutKeeps, Zenon DEF StoreOK, StoreSound
<1>10. StoreOK' /\ (StoreSound /\ SoundObject(o) => StoreSound')
  BY <1>1, <1>3, <1>9, Zenon DEF StoreOK, StoreSound
<1>11. DatabaseOK'
  BY <1>1, <1>3, Zenon DEF DatabaseOK
<1>12. pc' \notin {"tick", "read", "put", "encode", "snap"}
  BY <1>2
<1>13. TaskOK'
  BY <1>1, <1>3, <1>8, <1>12, NoJobIs, Zenon DEF TaskOK
<1>14. ASSUME JobTied, TaskSound
       PROVE  SoundObject(o) /\ TaskSound' /\ JobTied' /\ CursorTied'
  <2>1. SoundObject(o) /\ Anchored(o.sum) /\ Tied(db, wal, o.sum, 0, None) /\ SoundSum(o.sum)
    BY <1>1, <1>14, Zenon DEF JobTied, TaskSound, SoundObject, o
  <2>2. Shipped(o.sum) \in Nat
    BY <1>4, <2>1, SumStands, Zenon
  <2>3. Tied(db, wal, o.sum, 0, s)
    BY <1>5, <1>6, <2>1, <2>2, TiedToSalt, Zenon
  <2>4. TaskSound' /\ JobTied'
    BY <1>8, <1>12, <2>1, Zenon DEF TaskSound, JobTied
  <2>5. CursorTied'
    BY <1>1, <1>6, <1>8, <1>12, <2>3, Zenon DEF CursorTied
  <2> QED
    BY <2>1, <2>4, <2>5
<1> QED
  BY <1>1, <1>10, <1>11, <1>13, <1>14, Zenon DEF WatchInv, Spared

\* A snapshot or a sync that fails leaves the cursor as it was: it is retried with the same
\* cursor, or given up.
LEMMA FailureKeeps ==
  ASSUME WatchInv, pc \in {"encode", "snap", "put"}, AfterFailure, mode' = mode, db' = db, wal' = wal, cur' = cur
  PROVE  TaskOK' /\ (CursorTied /\ TaskSound => CursorTied' /\ JobTied' /\ TaskSound')
<1>1. TaskOK /\ cur \in Cursors /\ job \in Jobs /\ mode \in {"direct", "cache"}
  BY Zenon DEF WatchInv, TaskOK, DatabaseOK
<1>2. job' \in Jobs /\ (pc' = "encode" => job'.at = job.at /\ job'.why = job.why)
  <2> DEFINE k == [job EXCEPT !.obj = None]
  <2>1. k \in Jobs /\ k.at = job.at /\ k.why = job.why
    <3>1. None \in Objects \cup {None}
      OBVIOUS
    <3> QED
      BY <1>1, <3>1, JobWith, Zenon
  <2>2. job' = IF pc' = "encode" THEN k ELSE NoJob
    BY Zenon DEF AfterFailure
  <2> HIDE DEF k
  <2> QED
    BY <2>1, <2>2, NoJobIs, Zenon
<1>3. CASE job.at = "startup"
  <2>1. pc' \in {"encode", "open"} /\ pc \in {"encode", "snap"}
    BY <1>1, <1>3 DEF AfterFailure, TaskOK
  <2>2. ~Anchored(cur.sum) /\ job.why \in {"anchor", "initial"}
    BY <1>1, <1>3, <2>1, Zenon DEF TaskOK
  <2>3. pc' \notin {"tick", "read", "put", "snap"} /\ job.at # "timer" /\ job.at # "tick"
    BY <1>3, <2>1
  <2>4. TaskOK'
    BY <1>1, <1>2, <2>2, <2>3, Zenon DEF TaskOK
  <2>5. CursorTied' /\ JobTied' /\ (TaskSound => TaskSound')
    BY <2>2, <2>3, NoTies, Zenon DEF TaskSound
  <2> QED
    BY <2>4, <2>5
<1>4. CASE job.at = "timer"
  <2>1. pc' \in {"encode", "dead"} /\ pc \in {"encode", "snap"}
    BY <1>1, <1>4 DEF AfterFailure, TaskOK
  <2>2. job.why = "periodic"
    BY <1>1, <1>4, <2>1, Zenon DEF TaskOK
  <2>3. /\ pc' \notin {"open", "idle", "tick", "read", "put", "cached", "drain", "closing", "snap"}
        /\ job.at # "startup" /\ job.at # "tick"
    BY <1>4, <2>1
  <2>4. TaskOK'
    BY <1>1, <1>2, <2>2, <2>3, Zenon DEF TaskOK
  <2>5. CursorTied' /\ JobTied' /\ (TaskSound => TaskSound')
    BY <1>2, <2>3, Zenon DEF TaskSound, CursorTied, InUse, JobTied
  <2> QED
    BY <2>4, <2>5
<1>5. CASE job.at = "tick"
  <2>1. pc' \in {"tick", "dead"}
    BY <1>5 DEF AfterFailure
  <2>2. mode = "direct" /\ mode # "cache"
    BY <1>1, <1>5 DEF TaskOK
  <2>3. pc' \notin {"encode", "read", "put", "snap"}
    BY <2>1
  <2>4. TaskOK'
    BY <1>1, <1>2, <2>2, <2>3, Zenon DEF TaskOK
  <2>5. InUse
    BY <1>5 DEF InUse
  <2>6. (CursorTied => CursorTied') /\ JobTied' /\ (TaskSound => TaskSound')
    BY <2>2, <2>3, <2>5, Zenon DEF TaskSound, CursorTied, JobTied
  <2> QED
    BY <2>4, <2>6
<1>6. job.at \in {"startup", "tick", "timer"}
  BY <1>1 DEF Jobs
<1> QED
  BY <1>3, <1>4, <1>5, <1>6, Zenon

\* Encoding fails, or a put does, with or without effect.
LEMMA FailsKeep ==
  ASSUME WatchInv, EncodeFails \/ PutFails
  PROVE  WatchInv'
<1>1. /\ mode' = mode /\ db' = db /\ wal' = wal /\ layout' = layout /\ cur' = cur /\ AfterFailure
      /\ entries' = entries /\ flights' = flights
      /\ \/ pc = "encode" /\ remote' = remote
         \/ pc \in {"snap", "put"} /\ remote' \in {remote, Put(remote, job.obj)}
      /\ Spared' => Spared
  BY Zenon DEF EncodeFails, PutFails, manifest, tasks, Spared
<1>2. pc \in {"encode", "snap", "put"}
  BY <1>1
<1>3. TaskOK' /\ (CursorTied /\ TaskSound => CursorTied' /\ JobTied' /\ TaskSound')
  BY <1>1, <1>2, FailureKeeps, Zenon
<1>4. DatabaseOK'
  BY <1>1, Zenon DEF DatabaseOK, WatchInv
<1>5. StoreOK' /\ (StoreSound /\ TaskSound => StoreSound')
  <2>1. CASE remote' = remote
    BY <1>1, <2>1, StoreStays, Zenon DEF WatchInv
  <2>2. CASE pc \in {"snap", "put"} /\ remote' = Put(remote, job.obj)
    <3>1. job.obj \in Objects /\ StoreOK /\ (TaskSound => SoundObject(job.obj))
      BY <2>2, Zenon DEF WatchInv, TaskOK, TaskSound
    <3>2. /\ remote' \in SUBSET Objects /\ Bounded(remote')
          /\ StoreSound /\ TaskSound => \A p \in remote' : SoundObject(p)
      BY <2>2, <3>1, PutKeeps, Zenon DEF StoreOK, StoreSound
    <3> QED
      BY <1>1, <3>1, <3>2, Zenon DEF StoreOK, StoreSound
  <2> QED
    BY <1>1, <2>1, <2>2, Zenon
<1> QED
  BY <1>1, <1>3, <1>4, <1>5, Zenon DEF WatchInv, Spared

-----------------------------------------------------------------------------
(* Batches.                                                                 *)

\* A batch of every frame behind the cursor stands for the newest version, if those frames
\* begin at or below the version its cursor's checksum stands for (encode_wal_changes).
LEMMA BatchIs ==
  ASSUME DatabaseOK, TaskOK, WalLen > cur.off
  PROVE  /\ wal.open /\ WalLen = db - wal.base /\ WalLen \in Nat
         /\ Batch \in Objects /\ Batch.max \in Nat /\ Batch.sum \in Sums
         /\ Anchored(Batch.sum) => Anchored(cur.sum) /\ Batch.max > 0 /\ Shipped(Batch.sum) = db
         /\ TaskSound /\ (Anchored(cur.sum) => wal.base + cur.off <= Shipped(cur.sum) /\ Shipped(cur.sum) <= db)
              => SoundObject(Batch)
<1> DEFINE from  == wal.base + cur.off
           pages == PagesOf(Frames(from, db))
           b     == Incremental(cur.txid, pages, cur.sum)
<1>1. /\ cur.txid \in Nat /\ cur.off \in Nat /\ cur.sum \in Sums
      /\ db \in Nat /\ wal.base \in Nat /\ wal.base <= db /\ wal.open \in BOOLEAN
  BY DEF TaskOK, Cursors, DatabaseOK, Wals
<1>2. wal.open /\ WalLen = db - wal.base /\ WalLen \in Nat /\ from \in Nat /\ from < db /\ from <= db
  BY <1>1 DEF WalLen
<1>3. Batch = b
  BY Zenon DEF Batch, Frames
<1> HIDE DEF from
<1>4. pages \in PageMaps /\ Newest(pages) = db
  BY <1>1, <1>2, PagesTypes, NewestOfFrames, Zenon
<1>5. (TaskSound /\ (Anchored(cur.sum) => from <= Shipped(cur.sum) /\ Shipped(cur.sum) <= db))
        => SoundSum(ChainSum(cur.sum, pages))
  BY <1>1, <1>2, BatchIsSound, Zenon DEF TaskSound
<1> HIDE DEF pages
<1>6. /\ b \in Objects /\ b.max >= cur.txid /\ b.sum = ChainSum(cur.sum, pages)
      /\ SoundSum(b.sum) => SoundObject(b)
  BY <1>1, <1>4, IncrementalTypes, SMT
<1> HIDE DEF b
<1>7. b.max \in Nat /\ b.sum \in Sums
  BY <1>6 DEF Objects
<1>8. Shipped(b.sum) = db /\ (Anchored(b.sum) <=> Anchored(cur.sum))
  BY <1>1, <1>4, <1>6, ChainStands, Zenon
<1>9. Anchored(cur.sum) => b.max > 0
  <2>1. Anchored(cur.sum) => cur.txid > 0
    BY Zenon DEF TaskOK
  <2> QED
    BY <1>1, <1>6, <1>7, <2>1
<1> QED
  BY <1>2, <1>3, <1>5, <1>6, <1>7, <1>8, <1>9, Zenon DEF from

\* A poll finds no stream, no WAL, another WAL, or frames to read (sync_wal_to_storage).
LEMMA CheckWalKeeps ==
  ASSUME WatchInv, CheckWal
  PROVE  WatchInv'
<1>1. /\ mode' = mode /\ db' = db /\ wal' = wal /\ layout' = layout /\ caveats' = caveats /\ cur' = cur
      /\ remote' = remote /\ entries' = entries /\ flights' = flights
      /\ mode = "direct" /\ pc \in {"idle", "tick"}
  BY Zenon DEF CheckWal, manifest, tasks
<1>2. StoreOK' /\ (StoreSound => StoreSound')
  BY <1>1, StoreStays, Zenon DEF WatchInv
<1>3. DatabaseOK' /\ DatabaseOK /\ TaskOK
  BY <1>1, Zenon DEF DatabaseOK, WatchInv
<1>4. InUse /\ mode # "cache" /\ cur.txid \in Nat /\ wal.salt \in Nat
  BY <1>1, <1>3 DEF InUse, TaskOK, Cursors, DatabaseOK, Wals
<1>5. ASSUME NEW why \in {"initial", "rollover"}, pc' = "encode", job' = Job("tick", why, None),
             CursorTied /\ Anchored(cur.sum) => cur.salt # None
      PROVE  WatchInv'
  <2> DEFINE j == Job("tick", why, None)
  <2>1. /\ "tick" \in {"startup", "tick", "timer"} /\ None \in Salts
        /\ why \in {"anchor", "initial", "rollover", "periodic", "sync"}
    BY DEF Salts
  <2>2. j \in Jobs /\ j.at = "tick" /\ j.why = why
    BY <2>1, JobIs, SMT
  <2> HIDE DEF j
  <2>3. job' \in Jobs /\ job'.at = "tick" /\ job'.why = why
    BY <1>5, <2>2, Zenon DEF j
  <2>4. pc' \notin {"tick", "read", "put", "snap"} /\ job'.at # "startup" /\ job'.at # "timer"
    BY <1>5, <2>3
  <2>5. TaskOK' /\ (TaskSound => TaskSound')
    BY <1>1, <1>3, <2>3, <2>4, Zenon DEF TaskOK, TaskSound
  <2>6. JobTied' /\ (CursorTied => CursorTied')
    BY <1>1, <1>4, <1>5, <2>4, Zenon DEF CursorTied, JobTied
  <2> QED
    BY <1>1, <1>2, <1>3, <2>5, <2>6, Zenon DEF WatchInv, Spared
<1>6. ASSUME cur.txid = 0, pc' = "encode", job' = Job("tick", "initial", None)
      PROVE  WatchInv'
  <2>1. ~Anchored(cur.sum)
    BY <1>3, <1>6 DEF TaskOK
  <2> QED
    BY <1>5, <1>6, <2>1, Zenon
<1>7. ASSUME pc' = AfterSync, job' = job
      PROVE  WatchInv'
  <2>1. pc' \in {"idle", "drain", "closing", "closed", "down"}
    BY <1>7 DEF AfterSync
  <2> QED
    BY <1>1, <1>7, <2>1, QuietKeeps, Zenon
<1>8. ASSUME wal.open, RolledOver, pc' = "encode", job' = Job("tick", "rollover", None)
      PROVE  WatchInv'
  <2>1. WalLen \in Nat
    BY <1>3, <1>8 DEF WalLen, DatabaseOK, Wals
  <2>2. cur.salt = None => ~(cur.off = 0)
    BY <1>8, <2>1 DEF RolledOver
  <2>3. CursorTied /\ Anchored(cur.sum) => cur.salt # None
    BY <1>1, <1>4, <2>2, Zenon DEF CursorTied
  <2> QED
    BY <1>5, <1>8, <2>3, Zenon
<1>9. ASSUME wal.open, ~RolledOver, pc' = "read", job' = Job("tick", "sync", wal.salt)
      PROVE  WatchInv'
  <2> DEFINE j == Job("tick", "sync", wal.salt)
  <2>1. /\ "tick" \in {"startup", "tick", "timer"} /\ wal.salt \in Salts
        /\ "sync" \in {"anchor", "initial", "rollover", "periodic", "sync"}
    BY <1>4 DEF Salts
  <2>2. j \in Jobs /\ j.at = "tick" /\ j.salt = wal.salt
    BY <2>1, JobIs, SMT
  <2> HIDE DEF j
  <2>3. job' \in Jobs /\ job'.at = "tick" /\ job'.salt = wal.salt
    BY <1>9, <2>2, Zenon DEF j
  <2>4. pc' \notin {"encode", "put", "snap"} /\ wal.salt <= wal.salt
    BY <1>4, <1>9
  <2>5. cur.salt \in {None, wal.salt}
    BY <1>9, Zenon DEF RolledOver
  <2>6. TaskOK' /\ (TaskSound => TaskSound')
    BY <1>1, <1>3, <1>4, <2>3, <2>4, Zenon DEF TaskOK, TaskSound
  <2>7. JobTied' /\ (CursorTied => CursorTied')
    BY <1>1, <1>4, <1>9, <2>3, <2>4, <2>5, Zenon DEF CursorTied, JobTied
  <2> QED
    BY <1>1, <1>2, <1>3, <2>6, <2>7, Zenon DEF WatchInv, Spared
<1> QED
  BY <1>6, <1>7, <1>8, <1>9, Zenon DEF CheckWal

\* The frames behind the cursor are read from the WAL whose salt was checked, or none are:
\* behind a cursor inside another WAL no frame continues its checksums.
LEMMA ReadWalKeeps ==
  ASSUME WatchInv, ReadWal
  PROVE  WatchInv'
<1>1. /\ mode' = mode /\ db' = db /\ wal' = wal /\ layout' = layout /\ caveats' = caveats
      /\ remote' = remote /\ entries' = entries /\ flights' = flights /\ pc = "read"
  BY Zenon DEF ReadWal, manifest, tasks
<1>2. StoreOK' /\ (StoreSound => StoreSound')
  BY <1>1, StoreStays, Zenon DEF WatchInv
<1>3. DatabaseOK' /\ DatabaseOK /\ TaskOK
  BY <1>1, Zenon DEF DatabaseOK, WatchInv
<1>4. /\ job.salt \in Nat /\ wal.salt \in Nat /\ job \in Jobs /\ cur \in Cursors /\ mode # "cache"
      /\ cur.off \in Nat
  BY <1>1, <1>3 DEF TaskOK, Cursors, DatabaseOK, Wals
<1>5. InUse /\ mode = "direct" /\ job.salt # None
  BY <1>1, <1>3, <1>4, UploaderAssumption DEF InUse, DatabaseOK
<1>6. CASE UnreadFrames(job.salt)
  <2>1. WalLen > cur.off /\ (job.salt = wal.salt \/ cur.off = 0)
    BY <1>6, Zenon DEF UnreadFrames
  <2>2. /\ wal.open /\ WalLen = db - wal.base /\ WalLen \in Nat /\ Batch \in Objects
        /\ Anchored(Batch.sum) => Anchored(cur.sum) /\ Batch.max > 0 /\ Shipped(Batch.sum) = db
        /\ TaskSound /\ (Anchored(cur.sum) => wal.base + cur.off <= Shipped(cur.sum) /\ Shipped(cur.sum) <= db)
             => SoundObject(Batch)
    BY <1>3, <2>1, BatchIs, Zenon
  <2> DEFINE k == [job EXCEPT !.obj = Batch, !.off = WalLen]
  <2>3. pc' = "put" /\ cur' = cur /\ job' = k
    BY <1>6, Zenon DEF ReadWal
  <2>4. k \in Jobs /\ k.obj = Batch /\ k.at = job.at /\ k.off = WalLen /\ k.salt = job.salt
    <3>1. Batch \in Objects /\ WalLen \in Nat
      BY <2>2, Zenon
    <3> QED
      BY Zenon, <1>4, <3>1 DEF Jobs
  <2> HIDE DEF k
  <2>5. pc' \notin {"tick", "read", "encode", "snap"}
    BY <2>3
  <2>6. job.at = "tick"
    BY <1>1, <1>3, Zenon DEF TaskOK
  <2>7. TaskOK'
    BY <1>1, <1>3, <1>4, <2>2, <2>3, <2>4, <2>5, <2>6, Zenon DEF TaskOK
  <2>8. ASSUME CursorTied, TaskSound
        PROVE  CursorTied' /\ JobTied' /\ TaskSound'
    <3>1. Anchored(cur.sum) =>
            /\ Tied(db, wal, cur.sum, cur.off, cur.salt) /\ cur.salt \in {None, job.salt}
            /\ cur.off = 0 => job.salt = wal.salt
      BY <1>1, <1>5, <2>8, Zenon DEF CursorTied
    <3>2. Anchored(cur.sum) => job.salt = wal.salt
      BY <2>1, <3>1, Zenon
    <3>3. Anchored(cur.sum) => wal.base + cur.off <= Shipped(cur.sum) /\ Shipped(cur.sum) <= db
      BY <2>2, <3>1, <3>2, Zenon DEF Tied
    <3>4. SoundObject(Batch)
      BY <2>2, <2>8, <3>3, Zenon
    <3>5. TaskSound'
      BY <2>3, <2>4, <2>8, <3>4, Zenon DEF TaskSound
    <3>6. CursorTied'
      BY <1>1, <1>5, <2>3, <2>5, <2>8, Zenon DEF CursorTied
    <3>7. ASSUME Anchored(Batch.sum)
          PROVE  Tied(db, wal, Batch.sum, WalLen, job.salt)
      <4>1. db \in Nat /\ wal \in Wals /\ wal.base <= db /\ job.salt \in Salts
        BY <1>3, <1>4 DEF DatabaseOK, Salts
      <4>2. job.salt # None => job.salt <= wal.salt
        BY <1>4, <2>2, <3>2, <3>7
      <4>3. Shipped(Batch.sum) = db
        BY <2>2, <3>7, Zenon
      <4>4. Tied(db, wal, Batch.sum, db - wal.base, job.salt)
        BY <2>2, <4>1, <4>2, <4>3, TiedBehindBatch, SMT
      <4> QED
        BY <2>2, <4>4, Zenon
    <3>8. JobTied'
      BY <1>1, <2>3, <2>4, <2>5, <3>7, Zenon DEF JobTied
    <3> QED
      BY <3>5, <3>6, <3>8
  <2> QED
    BY <1>1, <1>2, <1>3, <2>7, <2>8, Zenon DEF WatchInv, Spared
<1>7. CASE ~UnreadFrames(job.salt)
  <2> DEFINE c == [cur EXCEPT !.salt = job.salt]
  <2>1. pc' = AfterSync /\ job' = NoJob /\ cur' = c
    BY <1>7, Zenon DEF ReadWal
  <2>2. /\ c \in Cursors /\ c.sum = cur.sum /\ c.txid = cur.txid /\ c.off = cur.off /\ c.salt = job.salt
    BY <1>4 DEF Cursors, Salts
  <2> HIDE DEF c
  <2>3. pc' \notin {"tick", "read", "encode", "snap", "put"}
    BY <2>1 DEF AfterSync
  <2>4. TaskOK' /\ (TaskSound => TaskSound')
    BY <1>1, <1>3, <2>1, <2>2, <2>3, NoJobIs, Zenon DEF TaskOK, TaskSound
  <2>5. JobTied'
    BY <2>3, Zenon DEF JobTied
  <2>6. ASSUME CursorTied
        PROVE  CursorTied'
    <3>1. Anchored(cur.sum) =>
            Tied(db, wal, cur.sum, cur.off, cur.salt) /\ cur.salt \in {None, job.salt} /\ job.salt <= wal.salt
      BY <1>1, <1>5, <2>6, Zenon DEF CursorTied
    <3>2. Anchored(cur.sum) => Tied(db, wal, cur.sum, cur.off, job.salt)
      BY <1>5, <3>1, Zenon DEF Tied
    <3> QED
      BY <1>1, <1>4, <1>5, <2>1, <2>2, <2>3, <3>2, Zenon DEF CursorTied
  <2> QED
    BY <1>1, <1>2, <1>3, <2>4, <2>5, <2>6, Zenon DEF WatchInv, Spared
<1> QED
  BY <1>6, <1>7

\* A published batch takes the cursor behind its frames.
LEMMA PublishBatchKeeps ==
  ASSUME WatchInv, PublishBatch
  PROVE  WatchInv'
<1> DEFINE o == job.obj
<1>1. /\ mode' = mode /\ db' = db /\ wal' = wal /\ layout' = layout /\ pc = "put" /\ caveats' = caveats
      /\ remote' = Put(remote, o) /\ entries' = entries /\ flights' = flights
      /\ cur' = Cursor(o.max, o.sum, job.off, job.salt) /\ job' = NoJob /\ pc' = AfterSync
  BY Zenon DEF PublishBatch, manifest, tasks
<1>2. pc' \notin {"tick", "read", "put", "encode", "snap"}
  BY <1>1 DEF AfterSync
<1>3. /\ o \in Objects /\ (Anchored(o.sum) => o.max > 0) /\ DatabaseOK /\ StoreOK /\ TaskOK
      /\ job.salt \in Nat /\ job \in Jobs
  BY <1>1, Zenon DEF WatchInv, TaskOK
<1>4. o.max \in Nat /\ o.sum \in Sums /\ job.off \in Nat /\ job.salt \in Salts /\ mode # "cache"
      /\ job.salt # None
  BY <1>1, <1>3, UploaderAssumption DEF Objects, Jobs, TaskOK
<1>5. cur' \in Cursors /\ cur'.txid = o.max /\ cur'.sum = o.sum /\ cur'.off = job.off /\ cur'.salt = job.salt
  <2> DEFINE c == Cursor(o.max, o.sum, job.off, job.salt)
  <2>1. c \in Cursors /\ c.txid = o.max /\ c.sum = o.sum /\ c.off = job.off /\ c.salt = job.salt
    BY <1>4, CursorIs, SMT
  <2> QED
    BY <1>1, <2>1, Zenon
<1> HIDE DEF o
<1>6. /\ remote' \in SUBSET Objects /\ Bounded(remote')
      /\ StoreSound /\ SoundObject(o) => \A p \in remote' : SoundObject(p)
  BY <1>1, <1>3, PutKeeps, Zenon DEF StoreOK, StoreSound
<1>7. StoreOK' /\ (StoreSound /\ SoundObject(o) => StoreSound')
  BY <1>1, <1>3, <1>6, Zenon DEF StoreOK, StoreSound
<1>8. DatabaseOK'
  BY <1>1, <1>3, Zenon DEF DatabaseOK
<1>9. TaskOK'
  BY <1>1, <1>2, <1>3, <1>5, NoJobIs, Zenon DEF TaskOK
<1>10. ASSUME JobTied, TaskSound
       PROVE  SoundObject(o) /\ TaskSound' /\ JobTied' /\ CursorTied'
  <2>1. SoundObject(o) /\ SoundSum(o.sum) /\ (Anchored(o.sum) => Tied(db, wal, o.sum, job.off, job.salt))
    BY <1>1, <1>10, Zenon DEF JobTied, TaskSound, SoundObject, o
  <2>2. TaskSound' /\ JobTied'
    BY <1>2, <1>5, <2>1, Zenon DEF TaskSound, JobTied
  <2>3. CursorTied'
    BY <1>1, <1>2, <1>4, <1>5, <2>1, Zenon DEF CursorTied
  <2> QED
    BY <2>1, <2>2, <2>3
<1> QED
  BY <1>1, <1>7, <1>8, <1>9, <1>10, Zenon DEF WatchInv, Spared

-----------------------------------------------------------------------------
(* The cache.                                                               *)

\* The first snapshot and every batch of the cache mode: the blocker keeps the WAL, so that the
\* cursor's frames are the ones behind it (sync_wal_to_cache).
LEMMA CacheKeeps ==
  ASSUME WatchInv, CacheSnapshot \/ CacheBatch
  PROVE  WatchInv'
<1>1. /\ mode' = mode /\ db' = db /\ wal' = wal /\ layout' = layout /\ caveats' = caveats /\ job' = job
      /\ remote' = remote /\ flights' = flights /\ mode = "cache" /\ pc = "idle" /\ pc' = "cached"
  BY Zenon DEF CacheSnapshot, CacheBatch, tasks
<1>2. DatabaseOK' /\ DatabaseOK /\ TaskOK /\ StoreOK
  BY <1>1, Zenon DEF DatabaseOK, WatchInv
<1>3. db \in Nat /\ layout \in Layouts /\ wal \in Wals /\ wal.base <= db /\ cur.salt \in Salts
  BY <1>2 DEF DatabaseOK, TaskOK, Cursors
<1>4. wal.base \in Nat /\ wal.salt \in Nat /\ wal.open \in BOOLEAN /\ cur.off \in Nat
  BY <1>2, <1>3 DEF Wals, TaskOK, Cursors
<1>5. InUse /\ mode # "direct" /\ pc' \notin {"tick", "read", "put", "encode", "snap"}
  BY <1>1 DEF InUse
<1>6. ASSUME NEW o \in Objects, NEW off \in Nat, NEW salt \in Salts, WriteLtx(o),
             cur' = Cursor(o.max, o.sum, off, salt), Anchored(o.sum) => o.max > 0,
             layout = "packed" /\ CursorTied /\ TaskSound =>
               /\ SoundObject(o)
               /\ Anchored(o.sum) => /\ Tied(db, wal, o.sum, off, salt)
                                     /\ salt = None \/ (wal.open /\ salt = wal.salt)
      PROVE  WatchInv'
  <2>1. StoreOK' /\ (StoreSound /\ SoundObject(o) => StoreSound')
    BY <1>1, <1>2, <1>6, WriteKeepsStore, Zenon
  <2>2. o.max \in Nat /\ o.sum \in Sums
    BY DEF Objects
  <2> DEFINE c == Cursor(o.max, o.sum, off, salt)
  <2>3. c \in Cursors /\ c.txid = o.max /\ c.sum = o.sum /\ c.off = off /\ c.salt = salt
    BY <2>2, CursorIs, SMT
  <2> HIDE DEF c
  <2>4. cur' = c
    BY <1>6, Zenon DEF c
  <2>5. TaskOK'
    BY <1>1, <1>2, <1>5, <1>6, <2>3, <2>4, Zenon DEF TaskOK
  <2>6. JobTied'
    BY <1>5, Zenon DEF JobTied
  <2>7. layout = "packed" /\ CursorTied /\ TaskSound => CursorTied' /\ TaskSound'
    BY <1>1, <1>5, <1>6, <2>3, <2>4, Zenon DEF CursorTied, TaskSound, SoundObject
  <2> QED
    BY <1>1, <1>2, <1>6, <2>1, <2>5, <2>6, <2>7, Zenon DEF WatchInv, Spared
<1>7. CASE CacheSnapshot
  <2> DEFINE o == Snapshot(1, 1, db, layout)
  <2>1. WriteLtx(o) /\ cur' = Cursor(1, o.sum, 0, None)
    BY <1>7, Zenon DEF CacheSnapshot
  <2>2. /\ o \in Objects /\ o.max = 1
        /\ layout = "packed" => o.sum = DbSum(Image(db)) /\ SoundObject(o)
    <3> SUFFICES ASSUME NEW v \in Nat, NEW b \in Layouts
                 PROVE  LET s == Snapshot(1, 1, v, b) IN
                        /\ s \in Objects /\ s.max = 1
                        /\ b = "packed" => s.sum = DbSum(Image(v)) /\ SoundObject(s)
      BY <1>3, SMT
    <3>1. 1 \in Nat /\ 1 > 0
      OBVIOUS
    <3> QED
      BY <3>1, SnapshotTypes, SMT
  <2>3. layout = "packed" => Anchored(o.sum) /\ Shipped(o.sum) = db
    BY <1>3, <2>2, SnapshotIsSound, Zenon
  <2> HIDE DEF o
  <2>4. layout = "packed" => Tied(db, wal, o.sum, 0, None)
    BY <1>3, <1>4, <2>3, UploaderAssumption, SMT DEF Tied
  <2>5. 0 \in Nat /\ None \in Salts /\ o.max > 0
    BY <2>2 DEF Salts
  <2>6. cur' = Cursor(o.max, o.sum, 0, None)
    BY <2>1, <2>2, Zenon
  <2> QED
    BY <1>6, <2>1, <2>2, <2>4, <2>5, <2>6, Zenon
<1>8. CASE CacheBatch
  <2>1. WriteLtx(Batch) /\ cur' = Cursor(Batch.max, Batch.sum, WalLen, cur.salt) /\ WalLen > cur.off
    BY <1>8, Zenon DEF CacheBatch
  <2>2. /\ wal.open /\ WalLen = db - wal.base /\ WalLen \in Nat /\ Batch \in Objects
        /\ Anchored(Batch.sum) => Anchored(cur.sum) /\ Batch.max > 0 /\ Shipped(Batch.sum) = db
        /\ TaskSound /\ (Anchored(cur.sum) => wal.base + cur.off <= Shipped(cur.sum) /\ Shipped(cur.sum) <= db)
             => SoundObject(Batch)
    BY <1>2, <2>1, BatchIs, Zenon
  <2>3. ASSUME CursorTied, TaskSound
        PROVE  /\ SoundObject(Batch)
               /\ Anchored(Batch.sum) => /\ Tied(db, wal, Batch.sum, WalLen, cur.salt)
                                         /\ cur.salt = None \/ (wal.open /\ cur.salt = wal.salt)
    <3>1. Anchored(cur.sum) => /\ Tied(db, wal, cur.sum, cur.off, cur.salt)
                               /\ cur.salt = None \/ (wal.open /\ cur.salt = wal.salt)
      BY <1>1, <1>5, <2>3, Zenon DEF CursorTied
    <3>2. Anchored(cur.sum) => wal.base + cur.off <= Shipped(cur.sum) /\ Shipped(cur.sum) <= db
      BY <2>2, <3>1, Zenon DEF Tied
    <3>3. SoundObject(Batch)
      BY <2>2, <2>3, <3>2, Zenon
    <3>4. ASSUME Anchored(Batch.sum)
          PROVE  Tied(db, wal, Batch.sum, WalLen, cur.salt)
      <4>1. Shipped(Batch.sum) = db /\ (cur.salt = None \/ cur.salt = wal.salt)
        BY <2>2, <3>1, <3>4, Zenon
      <4>2. cur.salt # None => cur.salt <= wal.salt
        BY <1>4, <4>1
      <4>3. Tied(db, wal, Batch.sum, db - wal.base, cur.salt)
        BY <1>3, <2>2, <4>1, <4>2, TiedBehindBatch, SMT
      <4> QED
        BY <2>2, <4>3, Zenon
    <3> QED
      BY <2>2, <3>1, <3>3, <3>4, Zenon
  <2>4. Anchored(Batch.sum) => Batch.max > 0
    BY <2>2, Zenon
  <2> QED
    BY <1>3, <1>6, <2>1, <2>2, <2>3, <2>4, Zenon
<1> QED
  BY <1>7, <1>8

-----------------------------------------------------------------------------
(* The theorem.                                                             *)

\* The invariant holds before the first start, and every step keeps it.
LEMMA WatchInit ==
  ASSUME Init
  PROVE  WatchInv
<1>1. /\ db = 1 /\ wal = [salt |-> 0, base |-> 1, open |-> FALSE] /\ layout = "packed"
      /\ pc = "down" /\ cur = NoCursor /\ job = NoJob
      /\ remote = {} /\ entries = <<>> /\ flights = {}
  BY Zenon DEF Init
<1>2. mode \in {"direct", "cache"}
  <2>1. PICK s \in Setups : mode = s.mode
    BY Zenon DEF Init
  <2> QED
    BY <2>1, SetupsAssumption
<1>3. DatabaseOK
  BY <1>1, <1>2 DEF DatabaseOK, Wals, Layouts
<1>4. DOMAIN entries = {}
  BY <1>1
<1>5. Bounded(remote)
  <2>1. 0 \in Nat
    OBVIOUS
  <2> QED
    BY <1>1, <2>1, Zenon DEF Bounded
<1>6. StoreOK /\ StoreSound
  BY <1>1, <1>4, <1>5, Zenon DEF StoreOK, StoreSound
<1>7. FileSum \in Sums /\ ~Anchored(FileSum) /\ SoundSum(FileSum) /\ 0 \in Nat /\ None \in Salts
  BY FileSumIs DEF Salts
<1>8. NoCursor \in Cursors /\ NoCursor.sum = FileSum
  BY <1>7, CursorIs, SMT DEF NoCursor
<1>9. pc \notin {"tick", "read", "put", "encode", "snap"}
  BY <1>1
<1>10. TaskOK /\ TaskSound
  BY <1>1, <1>7, <1>8, <1>9, NoJobIs, Zenon DEF TaskOK, TaskSound
<1>11. CursorTied /\ JobTied
  BY <1>1, <1>7, <1>8, <1>9, Zenon DEF CursorTied, JobTied
<1> QED
  BY <1>1, <1>3, <1>6, <1>10, <1>11, Zenon DEF WatchInv, Spared

\* Every step of the application, the task, its uploader and the environment
\* keeps the invariant.
LEMMA WatchStep ==
  ASSUME WatchInv, [Next]_vars
  PROVE  WatchInv'
<1>1. CASE App
  BY <1>1, CommitKeeps, ResetKeeps, Zenon DEF App
<1>2. CASE Start \/ SnapshotTick \/ Signal \/ Stop
  BY <1>2, StartKeeps, SnapshotTickKeeps, ShutdownKeeps, StopKeeps, Zenon
<1>3. CASE Task
  <2>1. CASE Open \/ EncodeSnapshot \/ EncodeFails \/ PublishSnapshot \/ PutFails
    BY <2>1, OpenKeeps, EncodeSnapshotKeeps, FailsKeep, PublishSnapshotKeeps, Zenon
  <2>2. CASE CheckWal \/ ReadWal \/ PublishBatch \/ CacheSnapshot \/ CacheBatch
    BY <2>2, CheckWalKeeps, ReadWalKeeps, PublishBatchKeeps, CacheKeeps, Zenon
  <2>3. CASE Notify \/ NothingToCache \/ SendShutdown \/ Close
    BY <2>3, ShutdownKeeps, Zenon
  <2> QED
    BY <1>3, <2>1, <2>2, <2>3, Zenon DEF Task
<1>4. CASE Upload \/ CloseChannel
  BY <1>4, UploadKeeps, Zenon
<1>5. CASE UNCHANGED vars
  <2>1. /\ mode' = mode /\ db' = db /\ wal' = wal /\ layout' = layout /\ pc' = pc /\ cur' = cur
        /\ job' = job /\ caveats' = caveats /\ remote' = remote /\ entries' = entries /\ flights' = flights
    BY <1>5, Zenon DEF vars
  <2>2. StoreOK' /\ (StoreSound => StoreSound')
    BY <2>1, StoreStays, Zenon DEF WatchInv
  <2>3. DatabaseOK' /\ TaskOK'
    BY <2>1, Zenon DEF DatabaseOK, TaskOK, WatchInv
  <2>4. CursorTied /\ JobTied /\ TaskSound => CursorTied' /\ JobTied' /\ TaskSound'
    BY <2>1, Zenon DEF CursorTied, InUse, JobTied, TaskSound
  <2> QED
    BY <2>1, <2>2, <2>3, <2>4, Zenon DEF WatchInv, Spared
<1> QED
  BY <1>1, <1>2, <1>3, <1>4, <1>5, Zenon DEF Next

\* Unless the WAL is reset in a moment in which the task cannot notice, or a commit has left
\* the live file with other page numbers than its vacuumed copy, no restore of what
\* `walrust watch --independent-tasks` has published, to whatever TXID, ends with a file that
\* was never the database: crashes, failed and repeated puts, and uploads that arrive late,
\* twice, in any order or not at all included.
THEOREM NeverAWrongFile == Spec => []NoWrongRestore
<1>1. Init => WatchInv
  BY WatchInit
<1>2. WatchInv /\ [Next]_vars => WatchInv'
  BY WatchStep
<1>3. WatchInv => NoWrongRestore
  <2> SUFFICES ASSUME WatchInv, Spared, NEW t \in 1 .. DiscoverTxid(remote)
               PROVE  RestoreTo(remote, t) # Mixed
    BY Zenon DEF NoWrongRestore, RestoresVerified, Spared
  <2>1. remote \in SUBSET Objects /\ Bounded(remote) /\ \A o \in remote : SoundObject(o)
    BY Zenon DEF WatchInv, StoreOK, StoreSound
  <2>2. DiscoverTxid(remote) \in Nat
    BY <2>1, DiscoveredTypes, Zenon
  <2>3. t \in Nat
    BY <2>2
  <2>4. PICK b \in Nat : \A o \in remote : o.gen <= b
    BY <2>1, Zenon DEF Bounded
  <2> QED
    BY <2>1, <2>3, <2>4, RestoreIsSound, Zenon
<1> QED
  BY <1>1, <1>2, <1>3, PTL DEF Spec

=============================================================================
