-------------------------- MODULE WatchInvariants ----------------------------
(***************************************************************************)
(* The inductive invariant behind NoWrongRestore of IndependentWatch.      *)
(*                                                                         *)
(* Every checksum stands for a version of the database (SoundSum): its     *)
(* history begins with a snapshot of one version, and every batch takes a  *)
(* file of one version to the next one.  That is kept because the frames a *)
(* batch is read from begin at or below the version the cursor's checksum  *)
(* stands for (Tied), which a reset of the WAL breaks unless its salt      *)
(* gives the reset away, and by the live file numbering its pages as the   *)
(* snapshot does.                                                          *)
(***************************************************************************)
EXTENDS IndependentWatch, LegacyHistory

Cursors == [txid : Nat, sum : Sums, off : Nat, salt : Salts]
Jobs    ==
  [at : {"startup", "tick", "timer"},
   why : {"anchor", "initial", "rollover", "periodic", "sync"},
   salt : Salts, obj : Objects \cup {None}, off : Nat]

DatabaseOK ==
  mode \in {"direct", "cache"} /\ db \in Nat /\ layout \in Layouts /\ wal \in Wals /\ wal.base <= db

\* Who asks for which snapshot or sync, and when.
TaskOK ==
  /\ cur \in Cursors /\ job \in Jobs
  /\ Anchored(cur.sum) => cur.txid > 0
  /\ mode = "cache" => pc \notin {"tick", "read", "put"}
  /\ pc \in {"encode", "snap"} =>
       /\ job.at = "startup" => job.why \in {"anchor", "initial"} /\ ~Anchored(cur.sum)
       /\ job.at = "timer" => job.why = "periodic"
       /\ job.at = "tick" => mode = "direct" /\ job.why \in {"initial", "rollover"}
  /\ pc \in {"snap", "put"} => job.obj \in Objects /\ (Anchored(job.obj.sum) => job.obj.max > 0)
  /\ pc \in {"read", "put"} => job.at = "tick" /\ job.salt \in Nat

-----------------------------------------------------------------------------
\* The task is going to read from the cursor.
InUse ==
  \/ pc \in {"open", "idle", "tick", "read", "put", "cached", "drain", "closing"}
  \/ pc \in {"encode", "snap"} /\ job.at = "tick"

CursorTied ==
  Anchored(cur.sum) /\ InUse =>
    /\ Tied(db, wal, cur.sum, cur.off, cur.salt)
    /\ mode = "direct" /\ cur.salt = None => cur.off = 0
    /\ mode = "cache" => cur.salt = None \/ (wal.open /\ cur.salt = wal.salt)
    /\ pc \in {"encode", "snap"} => cur.salt # None
    /\ pc = "read" => /\ job.salt <= wal.salt /\ cur.salt \in {None, job.salt}
                      /\ cur.off = 0 => wal.open /\ job.salt = wal.salt

JobTied ==
  /\ pc = "snap" => Anchored(job.obj.sum) /\ Tied(db, wal, job.obj.sum, 0, None)
  /\ pc = "put" /\ Anchored(job.obj.sum) => Tied(db, wal, job.obj.sum, job.off, job.salt)

TaskSound ==
  SoundSum(cur.sum) /\ (pc \in {"snap", "put"} => SoundObject(job.obj))

\* Neither caveat of NoWrongRestore applies.
Spared == "unguarded" \notin caveats /\ "scattered" \notin caveats

WatchInv ==
  /\ DatabaseOK /\ StoreOK /\ TaskOK
  /\ Spared => layout = "packed" /\ CursorTied /\ JobTied /\ StoreSound /\ TaskSound

=============================================================================
