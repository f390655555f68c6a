------------------------------ MODULE OwnedTip -------------------------------
(***************************************************************************)
(* The inductive invariants behind the durable log of OwnedStream, and the *)
(* conditions they hold under: the replicator's cursor is the tip of the   *)
(* chain a restore walks (TipInv), and what an operation acknowledges is   *)
(* at or below it (QuietInv).                                              *)
(***************************************************************************)
EXTENDS OwnedStream

(* Which faults there are.                                                  *)

\* No checkpoint of the replicator ends busy.
NeverBusy == \A b \in Budgets : b["busy"] = 0

\* No checkpoint of ours ends busy, and the process is not stopped, or it is
\* stopped once and fails in no other way.
StopsAlone ==
  \A b \in Budgets : /\ b["busy"] = 0
                     /\ b["stop"] > 0 => b["stop"] = 1 /\ b["put"] = 0 /\ b["save"] = 0 /\ b["tick"] = 0

\* Beside StopsAlone, no put of an object fails or loses its answer.
PutsSucceed == StopsAlone /\ \A b \in Budgets : b["put"] = 0

-----------------------------------------------------------------------------
(* The version a restore is sure to contain, as a function of what is stored. *)

\* The checksum a restore holds at s, when it starts at snapshot t.
SumIn(sn, in, t, s) == IF s = t THEN sn[t].sum ELSE in[s]

\* A restore to the target starts at t, the newest snapshot, and ends at n.
Walks(sn, in, target, t, n) ==
  /\ t \in 1 .. target /\ n \in t .. target
  /\ sn[t] # None
  /\ \A s \in t + 1 .. target : sn[s] = None /\ (in[s] # None <=> s <= n)
  /\ \A s \in t + 1 .. n : in[s].pre = SumIn(sn, in, t, s - 1)

WalksTo(sn, in, target) ==
  {r \in (1 .. target) \X (1 .. target) : Walks(sn, in, target, r[1], r[2])}

VersionIn(sn, in, target) ==
  IF WalksTo(sn, in, target) = {} THEN 0
  ELSE LET r == CHOOSE r \in WalksTo(sn, in, target) : TRUE
       IN  Floor(SumIn(sn, in, r[1], r[2]))

\* The chain behind a snapshot comes to the cursor m, with its checksum.
Reaches(m, sn, in) ==
  \E t \in 1 .. m.seq :
    /\ sn[t] # None
    /\ \A s \in t + 1 .. m.seq : sn[s] = None /\ in[s] # None /\ in[s].pre = SumIn(sn, in, t, s - 1)
    /\ SumIn(sn, in, t, m.seq) = m.sum

\* ... and one object is stored behind it at most, which follows it.
Tip(m, sn, in) ==
  /\ m.seq \in Seqs /\ Reaches(m, sn, in)
  /\ \A s \in Seqs : s > m.seq + 1 => sn[s] = None /\ in[s] = None
  /\ m.seq + 1 \in Seqs /\ in[m.seq + 1] # None => in[m.seq + 1].pre = m.sum

\* No restore point gets older.
Grows(sn, in, sn2, in2) ==
  \A target \in 0 .. MaxSeq : VersionIn(sn, in, target) <= VersionIn(sn2, in2, target)

-----------------------------------------------------------------------------
(* The cursor of the replicator is the tip of the chain.                    *)

\* A snapshot behind a cursor belongs to a newer WAL than the cursor does.
Sealed(m) == m.seq + 1 \in Seqs /\ snap[m.seq + 1] # None => ~(HasHeader /\ m.salt = salt)

NothingAbove(m) == \A s \in Seqs : s > m.seq => snap[s] = None /\ incr[s] = None

\* The tip is where the replicator continues: in memory, or in state.json when it
\* is stopped.
Tips ==
  /\ pc = "stopped" /\ stateJson # None => Tip(stateJson, snap, incr) /\ Sealed(stateJson)
  /\ pc # "stopped" /\ (op = "add" => pc = "save") => Tip(mem, snap, incr)
  /\ pc \in {"idle", "publish", "save"} => Sealed(mem)

\* The first snapshot of a lineage is at sequence number 1, and `add' is behind it.
Founding ==
  op = "add" =>
    /\ stateJson = None
    /\ pc \in {"checkpoint", "reacquire", "encode", "upload", "save"}
    /\ \A s \in Seqs : incr[s] = None /\ (s # 1 => snap[s] = None)
    /\ mem.seq = IF pc = "save" THEN 1 ELSE 0

\* Everything published so far is in a file at version lo.
CoveredBy(lo) ==
  mem.sum.ver <= lo /\ \A s \in Seqs : incr[s] # None => incr[s].ver <= lo

\* A snapshot is read from a file that has all that was published before it.
SnapshotNewer ==
  /\ pc = "reacquire" => CoveredBy(base)
  /\ pc = "encode" => CoveredBy(job.lo)
  /\ pc = "upload" => CoveredBy(job.obj.sum.lo)

\* As long as a stop is still to come nothing else fails: the first WAL after the
\* snapshot of `add' stays, and state.json is one incremental behind at most.
Calm ==
  budget["stop"] > 0 =>
    /\ budget["stop"] = 1 /\ budget["put"] = 0 /\ budget["save"] = 0 /\ budget["tick"] = 0
    /\ pc = "stopped" => stateJson = None
    /\ pc # "stopped" /\ op # "add" =>
         /\ pc \in {"idle", "publish", "save"} /\ mem.salt = salt
         /\ NothingAbove(mem)
         /\ pc # "save" => mem.seq = stateJson.seq /\ mem.sum = stateJson.sum
         /\ pc = "save" =>
              /\ mem.seq = stateJson.seq + 1 /\ stateJson.seq \in Seqs
              /\ Reaches(stateJson, snap, incr)
              /\ incr[mem.seq] = mem.sum /\ mem.sum.pre = stateJson.sum /\ snap[mem.seq] = None

\* What holds at the awaits, beside StreamInv.
Awaits ==
  /\ mem # None /\ (pc = "upload" => job.obj # None)
  /\ stateJson = None => pc = "stopped" \/ op = "add"
  /\ pc = "stopped" => op = "none"
  /\ op = "remove" => budget["stop"] = 0
  /\ pc \in {"idle", "publish", "save"} => HasHeader /\ pin > 0
  /\ pc \in {"publish", "save"} => mem.salt = salt

\* The inductive invariant behind the durable log.
TipInv == RestoreInv /\ Tips /\ Founding /\ SnapshotNewer /\ Calm /\ Awaits

-----------------------------------------------------------------------------
(* What an acknowledgement promises, when no put fails.                     *)

\* No snapshot is behind a cursor.
Above(m) == \A s \in Seqs : s > m.seq => snap[s] = None

\* An incremental behind a cursor is the one the intent i was recorded for.
Recorded(m, i) ==
  m.seq + 1 \in Seqs /\ incr[m.seq + 1] # None => i = PublishIntent(m.seq + 1, m.sum, incr[m.seq + 1])

\* The next snapshot's sequence number is free.
Unblocked ==
  /\ pc # "stopped" => Above(mem)
  /\ pc = "stopped" /\ stateJson # None => Above(stateJson)

\* The next incremental's sequence number is free, or taken by what the replicator
\* recorded before the stop.
Ours ==
  /\ pc = "idle" => Recorded(mem, intent)
  /\ pc = "stopped" /\ stateJson # None => Recorded(stateJson, intent)
  /\ pc = "publish" =>
       Recorded(mem, job.prior) /\ intent = PublishIntent(mem.seq + 1, mem.sum, job.obj)
  /\ pc = "save" =>
       /\ mem.seq + 1 \in Seqs => incr[mem.seq + 1] = None
       /\ op # "add" /\ budget["stop"] > 0 => intent = PublishIntent(mem.seq, mem.sum.pre, mem.sum)

\* The running chain is the one at the offset, so no batch looks torn.
Chained ==
  /\ stateJson # None => ChainMatches(stateJson)
  /\ pc \in {"idle", "save"} => ChainMatches(mem)
  /\ pc = "publish" => mem.chain = job.off

\* What the operation was asked to ship is in what it is about to store.
Goals ==
  /\ pc = "publish" => job.goal <= job.obj.ver
  /\ pc = "save" => job.goal <= Floor(mem.sum)
  /\ pc = "checkpoint" => job.goal <= committed
  /\ pc = "reacquire" => job.goal <= base
  /\ pc = "encode" => job.goal <= job.lo
  /\ pc = "upload" => job.goal <= job.obj.sum.lo

Quiet == Unblocked /\ Ours /\ Chained /\ Goals

\* The inductive invariant behind FlushIsDurable and NoSelfEquivocation.
QuietInv == TipInv /\ Quiet /\ budget["put"] = 0 /\ refused = {} /\ FlushIsDurable

=============================================================================
