--------------------------- MODULE FleetInvariants ---------------------------
(***************************************************************************)
(* The inductive invariants of LegacyFleet.                                *)
(*                                                                         *)
(* NothingLost is not inductive.  A source may go only because the level   *)
(* above has a sound file with its transactions, which has to be carried   *)
(* from the listing, or the read-back, to each of the deletions.  And a    *)
(* file that is sound may be replaced, if the read that verifies it fails: *)
(* then what is to be merged has to be stored below, and there may itself  *)
(* be torn.                                                                *)
(*                                                                         *)
(* Nor is ReplicaExact a property of single steps.  A poll works from      *)
(* listings, each older than the next, and a stop between the rename and   *)
(* the state file leaves the file ahead of the number from which the       *)
(* replica goes on.                                                        *)
(***************************************************************************)
EXTENDS LegacyFleet

Files == [min : Nat, max : Nat, parts : SUBSET Nat, sound : BOOLEAN]

\* A file holds the transactions of its range, and no other.
IsRange(f) == f \in Files /\ 1 <= f.min /\ f.min <= f.max /\ f.parts = f.min .. f.max

\* A level: finitely many files, no two of which overlap.
IsLevel(S) ==
  /\ IsFiniteSet(S)
  /\ \A f \in S : IsRange(f)
  /\ \A f, g \in S : f # g => ~Overlaps(f, g)

\* Consecutive files without a hole between them.
IsRun(r) == \A i \in 1 .. Len(r) - 1 : Adjacent(r, i)

-----------------------------------------------------------------------------
(* What is stored.                                                          *)

Jobs ==
  [level : {0, 1}, out : Files, old : Files, del : Seq(Files), count : Nat, produced : BOOLEAN]

\* t is in a snapshot, was dropped, or is in a file of level l; in a sound one.
Held(l, t)    == t \in snaps \cup dropped \/ \E f \in files[l] : t \in f.parts
Covered(l, t) == t \in snaps \cup dropped \/ \E f \in files[l] : f.sound /\ t \in f.parts

\* What a torn L1 file should have is still below it.
StoreInv ==
  /\ head \in Nat \ {0} /\ batch \in L1Batches
  /\ snaps \subseteq 1 .. head /\ snaps # {}
  /\ DOMAIN files = Levels
  /\ \A l \in Levels : IsLevel(files[l]) /\ \A f \in files[l] : f.max <= head
  /\ \A f \in files[0] : f.sound
  /\ \A f \in files[1] : f.sound \/ \A t \in f.parts : Held(0, t)

\* Before the merged file is written its transactions are stored below, and nothing
\* else is in its place; once it has been read back, and until the last source is
\* deleted, they are stored above.
JobInv ==
  /\ job \in Jobs
  /\ pc \in {"drop", "write", "readback", "delete"} => Len(job.del) >= 1
  /\ pc \in {"drop", "write", "readback"} =>
       /\ IsRange(job.out) /\ job.out.max <= head
       /\ \A i \in 1 .. Len(job.del) : job.del[i].parts \subseteq job.out.parts
  /\ pc \in {"drop", "write"} =>
       /\ \A t \in job.out.parts : Held(job.level, t)
       /\ \A g \in Targets : Overlaps(g, job.out) => pc = "drop" /\ g = job.old
  /\ pc = "drop" => job.old.min = job.out.min /\ job.old.max = job.out.max
  /\ pc = "readback" /\ job.out.sound =>
       \A t \in job.out.parts : Covered(job.level + 1, t)
  /\ pc = "delete" =>
       \A i \in 1 .. Len(job.del) : \A t \in job.del[i].parts : Covered(job.level + 1, t)

\* Retention has listed snapshots that are still there, and spares one of them.
PruneInv ==
  prune # None =>
    /\ DOMAIN prune = {"pc", "snaps", "keep", "del"}
    /\ prune.pc = "plan" => prune.snaps \subseteq snaps /\ prune.snaps # {}
    /\ prune.pc # "plan" => \E s \in snaps : \A d \in prune.del : d[1] = 0 => s \notin d[2].parts

KeepsInv == StoreInv /\ JobInv /\ PruneInv /\ NothingLost

Merging == {"drop", "write", "readback", "delete"}

-----------------------------------------------------------------------------
(* Retention's numbers, and the replica.                                    *)

\* What retention has deleted, or will, is below the newest transaction, and no
\* snapshot has the number of a live file.
NumbersInv ==
  /\ \A t \in dropped : t \in Nat /\ t < head
  /\ prune # None =>
       /\ \A s \in prune.snaps : s \in Nat /\ s <= head
       /\ prune.keep \subseteq prune.snaps /\ (prune.pc # "plan" => prune.keep # {})
       /\ \A d \in prune.del : \A t \in d[2].parts : t \in Nat /\ t < head
  /\ \A f \in files[0] : f.min >= 2 /\ \A s \in snaps : s < f.min \/ f.max < s

\* What a step may do to what a replica lists: numbers go up, a snapshot goes by
\* retention, and a live file that comes is behind everything.
Moves ==
  /\ head' \in Nat /\ head <= head' /\ dropped \subseteq dropped'
  /\ \A s \in snaps' : s \in snaps \/ (s \in Nat /\ head < s)
  /\ \A s \in snaps : s \in snaps' \cup dropped'
  /\ \A f \in files'[0] :
       f \in files[0] \/ (f.min \in Nat /\ f.max \in Nat /\ head < f.min /\ f.min <= f.max)

Replicas ==
  [txid : Nat, saved : Nat, db : Nat \cup {None}, pc : {"idle", "list", "poll", "save"},
   l0 : SUBSET Files, snaps : SUBSET Nat, more : BOOLEAN]

\* The file is at a snapshot of S, or at one that is gone, or S has none between the
\* state file and the file.
FileAmong(S) ==
  rep.db \in S \cup dropped \/ (rep.saved > 0 /\ \A s \in S : s <= rep.saved \/ rep.db < s)

\* Between polls, and until a step is saved, the replica goes on from its state file.
\* Behind that, a live file ends at the database or later.  A live file that a poll has
\* not listed is behind every snapshot it has.
ReplicaInv ==
  /\ rep \in Replicas
  /\ rep.db # None => rep.db \in 1 .. head
  /\ rep.saved > 0 => rep.db # None /\ rep.saved <= rep.db
  /\ IF rep.pc = "save" THEN rep.db # None /\ rep.txid = rep.db ELSE rep.txid = rep.saved
  /\ rep.db # None => \A f \in files[0] : f.min = rep.saved + 1 => rep.db <= f.max
  /\ rep.db # None /\ rep.saved < rep.db =>
       FileAmong(snaps) /\ (rep.pc \in {"list", "poll"} => FileAmong(rep.snaps))
  /\ \A s \in rep.snaps : 1 <= s /\ s <= head
  /\ \A f \in rep.l0 : IsRange(f)
  /\ rep.pc \in {"poll", "save"} => \A f \in files[0] : f \in rep.l0 \/ \A s \in rep.snaps : s < f.min

\* What ReplicaExact says of a step.
ReplicaStep ==
  /\ rep'.db # Mixed
  /\ rep'.saved > 0 => rep'.db # None /\ rep'.db >= rep'.saved
  /\ rep.db # None => rep'.db >= rep.db \/ (rep.saved < rep.db /\ rep.db \in dropped)

FleetInv == KeepsInv /\ NumbersInv /\ ReplicaInv

=============================================================================
