--------------------------- MODULE LevelCompaction ---------------------------
(***************************************************************************)
(* Leveled compaction of a backup (walrust-core: compaction/, driven by    *)
(* watch_independent.rs).  One task publishes L0 files, each covering the  *)
(* transactions min..max, and snapshots, each of which consumes a          *)
(* transaction number of its own.  After each sync it may merge a run of   *)
(* consecutive files of one level into one file of the next level, and     *)
(* only then delete them, file by file.  Storage requests fail, writes     *)
(* tear, and the task crashes between any two requests.                    *)
(*                                                                         *)
(* The stream is one checksum chain: a file continues from the chain value *)
(* at min - 1, because a restart re-anchors with a snapshot.               *)
(***************************************************************************)
EXTENDS Integers, FiniteSets, FiniteSetsExt, Sequences

CONSTANTS
  None,
  Spans,        \* how many transaction numbers one L0 file may cover
  L1Batches,    \* values of l1_batch the operator may configure at a start
  L2Batch,      \* l2_batch
  Budgets       \* mixes of faults and environment steps

\* Transactions a sync publishes; crashes; failed storage requests of the
\* compactor; merged objects that do not read back; whether keep_fine_window is set
\* at all; and the largest l1_batch that is configured.
CompactionKinds == {"seq", "restart", "op", "torn", "window", "batch"}

ASSUME BoundsAssumption ==
  /\ Spans \subseteq Nat \ {0} /\ L1Batches \subseteq Nat \ {0} /\ L2Batch \in Nat \ {0}
  /\ \A b \in Budgets : \A k \in CompactionKinds : b[k] \in Nat

VARIABLES
  head,     \* newest transaction number published
  points,   \* ends of the L0 files ever published
  snaps,    \* snapshots in storage, by the transaction they cover
  files,    \* files in storage, by level
  aged,     \* L0 files that end at or below this are older than keep_fine_window
  batch,    \* l1_batch of the running process
  trig,     \* CompactionTriggers, None until seeded
  pc,       \* "idle", "tick", "list", "drop", "write", "readback", "delete", "down"
  job,      \* the compaction in progress: level, output, sources still to delete
  refused,  \* OverlappingExisting was returned
  budget

vars == <<head, points, snaps, files, aged, batch, trig, pc, job, refused, budget>>

Levels == 0 .. 2

\* parts: the transactions whose pages are folded into the file.
File(min, max, parts, sound) == [min |-> min, max |-> max, parts |-> parts, sound |-> sound]

NoFile == File(0, 0, {}, FALSE)

\* level: source level; out: the merged file; old: an unsound file in its place;
\* del: sources to delete, in listing order; count: how many there were;
\* produced: the sync before this tick reported frames.
Job(level, out, old, del, count, produced) ==
  [level |-> level, out |-> out, old |-> old, del |-> del, count |-> count,
   produced |-> produced]

NoJob == Job(0, NoFile, NoFile, <<>>, 0, FALSE)

SpendMany(k, n) == budget[k] >= n /\ budget' = [budget EXCEPT ![k] = @ - n]
Spend(k) == SpendMany(k, 1)

-----------------------------------------------------------------------------
(* The planning functions of engine.rs.                                     *)

\* list_level: ascending by (min, max).
Listing(S) ==
  LET before(f) == {g \in S : g.min < f.min \/ (g.min = f.min /\ g.max < f.max)}
  IN  [i \in 1 .. Cardinality(S) |-> CHOOSE f \in S : Cardinality(before(f)) = i - 1]

Adjacent(s, i) == s[i].max + 1 = s[i + 1].min

\* Length of the contiguous run from i, capped at n files.
RunLength(s, i, n) ==
  Max({k \in 1 .. n : i + k - 1 <= Len(s) /\ \A j \in i .. i + k - 2 : Adjacent(s, j)})

\* The first run worth merging, as a sequence of files; empty if there is none.
ContiguousBatch(s, n) ==
  LET starts == {i \in 1 .. Len(s) : RunLength(s, i, n) >= 2 \/ n = 1}
  IN  IF starts = {} THEN <<>>
      ELSE LET i == Min(starts) IN SubSeq(s, i, i + RunLength(s, i, n) - 1)

\* The longest prefix of a listing that is older than keep_fine_window.
EligiblePrefix(level, s) ==
  IF level > 0 \/ budget["window"] = 0 THEN s
  ELSE SubSeq(s, 1, Max({n \in 0 .. Len(s) : \A i \in 1 .. n : s[i].max <= aged}))

Within(f, m) == m.min <= f.min /\ f.max <= m.max

Overlaps(f, g) == f.min <= g.max /\ g.min <= f.max

TilesExactly(S, m) ==
  LET s == Listing(S)
  IN  /\ s[1].min = m.min /\ s[Len(s)].max = m.max
      /\ \A i \in 1 .. Len(s) - 1 : Adjacent(s, i)

\* Mutant: interrupted deletions are not finished.
NoLeftovers(sources, targets) == {}

\* verify_covers: the file reads back, decodes and is a merged one.
VerifyCovers(m) == m.sound

\* converge_interrupted_delete: sources inside a sound merged file that no
\* longer tile it.
Leftovers(sources, targets) ==
  UNION {LET subs == {f \in sources : Within(f, m)}
         IN  IF subs # {} /\ VerifyCovers(m) /\ ~TilesExactly(subs, m) THEN subs ELSE {}
         : m \in targets}

\* merge_changesets.
Merged(run) ==
  File(run[1].min, run[Len(run)].max, UNION {run[i].parts : i \in 1 .. Len(run)}, TRUE)

-----------------------------------------------------------------------------
\* What l1_batch may be configured at a start.
Configured == {b \in L1Batches : b <= budget["batch"]}

Init ==
  /\ head = 1 /\ points = {} /\ snaps = {1}
  /\ files = [l \in Levels |-> {}]
  /\ budget \in Budgets
  /\ aged = 0 /\ batch \in Configured /\ trig = None
  /\ pc = "idle" /\ job = NoJob /\ refused = FALSE

(* The sync loop of the task.                                               *)
PublishL0 ==
  /\ pc = "idle"
  /\ \E n \in Spans :
       /\ SpendMany("seq", n)
       /\ head' = head + n
       /\ files' = [files EXCEPT ![0] = @ \cup {File(head + 1, head + n, head + 1 .. head + n, TRUE)}]
  /\ points' = points \cup {head'}
  /\ pc' = "tick" /\ job' = [NoJob EXCEPT !.produced = TRUE]
  /\ UNCHANGED <<snaps, aged, batch, trig, refused>>

\* A rollover publishes a snapshot and reports one frame.
PublishRollover ==
  /\ pc = "idle" /\ Spend("seq")
  /\ head' = head + 1 /\ snaps' = snaps \cup {head + 1}
  /\ pc' = "tick" /\ job' = [NoJob EXCEPT !.produced = TRUE]
  /\ UNCHANGED <<points, files, aged, batch, trig, refused>>

SyncIdle ==
  /\ pc = "idle"
  /\ pc' = "tick" /\ job' = NoJob
  /\ UNCHANGED <<head, points, snaps, files, aged, batch, trig, refused, budget>>

Age ==
  /\ budget["window"] > 0 /\ aged < head /\ aged' = aged + 1
  /\ UNCHANGED <<head, points, snaps, files, batch, trig, pc, job, refused, budget>>

(* CompactionTriggers: counts of the files that are not merged yet.         *)

CountLevel(l) == Cardinality(files[l])
Seeded        == [l0 |-> CountLevel(0), l1 |-> CountLevel(1)]

OnL0Written(t) == [t EXCEPT !.l0 = @ + 1]

ShouldCompactL0(t) == t.l0 >= batch
ShouldCompactL1(t) == t.l1 >= L2Batch

\* The next merge after the one at `level', if its count is reached.
Proceed(level, t) ==
  IF level < 1 /\ ShouldCompactL1(t)
  THEN pc' = "list" /\ job' = [NoJob EXCEPT !.level = 1]
  ELSE pc' = "idle" /\ job' = NoJob

\* maybe_compact_legacy: seed the counts, record the file just produced.
Tick ==
  /\ pc = "tick"
  /\ LET seed == IF trig = None THEN Seeded ELSE trig
         t    == IF job.produced THEN OnL0Written(seed) ELSE seed
     IN  /\ trig' = t
         /\ IF ShouldCompactL0(t) THEN pc' = "list" /\ job' = NoJob ELSE Proceed(0, t)
  /\ UNCHANGED <<head, points, snaps, files, aged, batch, refused, budget>>

\* Mutant: the L1 file just written is not counted.
AfterMergeUncounted(level, count) ==
  LET less(n) == IF n < count THEN 0 ELSE n - count
  IN  IF level = 0 THEN [trig EXCEPT !.l0 = less(@)] ELSE [trig EXCEPT !.l1 = less(@)]

\* on_l0_to_l1_merged, on_l1_to_l2_merged.
AfterMerge(level, count) ==
  LET less(n) == IF n < count THEN 0 ELSE n - count
  IN  IF level = 0 THEN [l0 |-> less(trig.l0), l1 |-> trig.l1 + 1]
                   ELSE [trig EXCEPT !.l1 = less(@)]

(* run_level_compaction.                                                    *)
Sources == files[job.level]
Targets == files[job.level + 1]
Wanted  == IF job.level = 0 THEN batch ELSE L2Batch
Run     == LET e == EligiblePrefix(job.level, Listing(Sources))
           IN  IF Len(e) < Wanted THEN <<>> ELSE ContiguousBatch(e, Wanted)

StartDelete(del) ==
  /\ pc' = "delete" /\ job' = Job(job.level, NoFile, NoFile, del, Len(del), FALSE)
  /\ UNCHANGED refused

\* An interrupted deletion is finished before anything is selected.
FinishDeletion ==
  /\ pc = "list" /\ Leftovers(Sources, Targets) # {}
  /\ StartDelete(Listing(Leftovers(Sources, Targets)))
  /\ UNCHANGED <<head, points, snaps, files, aged, batch, trig, budget>>

NothingToMerge ==
  /\ pc = "list" /\ Leftovers(Sources, Targets) = {} /\ Run = <<>>
  /\ Proceed(job.level, trig)
  /\ UNCHANGED <<head, points, snaps, files, aged, batch, trig, refused, budget>>

\* A file that overlaps the range of the run, and is not that range, is an error;
\* a sound one with that range is a merge that crashed before its deletions; an
\* unsound one is replaced.
SelectRun ==
  /\ pc = "list" /\ Leftovers(Sources, Targets) = {} /\ Run # <<>>
  /\ LET out   == Merged(Run)
         hits  == {m \in Targets : Overlaps(m, out)}
         exact == {m \in hits : m.min = out.min /\ m.max = out.max}
         todo  == Job(job.level, out, NoFile, Run, Len(Run), FALSE)
     IN  \/ /\ hits # exact
            /\ pc' = "idle" /\ job' = NoJob /\ refused' = TRUE
         \/ /\ hits = {}
            /\ pc' = "write" /\ job' = todo /\ UNCHANGED refused
         \/ \E m \in exact :
              /\ hits = exact /\ m.sound
              /\ StartDelete(Run)
         \/ \E m \in exact :
              /\ hits = exact /\ ~m.sound
              /\ pc' = "drop" /\ job' = [todo EXCEPT !.old = m] /\ UNCHANGED refused
  /\ UNCHANGED <<head, points, snaps, files, aged, batch, trig, budget>>

\* The read that verifies a file in place fails: it counts as unsound.
VerifyFails ==
  /\ pc = "list" /\ Leftovers(Sources, Targets) = {} /\ Run # <<>>
  /\ LET out == Merged(Run) IN
     \E m \in Targets :
       /\ m.min = out.min /\ m.max = out.max /\ Spend("op")
       /\ \A g \in Targets \ {m} : ~Overlaps(g, out)
       /\ pc' = "drop" /\ job' = Job(job.level, out, m, Run, Len(Run), FALSE)
  /\ UNCHANGED <<head, points, snaps, files, aged, batch, trig, refused>>

DropUnsound ==
  /\ pc = "drop"
  /\ files' = [files EXCEPT ![job.level + 1] = @ \ {job.old}]
  /\ pc' = "write" /\ job' = [job EXCEPT !.old = NoFile]
  /\ UNCHANGED <<head, points, snaps, aged, batch, trig, refused, budget>>

\* Every source is still there, and decodes.
Readable == \A i \in DOMAIN job.del : job.del[i] \in Sources /\ job.del[i].sound

WriteMerged ==
  /\ pc = "write" /\ Readable
  /\ \/ /\ files' = [files EXCEPT ![job.level + 1] = @ \cup {job.out}]
        /\ UNCHANGED <<job, budget>>
     \/ LET torn == [job.out EXCEPT !.sound = FALSE] IN
        /\ Spend("torn")
        /\ files' = [files EXCEPT ![job.level + 1] = @ \cup {torn}]
        /\ job' = [job EXCEPT !.out = torn]
  /\ pc' = "readback"
  /\ UNCHANGED <<head, points, snaps, aged, batch, trig, refused>>

\* Mutant: the merged file is not verified.
ReadBackUnverified ==
  /\ pc = "readback" /\ StartDelete(job.del)
  /\ UNCHANGED <<head, points, snaps, files, aged, batch, trig, budget>>

\* What does not read back is deleted, and the sources are kept.
ReadBack ==
  /\ pc = "readback"
  /\ IF job.out.sound
     THEN StartDelete(job.del) /\ UNCHANGED files
     ELSE /\ files' = [files EXCEPT ![job.level + 1] = @ \ {job.out}]
          /\ pc' = "idle" /\ job' = NoJob /\ UNCHANGED refused
  /\ UNCHANGED <<head, points, snaps, aged, batch, trig, budget>>

DeleteSource ==
  /\ pc = "delete"
  /\ files' = [files EXCEPT ![job.level] = @ \ {Head(job.del)}]
  /\ IF Len(job.del) > 1
     THEN job' = [job EXCEPT !.del = Tail(@)] /\ UNCHANGED <<trig, pc>>
     ELSE LET t == AfterMerge(job.level, job.count)
          IN  trig' = t /\ Proceed(job.level, t)
  /\ UNCHANGED <<head, points, snaps, aged, batch, refused, budget>>

\* A source cannot be read or merged: the compaction is abandoned until the next tick.
SourceFails ==
  /\ pc = "write" /\ ~Readable
  /\ pc' = "idle" /\ job' = NoJob
  /\ UNCHANGED <<head, points, snaps, files, aged, batch, trig, refused, budget>>

\* And so it is if a storage request fails or its answer is lost.
RequestFails ==
  /\ pc \in {"list", "drop", "write", "readback", "delete"} /\ Spend("op")
  /\ \/ UNCHANGED files
     \/ pc = "write" /\ Readable /\ files' = [files EXCEPT ![job.level + 1] = @ \cup {job.out}]
     \/ pc = "delete" /\ files' = [files EXCEPT ![job.level] = @ \ {Head(job.del)}]
  /\ pc' = "idle" /\ job' = NoJob
  /\ UNCHANGED <<head, points, snaps, aged, batch, trig, refused>>

Crash ==
  /\ pc # "down" /\ Spend("restart")
  /\ pc' = "down" /\ job' = NoJob /\ trig' = None
  /\ UNCHANGED <<head, points, snaps, files, aged, batch, refused>>

\* Mutant: the merged levels are not listed.
DiscoveredL0Head == Max(snaps \cup {f.max : f \in files[0]})

\* discover_legacy_state: the newest transaction over L0, snapshots and levels.
DiscoveredHead == Max(snaps \cup {f.max : f \in UNION {files[l] : l \in Levels}})

\* anchor_stream_on_startup.
Restart ==
  /\ pc = "down"
  /\ head' = DiscoveredHead + 1 /\ snaps' = snaps \cup {DiscoveredHead + 1}
  /\ batch' \in Configured
  /\ pc' = "idle"
  /\ UNCHANGED <<points, files, aged, trig, job, refused, budget>>

Compact ==
  \/ Tick \/ FinishDeletion \/ NothingToMerge \/ SelectRun
  \/ DropUnsound \/ WriteMerged \/ SourceFails \/ ReadBack \/ DeleteSource

Next ==
  \/ PublishL0 \/ PublishRollover \/ SyncIdle \/ Age
  \/ Compact \/ VerifyFails \/ RequestFails
  \/ Crash \/ Restart

Spec == Init /\ [][Next]_vars

\* Every request is answered, so that each tick ends; the poll timer keeps
\* ticking, time passes, and the process is started again.
FairSpec ==
  /\ Spec
  /\ []<>(pc \in {"idle", "down"})
  /\ WF_vars(SyncIdle) /\ WF_vars(Age) /\ WF_vars(Restart)

-----------------------------------------------------------------------------
(* Restore (planner.rs, compaction/restore.rs).                             *)

Stored == UNION {files[l] : l \in Levels}

\* The newest snapshot at or before the target.
Floor(target) == Max({s \in snaps : s <= target})

\* The file of a pool that goes on behind c: the one that starts at the next
\* transaction and reaches furthest without overshooting; of two with the same
\* range the one of the higher level.
Pick(pool, c, target) ==
  LET fit == {lf \in pool : lf[2].min = c + 1 /\ lf[2].max <= target}
      far == {lf \in fit : \A g \in fit : g[2].max <= lf[2].max}
  IN  {lf \in far : \A g \in far : g[1] <= lf[1]}

\* plan_restore, over a pool of files and their levels, from the snapshot on; None
\* if no file goes on.
Plan(pool, floor, target) ==
  LET plan[c \in floor .. target] ==
        IF c = target THEN {}
        ELSE IF Pick(pool, c, target) = {} THEN None
        ELSE LET lf   == CHOOSE lf \in Pick(pool, c, target) : TRUE
                 rest == plan[lf[2].max]
             IN  IF rest = None THEN None ELSE {lf} \cup rest
  IN  IF floor >= target THEN {} ELSE plan[floor]

\* How far it gets.
Reach(pool, floor, target) ==
  LET reach[c \in floor .. target] ==
        IF Pick(pool, c, target) = {} THEN c
        ELSE reach[(CHOOSE lf \in Pick(pool, c, target) : TRUE)[2].max]
  IN  reach[floor]

Pool == UNION {{l} \X files[l] : l \in Levels}

PlanRestore(target) == Plan(Pool, Floor(target), target)

\* apply_plan: every file of the plan is read and verified.
Restorable(target) ==
  \A plan \in {PlanRestore(target)} : plan # None /\ \A lf \in plan : lf[2].sound

MaxAvailable == Max({Max(snaps)} \cup {f.max : f \in Stored})

-----------------------------------------------------------------------------
\* Files are ranges of one level, and the compaction in progress has its types.
TypeOK ==
  /\ head \in Nat \ {0} /\ aged \in 0 .. head /\ batch \in L1Batches
  /\ snaps \subseteq 1 .. head /\ points \subseteq 1 .. head
  /\ \A f \in Stored : f.min \in 1 .. f.max /\ f.max <= head /\ f.parts \subseteq 1 .. head
  /\ trig # None => trig.l0 \in Nat /\ trig.l1 \in Nat
  /\ pc \in {"idle", "tick", "list", "drop", "write", "readback", "delete", "down"}
  /\ job.level \in {0, 1} /\ (pc = "delete" => job.del # <<>>)

\* The newest state, and each sync younger than keep_fine_window.
KeptPoints ==
  {MaxAvailable} \cup {p \in points \cup snaps : budget["window"] > 0 /\ p > aged}

\* A restore that succeeds applies every transaction behind its snapshot, once.  And
\* whatever request failed and wherever the task died, the restores of KeptPoints do
\* succeed, unless a torn merged file is still in the way: no source is deleted before
\* what replaces it is there, and none inside the window.
RestoreExact ==
  /\ \A target \in Min(snaps) .. head :
       \A plan \in {PlanRestore(target)} :
         plan # None /\ (\A lf \in plan : lf[2].sound) =>
           /\ UNION {lf[2].parts : lf \in plan} = Floor(target) + 1 .. target
           /\ \A lf, g \in plan : lf # g => lf[2].parts \cap g[2].parts = {}
  /\ (\A f \in Stored : f.sound) => \A p \in KeptPoints : Restorable(p)

\* The counts that trigger a merge have not fallen behind the files there are.
TriggersCoverFiles ==
  pc = "idle" /\ trig # None =>
    trig.l0 >= Cardinality(files[0]) /\ trig.l1 + 1 >= Cardinality(files[1])

\* A merge that was cut short before its deletions, and not of as many files as are
\* merged now: it took what there was behind a lone file, and the run has grown since;
\* or l1_batch has been changed.
Superseded(sources, n, m) ==
  LET subs == {f \in sources : Within(f, m)}
  IN  subs # {} /\ TilesExactly(subs, m) /\ Cardinality(subs) # n

\* "A crash between 5 and 7 leaves harmless overlap; re-running converges via step 2":
\* no compaction is refused by what an earlier one left behind.  Does not hold (README,
\* section 6).
RerunConverges == ~refused

\* But only a superseded merge is ever in the way of a compaction: any other deletion
\* that was cut short is finished or repeated, whatever was published since
\* (find_existing_merged, converge_interrupted_delete).  And none is forgotten: the
\* counts kept in memory call for it (CompactionTriggers).
CompactionConverges ==
  /\ pc = "list" /\ Leftovers(Sources, Targets) = {} /\ Run # <<>> =>
       LET out == Merged(Run) IN
       \A m \in Targets :
         Overlaps(m, out) /\ (m.min # out.min \/ m.max # out.max) => Superseded(Sources, Wanted, m)
  /\ TriggersCoverFiles

\* L0 files that can be merged.
Backlog ==
  LET s == Listing(files[0])
  IN  Len(s) >= batch /\ ContiguousBatch(s, batch) # <<>>

\* Mergeable L0 files are merged in the end, unless a superseded merge stays in the way.
BacklogDrains ==
  []<>(~Backlog) \/ <>[](\E m \in files[1] : Superseded(files[0], batch, m))

=============================================================================
