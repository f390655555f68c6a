----------------------------- MODULE LegacyFleet -----------------------------
(***************************************************************************)
(* What runs beside the writer of a compacted backup: retention (prune.rs, *)
(* run_prune of shadow.rs, plan_legacy_prune, compaction/prune.rs), restore*)
(* (legacy_restore.rs), verification (verify.rs) and a read replica        *)
(* (replicate.rs, legacy_replica.rs).  Each works from listings it makes   *)
(* one after the other, and then reads or deletes objects one by one,      *)
(* while LevelCompaction goes on publishing, merging and deleting.         *)
(*                                                                         *)
(* An object is its range; a database is the number of the transaction it  *)
(* stands at.  Generations are left out: the newest snapshot is the one    *)
(* with the highest transaction.                                           *)
(***************************************************************************)
EXTENDS LevelCompaction

VARIABLES
  prune,     \* retention run under way, None without one
  dropped,   \* transactions whose snapshot or merged file retention has deleted
  rest,      \* restore under way or ended, None before
  ver,       \* verification under way or ended, None before
  rep        \* the replica

fleet == <<prune, dropped, rest, ver, rep>>

\* Retention runs; restores; verifications; whether there is a replica, and its
\* crashes.
FleetKinds == CompactionKinds \cup {"prune", "restore", "verify", "replica", "stop"}

ASSUME FleetAssumption == Budgets \subseteq [FleetKinds -> Nat] /\ None \notin Nat

Mixed == 0   \* pages of different states

\* txid: current_txid; saved: the state file; db: the local file; None without
\* one; pc: "idle", "list", "poll", "save"; l0, snaps: what the poll has listed;
\* more: the poll has applied a file and goes on.
NewReplica ==
  [txid |-> 0, saved |-> 0, db |-> None, pc |-> "idle", l0 |-> {}, snaps |-> {}, more |-> FALSE]

FleetInit ==
  /\ Init
  /\ prune = None /\ dropped = {} /\ rest = None /\ ver = None /\ rep = NewReplica

-----------------------------------------------------------------------------
(* Retention.                                                               *)

\* discover_snapshots_from_s3, and a HEAD of each.
PruneList ==
  /\ prune = None /\ Spend("prune")
  /\ prune' = [pc |-> "plan", snaps |-> snaps, keep |-> {}, del |-> {}]
  /\ UNCHANGED <<head, points, snaps, files, aged, batch, trig, pc, job, refused>>
  /\ UNCHANGED <<dropped, rest, ver, rep>>

\* The snapshot a chain of live files starts from.
BaseForLiveChain(listed, live) ==
  LET first == Min({f.min : f \in live})
      below == {s \in listed : s < first}
  IN  IF live = {} THEN {} ELSE IF below = {} THEN {Min(listed)} ELSE {Max(below)}

\* Mutant: holes in the live chain are not looked at.
NoBridges(listed, live) == {}

\* For each hole in the live chain, the newest snapshot in it.
BridgeSnapshots(listed, live) ==
  UNION {LET before == {g.max : g \in {g \in live : g.min < f.min}}
             inside == {s \in listed : before # {} /\ Max(before) < s /\ s < f.min}
         IN  IF inside = {} THEN {} ELSE {Max(inside)}
         : f \in live}

\* plan_legacy_prune: of what the policy gives up (analyze_retention), the newest
\* snapshot is kept, and those the live files need.
Kept(listed, doomed, live) ==
  listed \ (doomed \ ({Max(listed)} \cup BaseForLiveChain(listed, live)
                                    \cup BridgeSnapshots(listed, live)))

PlanDeletions(next) ==
  /\ prune # None /\ prune.pc = "plan"
  /\ \E doomed \in SUBSET prune.snaps :
       LET keep == Kept(prune.snaps, doomed, files[0])
       IN  prune' = [prune EXCEPT !.pc = next, !.keep = keep,
                                  !.del = {<<0, File(s, s, {s}, TRUE)>> : s \in prune.snaps \ keep}]
  /\ UNCHANGED <<vars, dropped, rest, ver, rep>>

\* The prune command goes on to the levels; run_prune of the watcher does not.
PrunePlan == PlanDeletions("levels")
RunPrunePlan == PlanDeletions("delete")

\* plan_level_prune.
LevelPrune(l, watermark) ==
  {f \in files[l] : f.max < watermark /\ \E g \in files[l] : g.max > f.max}

PruneLevels ==
  /\ prune # None /\ prune.pc = "levels"
  /\ prune' = [prune EXCEPT !.pc = "delete",
                            !.del = @ \cup UNION {{l} \X LevelPrune(l, Min(prune.keep)) : l \in {1, 2}}]
  /\ UNCHANGED <<vars, dropped, rest, ver, rep>>

\* delete_objects, in any order, and it may stop half way; a level number of 0
\* stands for a snapshot.
PruneDelete ==
  /\ prune # None /\ prune.pc = "delete"
  /\ \E d \in prune.del :
       /\ prune' = [prune EXCEPT !.del = @ \ {d}]
       /\ dropped' = dropped \cup d[2].parts
       /\ snaps' = IF d[1] = 0 THEN snaps \ d[2].parts ELSE snaps
       /\ files' = IF d[1] = 0 THEN files ELSE [files EXCEPT ![d[1]] = @ \ {d[2]}]
  /\ UNCHANGED <<head, points, aged, batch, trig, pc, job, refused, budget, rest, ver, rep>>

-----------------------------------------------------------------------------
(* Restore.                                                                 *)

\* discover_legacy_state.  A point in time is one that a sync has made.
RestoreBegin ==
  /\ rest = None /\ Spend("restore")
  /\ \E pit \in points \cup {None} :
       rest' = [pc |-> "list", level |-> 0, pit |-> pit, seen |-> DiscoveredHead, pool |-> {},
                floor |-> 0, target |-> 0, todo |-> {}, got |-> {}, why |-> None]
  /\ UNCHANGED <<head, points, snaps, files, aged, batch, trig, pc, job, refused>>
  /\ UNCHANGED <<prune, dropped, ver, rep>>

\* Mutant: the levels are listed from the top.
GatherDown ==
  /\ rest # None /\ rest.pc = "list"
  /\ rest' = [rest EXCEPT !.pool = @ \cup ({2 - rest.level} \X files[2 - rest.level]),
                          !.level = @ + 1, !.pc = IF rest.level = 2 THEN "plan" ELSE @]
  /\ UNCHANGED <<vars, prune, dropped, ver, rep>>

\* gather_legacy_candidates: one listing per level, from L0 up.
Gather ==
  /\ rest # None /\ rest.pc = "list"
  /\ rest' = [rest EXCEPT !.pool = @ \cup ({rest.level} \X files[rest.level]),
                          !.level = @ + 1, !.pc = IF rest.level = 2 THEN "plan" ELSE @]
  /\ UNCHANGED <<vars, prune, dropped, ver, rep>>

RestoreFails(why) ==
  rest' = [rest EXCEPT !.pc = "failed", !.why = why, !.pool = {}, !.todo = {}, !.got = {}]

\* find_latest_legacy_snapshot chooses among these, or among those at or before a
\* point in time.
Bases(target) == IF rest.pit = None THEN snaps ELSE {s \in snaps : s <= target}

\* PlanError: the plan ends at a merged file that overshoots the target, or below a
\* later snapshot that has absorbed it (refine_gap_with_snapshot_spans), or at a gap.
WhyNoPlan(pool, floor, target) ==
  LET stop == Reach(pool, floor, target)
  IN  IF \E lf \in pool : lf[2].min = stop + 1 THEN "window"
      ELSE IF \E s \in snaps : s >= target THEN "span" ELSE "gap"

\* The base, and the plan from there on.
RestorePlan ==
  /\ rest # None /\ rest.pc = "plan"
  /\ LET latest == Max({rest.seen} \cup {lf[2].max : lf \in rest.pool})
         target == IF rest.pit = None THEN latest ELSE rest.pit
         bases  == Bases(target)
         plan   == Plan(rest.pool, Max(bases), target)
     IN  IF bases = {} THEN RestoreFails("no base")
         ELSE IF plan = None THEN RestoreFails(WhyNoPlan(rest.pool, Max(bases), target))
         ELSE rest' = [rest EXCEPT !.pc = "base", !.floor = Max(bases), !.target = target,
                                   !.todo = plan, !.pool = {}]
  /\ UNCHANGED <<vars, prune, dropped, ver, rep>>

RestoreBase ==
  /\ rest # None /\ rest.pc = "base"
  /\ IF rest.floor \in snaps
     THEN rest' = [rest EXCEPT !.pc = "apply", !.got = {rest.floor}] ELSE RestoreFails("gone")
  /\ UNCHANGED <<vars, prune, dropped, ver, rep>>

\* What is stored under the name of a file.
ObjectsAt(level, f) == {g \in files[level] : g.min = f.min /\ g.max = f.max}

\* The next object of the plan, as it is stored by then.
RestoreApply ==
  /\ rest # None /\ rest.pc = "apply" /\ rest.todo # {}
  /\ LET lf  == CHOOSE lf \in rest.todo : \A g \in rest.todo : lf[2].min <= g[2].min
         now == ObjectsAt(lf[1], lf[2])
     IN  IF now = {} THEN RestoreFails("gone")
         ELSE \E f \in now :
                IF f.sound
                THEN rest' = [rest EXCEPT !.todo = @ \ {lf}, !.got = @ \cup f.parts]
                ELSE RestoreFails("torn")
  /\ UNCHANGED <<vars, prune, dropped, ver, rep>>

\* restore_reached_target.
Reached == rest.floor <= rest.target

RestorePublish ==
  /\ rest # None /\ rest.pc = "apply" /\ rest.todo = {}
  /\ IF Reached THEN rest' = [rest EXCEPT !.pc = "done"] ELSE RestoreFails("overtaken")
  /\ UNCHANGED <<vars, prune, dropped, ver, rep>>

-----------------------------------------------------------------------------
(* Verification.                                                            *)

\* ranges_cover.
RangesCover(lo, hi, ranges) == \A t \in lo .. hi : \E r \in ranges : r.min <= t /\ t <= r.max

\* detect_live_txid_gaps: holes between live files that neither a snapshot nor
\* merged files bridge.
LiveGaps(live, bases, merged) ==
  {f \in live :
     LET before == {g.max : g \in {g \in live : g.min < f.min}}
         next   == Max(before) + 1
         inside == {s \in bases : next <= s /\ s < f.min}
     IN  /\ before # {} /\ next < f.min
         /\ ~RangesCover(IF inside = {} THEN next ELSE Max(inside) + 1, f.min - 1, merged)}

\* Mutant: a hole behind the snapshot is a gap whether it is merged or not.
ChainGapsL0(live, bases, merged) ==
  LET behind == {f \in live : f.max > Max(bases)}
      next(f) == Max({Max(bases)} \cup {g.max : g \in {g \in behind : g.min < f.min}}) + 1
  IN  {f \in behind : f.min # next(f)}

\* verify_ltx_chain: the same behind the newest snapshot.
ChainGaps(live, bases, merged) ==
  LET behind == {f \in live : f.max > Max(bases)}
      next(f) == Max({Max(bases)} \cup {g.max : g \in {g \in behind : g.min < f.min}}) + 1
  IN  {f \in behind : f.min # next(f) /\ ~RangesCover(next(f), f.min - 1, merged)}

\* level, listed: where list_merged_ranges is; merged: what it has found; blind: it has
\* failed.
NewVerification ==
  [pc |-> "list", live |-> {}, snaps |-> snaps, level |-> 1, listed |-> {}, merged |-> {},
   blind |-> FALSE, issues |-> {}]

VerifyError == [NewVerification EXCEPT !.pc = "error", !.snaps = {}]

\* discover_state_from_s3: each snapshot has a generation of its own, and those
\* that come later are not listed.
VerifyState ==
  /\ ver = None /\ Spend("verify")
  /\ ver' = NewVerification
  /\ UNCHANGED <<head, points, snaps, files, aged, batch, trig, pc, job, refused>>
  /\ UNCHANGED <<prune, dropped, rest, rep>>

\* The live files, then those generations; without a snapshot the command ends.
VerifyListing ==
  /\ ver # None /\ ver.pc = "list"
  /\ ver' = IF ver.snaps \cap snaps = {} THEN VerifyError
            ELSE [ver EXCEPT !.pc = "read", !.live = files[0], !.snaps = @ \cap snaps]
  /\ UNCHANGED <<vars, prune, dropped, rest, rep>>

\* Each file is downloaded; one that is gone ends the command.
VerifyFiles ==
  /\ ver # None /\ ver.pc = "read"
  /\ ver' = IF ver.live \subseteq files[0] /\ ver.snaps \subseteq snaps
            THEN [ver EXCEPT !.pc = "levels"]
            ELSE VerifyError
  /\ UNCHANGED <<vars, prune, dropped, rest, rep>>

\* list_merged_ranges: a level is listed,
VerifyListLevel ==
  /\ ver # None /\ ver.pc = "levels"
  /\ ver' = [ver EXCEPT !.pc = "headers", !.listed = files[ver.level]]
  /\ UNCHANGED <<vars, prune, dropped, rest, rep>>

\* Whatever fails, the verification goes on without any merged ranges.
Blinded == [ver EXCEPT !.pc = "judge", !.listed = {}, !.merged = {}, !.blind = TRUE]

\* and the header of each of its files is read, which fails if the file is gone by
\* then, or is torn.
VerifyHeaders ==
  /\ ver # None /\ ver.pc = "headers"
  /\ LET there(f) == ObjectsAt(ver.level, f) # {}
     IN  \/ /\ \A f \in ver.listed : there(f)
            /\ ver' = [ver EXCEPT !.pc = IF ver.level = 2 THEN "judge" ELSE "levels",
                                  !.level = IF ver.level = 2 THEN @ ELSE @ + 1,
                                  !.merged = @ \cup ver.listed, !.listed = {}]
         \/ (\E f \in ver.listed : ~there(f) \/ ~f.sound) /\ ver' = Blinded
  /\ UNCHANGED <<vars, prune, dropped, rest, rep>>

VerifyListFails ==
  /\ ver # None /\ ver.pc \in {"levels", "headers"} /\ Spend("op")
  /\ ver' = Blinded
  /\ UNCHANGED <<head, points, snaps, files, aged, batch, trig, pc, job, refused>>
  /\ UNCHANGED <<prune, dropped, rest, rep>>

VerifyDone(issues) ==
  /\ ver # None /\ ver.pc = "judge"
  /\ ver' = [ver EXCEPT !.pc = "done", !.live = {}, !.merged = {}, !.issues = issues]
  /\ UNCHANGED <<vars, prune, dropped, rest, rep>>

\* The command; and the watcher's validate_backup_integrity, which only follows the
\* chain.
VerifyLevels ==
  VerifyDone(LiveGaps(ver.live, ver.snaps, ver.merged)
               \cup ChainGaps(ver.live, ver.snaps, ver.merged))
ValidateLevels == VerifyDone(ChainGaps(ver.live, ver.snaps, ver.merged))

-----------------------------------------------------------------------------
(* The read replica.                                                        *)

\* There is a replica, and something is listed that is newer.
News ==
  /\ budget["replica"] > 0
  /\ (\E s \in snaps : s > rep.txid) \/ \E f \in files[0] : f.min > rep.txid

\* discover_all_legacy_ltx: the generations there are, and
PollState ==
  /\ rep.pc = "idle" /\ News
  /\ rep' = [rep EXCEPT !.pc = "list", !.snaps = snaps]
  /\ UNCHANGED <<vars, prune, dropped, rest, ver>>

\* the live files, then those generations.
PollListing ==
  /\ rep.pc = "list"
  /\ rep' = [rep EXCEPT !.pc = "poll", !.l0 = files[0], !.snaps = @ \cap snaps]
  /\ UNCHANGED <<vars, prune, dropped, rest, ver>>

\* The files a poll has to apply.
Incrementals == {f \in rep.l0 : f.min > rep.txid}

NextFile == CHOOSE f \in Incrementals : \A g \in Incrementals : f.min <= g.min

\* latest_snapshot, if there is one.
Newest(S) == {s \in S : \A t \in S : t <= s}

\* Mutant: a snapshot without files behind it is not news.
RebootstrapNever ==
  IF rep.txid = 0 \/ rep.db = None THEN Newest(rep.snaps)
  ELSE IF Incrementals = {} \/ NextFile.min = rep.txid + 1 THEN {}
  ELSE Newest({s \in rep.snaps : s >= NextFile.min})

\* The snapshot a poll starts over from: the first time; if it finds nothing but a
\* newer snapshot; and in a gap, if there is one at or past the next file.
Rebootstrap ==
  IF rep.txid = 0 \/ rep.db = None THEN Newest(rep.snaps)
  ELSE IF Incrementals = {} THEN {s \in Newest(rep.snaps) : ~rep.more /\ s > rep.txid}
  ELSE IF NextFile.min = rep.txid + 1 THEN {}
  ELSE Newest({s \in rep.snaps : s >= NextFile.min})

\* The poll is over.
Idle(r) == [r EXCEPT !.pc = "idle", !.l0 = {}, !.snaps = {}, !.more = FALSE]

\* The file is decoded beside the replica and renamed over it.
PollBootstrap ==
  /\ rep.pc = "poll"
  /\ \E s \in Rebootstrap :
       rep' = IF s \in snaps THEN [rep EXCEPT !.db = s, !.txid = s, !.pc = "save", !.more = FALSE]
                             ELSE Idle(rep)
  /\ UNCHANGED <<vars, prune, dropped, rest, ver>>

\* Mutant: the next file is applied whatever its number.
FollowsAnything(f) == TRUE

Follows(f) == f.min = rep.txid + 1

\* apply_incremental_atomically: the pages of a file over those of the replica,
\* whose checksum is not compared.
Applied(db, f) == IF f.min - 1 <= db /\ db <= f.max THEN f.max ELSE Mixed

PollApply ==
  /\ rep.pc = "poll" /\ rep.db # None /\ Rebootstrap = {} /\ Incrementals # {}
  /\ Follows(NextFile)
  /\ rep' = IF NextFile \in files[0]
            THEN [rep EXCEPT !.db = Applied(@, NextFile), !.txid = NextFile.max,
                             !.pc = "save", !.more = TRUE]
            ELSE Idle(rep)
  /\ UNCHANGED <<vars, prune, dropped, rest, ver>>

\* Nothing to do, or a gap that nothing bridges: the next poll tries again.
PollEnds ==
  /\ rep.pc = "poll" /\ Rebootstrap = {}
  /\ rep.db # None /\ Incrementals # {} => ~Follows(NextFile)
  /\ rep' = Idle(rep)
  /\ UNCHANGED <<vars, prune, dropped, rest, ver>>

\* save_replica_state.
PollSave ==
  /\ rep.pc = "save"
  /\ LET r == [rep EXCEPT !.saved = rep.txid]
     IN  rep' = IF rep.more THEN [r EXCEPT !.pc = "poll"] ELSE Idle(r)
  /\ UNCHANGED <<vars, prune, dropped, rest, ver>>

\* The replica stops, and starts again from the state file.
ReplicaStop ==
  /\ rep.pc # "idle" /\ Spend("stop")
  /\ rep' = [NewReplica EXCEPT !.txid = rep.saved, !.saved = rep.saved, !.db = rep.db]
  /\ UNCHANGED <<head, points, snaps, files, aged, batch, trig, pc, job, refused>>
  /\ UNCHANGED <<prune, dropped, rest, ver>>

-----------------------------------------------------------------------------
Retention == PruneList \/ PrunePlan \/ RunPrunePlan \/ PruneLevels \/ PruneDelete
Restore   == RestoreBegin \/ Gather \/ RestorePlan \/ RestoreBase \/ RestoreApply \/ RestorePublish
Verify    == VerifyState \/ VerifyListing \/ VerifyFiles \/ VerifyListLevel \/ VerifyHeaders
               \/ VerifyListFails \/ VerifyLevels \/ ValidateLevels
Poll      == PollState \/ PollListing \/ PollBootstrap \/ PollApply \/ PollEnds \/ PollSave

FleetNext ==
  \/ Next /\ UNCHANGED fleet
  \/ Retention \/ Restore \/ Verify \/ Poll \/ ReplicaStop

FleetSpec == FleetInit /\ [][FleetNext]_<<vars, fleet>>

\* As for the writer; the replica's timer keeps polling while there is news.
FleetFairSpec ==
  /\ FleetSpec
  /\ []<>(pc \in {"idle", "down"})
  /\ WF_vars(SyncIdle) /\ WF_vars(Age) /\ WF_vars(Restart)
  /\ []<>(rep.pc = "idle" /\ ~News) \/ []<><<Poll>>_rep

-----------------------------------------------------------------------------
\* The runs beside the writer have their types.
FleetTypeOK ==
  /\ TypeOK
  /\ dropped \subseteq 1 .. head
  /\ prune # None => prune.keep \subseteq prune.snaps /\ prune.pc \in {"plan", "levels", "delete"}
  /\ rep.saved <= rep.txid /\ rep.pc \in {"idle", "list", "poll", "save"}
  /\ snaps # {}

\* Every transaction ever published is in a snapshot or in a file that decodes,
\* unless retention has dropped it, even while a torn merged file is in the way of
\* a restore: sources go only after what replaces them was read back.
NothingLost ==
  \A t \in 1 .. head :
    t \in snaps \cup dropped \/ \E f \in Stored : f.sound /\ t \in f.parts

\* A restore beside a writer, a compaction and a retention run either has exactly
\* the transactions of its target, and for the latest state all that was there
\* when it began; or it fails, for the latest state only because an object it
\* meant to read is gone or torn or a newer snapshot has overtaken the listing.
\* A point in time that compaction or a snapshot has absorbed is reported as that:
\* as a gap, or as without base, only if retention has deleted something.  All along
\* the variables have their types.
RestoreBesideOthers ==
  /\ FleetTypeOK
  /\ rest # None =>
       /\ rest.pc = "done" =>
            /\ rest.got = rest.floor .. rest.target
            /\ rest.pit = None => rest.target >= rest.seen
       /\ rest.pc = "failed" /\ rest.pit = None => rest.why \in {"gone", "torn", "overtaken"}
       /\ rest.pc = "failed" /\ rest.why \in {"gap", "no base"} => dropped # {}

\* "it must not false-alarm on a folded L0 pool": snapshots and merged files explain
\* every hole in the live files.  Excepted is the hole of a snapshot that was published
\* between the listings (retention may have deleted it since).  Does not hold (README,
\* section 6).
NoFalseAlarm ==
  ver # None =>
    \A f \in ver.issues : \E s \in snaps \cup dropped : Max(ver.snaps) < s /\ s < f.min

\* verify and validate_backup_integrity raise no false alarm, whatever is published,
\* merged and deleted while they list, except when list_merged_ranges has failed: with a
\* failed request, or because a file was merged on, or pruned, before its header was read.
VerifyQuiet == (ver # None /\ ver.blind) \/ NoFalseAlarm

\* Every step of the replica leaves one state of the database in its file, at or past
\* the transaction in its state file, and none older than before, except after a stop
\* before the state file was written, if retention has deleted the snapshot it had.
ReplicaExact ==
  [][/\ rep'.db # Mixed
     /\ rep'.saved > 0 => rep'.db # None /\ rep'.db >= rep'.saved
     /\ rep.db # None => rep'.db >= rep.db \/ (rep.saved < rep.db /\ rep.db \in dropped)]_rep

\* The next file is behind a hole, and no snapshot is at or past it.
Stranded ==
  LET ahead == {f \in files[0] : f.min > rep.txid}
      first == Min({f.min : f \in ahead})
  IN  ahead # {} /\ first # rep.txid + 1 /\ \A s \in snaps : s < first

\* In the end the replica has everything, or is in front of a hole that only the
\* next snapshot closes.
ReplicaConverges ==
  budget["replica"] = 0 \/ <>[](rep.txid >= DiscoveredL0Head \/ Stranded)

\* "re-bootstraps from the newest snapshot (same handler as any other chain gap),
\* converging automatically": while a newer snapshot is there, a poll in a gap
\* starts over from it.  Does not hold (README, section 6).
GapRebootstraps ==
  rep.pc = "poll" /\ rep.txid > 0 /\ Incrementals # {} /\ ~Follows(NextFile)
    /\ (\E s \in rep.snaps : s > rep.txid) => Rebootstrap # {}

\* "prune keeps every object a retained point-in-time restore still needs": what a
\* deletion leaves at or above the oldest kept snapshot can still be restored.  Does
\* not hold (README, section 6).
PruneKeepsPoints ==
  [][PruneDelete => \A p \in points : p >= Min(prune.keep) /\ Restorable(p) => Restorable(p)']_<<vars, fleet>>

=============================================================================
