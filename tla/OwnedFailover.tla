---------------------------- MODULE OwnedFailover ----------------------------
(***************************************************************************)
(* A walrust-owned stream that changes hands (walrust-core: sync.rs,       *)
(* replicator.rs, replay_sink.rs).  Creators race to found the stream; the *)
(* node that takes the lease restores the newest state and resumes the     *)
(* stream with a snapshot of its own, while the node that lost the lease   *)
(* may still be publishing; followers pull incrementals, into a file or    *)
(* into a sink.  The lease is the embedder's: walrust only asks whether it *)
(* is held.                                                                *)
(*                                                                         *)
(* A database is the sequence of its commits, each named by the node that  *)
(* made it; the WAL, its checkpoints and failed syncs are OwnedStream's.   *)
(* A checksum is the sequence of the databases hashed into it.             *)
(***************************************************************************)
EXTENDS Integers, Sequences, SequencesExt, FiniteSets, FiniteSetsExt

CONSTANTS
  None,
  Nodes,      \* nodes, strings; First holds the lease at the start
  First,
  Followers,  \* subset of {"file", "sink"}
  Budgets     \* mixes of faults and environment steps

\* Commits; periodic snapshots; lease moves; compactions; requests of a resume
\* that fail; crashes; pulls cut short; whether the stream is still to be founded;
\* and starts of run_replication.
Kinds == {"commit", "tick", "move", "compact", "fail", "stop", "cut", "found", "run"}

ASSUME NodesAssumption ==
  /\ First \in Nodes /\ Followers \subseteq {"file", "sink"}
  /\ Budgets \subseteq [Kinds -> Nat]

VARIABLES
  hist,       \* node -> the commits in its database, None without one
  live,       \* storage: incrementals, by lineage and sequence number
  snaps,      \* storage: snapshots, by lineage and sequence number
  lineages,   \* lineage ids given out
  stateJson,  \* storage: state.json, None without one
  lease,      \* the node that holds the lease
  st,         \* node -> SyncState of a registered database, else None
  job,        \* node -> the operation under way, None without one
  fol,        \* follower -> its copy, cursor and pull under way, None before
  acked,      \* what a lease holder was last told is stored
  budget,     \* faults and environment steps left
  split       \* whether a deposed node stored something beside a resumed stream

vars == <<hist, live, snaps, lineages, stateJson, lease, st, job, fol, acked, budget, split>>

Spend(k) == budget[k] > 0 /\ budget' = [budget EXCEPT ![k] = @ - 1]

With(f, k, v) == [x \in DOMAIN f \cup {k} |-> IF x = k THEN v ELSE f[x]]

-----------------------------------------------------------------------------
(* Objects and restore.                                                     *)

Mixed == <<"mixed">>   \* pages of different databases

\* The pages of d over h: a database only if d continues it.
Overlay(h, d) ==
  IF /\ h # Mixed /\ d.low <= Len(h) /\ Len(h) <= d.low + Len(d.frames)
     /\ SubSeq(h, d.low + 1, Len(h)) = SubSeq(d.frames, 1, Len(h) - d.low)
  THEN SubSeq(h, 1, d.low) \o d.frames ELSE Mixed

\* Commits low + 1 .. of a database, on top of the state pre stands for; merged
\* once compaction has moved it into a level.
Delta(pre, low, frames) == [pre |-> pre, low |-> low, frames |-> frames, merged |-> FALSE]

Snapshot(pre, h) == [pre |-> pre, hist |-> h]

\* Checksums of a file and of a changeset, and the database they stand for.
FileSum(h)   == <<h>>
Sum(d)       == Append(d.pre, Overlay(Last(d.pre), d))
Content(sum) == Last(sum)

SeqsOf(f, lin) == {k[2] : k \in {k \in DOMAIN f : k[1] = lin}}

\* verify_chain: a changeset has to name the checksum before it.
ChainsOn(d, sum) == d.pre = sum

\* The listed changesets on top of a cursor, one by one; a number that is missing
\* and a checksum that does not follow are errors.
Walk(seq, sum, lin, listed) ==
  LET top    == Max(listed \cup {seq})
      at(s)  == IF s = seq THEN sum ELSE Sum(live[<<lin, s>>])
      ok     == \A s \in seq + 1 .. top : s \in listed /\ ChainsOn(live[<<lin, s>>], at(s - 1))
  IN  [ok |-> ok, seq |-> top, sum |-> IF ok THEN at(top) ELSE sum]

\* restore from a snapshot: all that is numbered behind it, in order; a level
\* stands for the changesets merged into it.
RestoreFrom(lin, base) ==
  Walk(base, FileSum(snaps[<<lin, base>>].hist), lin, {s \in SeqsOf(live, lin) : s > base})

\* restore of the latest state, with the storage at rest.
Latest ==
  IF stateJson = None \/ SeqsOf(snaps, stateJson.lin) = {}
  THEN [ok |-> FALSE, seq |-> 0, sum |-> FileSum(<<>>)]
  ELSE RestoreFrom(stateJson.lin, Max(SeqsOf(snaps, stateJson.lin)))

-----------------------------------------------------------------------------
\* SyncState: lineage, sequence number, running checksum, commits shipped.
State(lin, seq, sum, off) == [lin |-> lin, seq |-> seq, sum |-> sum, off |-> off]

\* Either nothing is there yet, or First has a stream without lineage, the only
\* kind that can be compacted.
Init ==
  /\ budget \in Budgets
  /\ lease = First /\ job = [n \in Nodes |-> None] /\ fol = [f \in Followers |-> None]
  /\ acked = <<>> /\ split = FALSE
  /\ lineages = 0 /\ live = <<>>
  /\ IF budget["found"] > 0
     THEN /\ hist = [n \in Nodes |-> <<n>>] /\ snaps = <<>> /\ stateJson = None
          /\ st = [n \in Nodes |-> None]
     ELSE /\ hist = [n \in Nodes |-> IF n = First THEN <<n>> ELSE None]
          /\ snaps = With(<<>>, <<0, 1>>, Snapshot(<<>>, <<First>>))
          /\ st = [n \in Nodes |-> IF n = First THEN State(0, 1, FileSum(<<n>>), 1) ELSE None]
          /\ stateJson = st[First]

(* The embedder.                                                            *)

Commit(n) ==
  /\ st[n] # None /\ Spend("commit")
  /\ hist' = [hist EXCEPT ![n] = Append(@, n)]
  /\ UNCHANGED <<live, snaps, lineages, stateJson, lease, st, job, fol, acked, split>>

\* A node that takes the lease starts from nothing; the one that loses it goes on.
MoveLease(n) ==
  /\ n # lease /\ st[n] = None /\ job[n] = None /\ Spend("move")
  /\ lease' = n
  /\ UNCHANGED <<hist, live, snaps, lineages, stateJson, st, job, fol, acked, split>>

Crash(n) ==
  /\ (st[n] # None \/ job[n] # None) /\ Spend("stop")
  /\ st' = [st EXCEPT ![n] = None] /\ job' = [job EXCEPT ![n] = None]
  /\ UNCHANGED <<hist, live, snaps, lineages, stateJson, lease, fol, acked, split>>

-----------------------------------------------------------------------------
(* Publishing.                                                              *)

\* Someone has resumed, is past asking whether the number is free, or has taken it.
Resumed(lin, s) ==
  \/ st[lease] # None
  \/ \E t \in SeqsOf(snaps, lin) : t >= s
  \/ job[lease] # None /\ job[lease].pc \in {"resume_put", "resume_save"}

Beside(n) == split' = (split \/ (n # lease /\ Resumed(st[n].lin, st[n].seq + 1)))

Ack(n) == acked' = IF n = lease THEN hist[n] ELSE acked

Fail(n) == job' = [job EXCEPT ![n] = None]

\* put_changeset_if_absent: nothing there, or the same bytes.
Takes(f, key, obj) == key \in DOMAIN f => f[key] = obj

\* Commits behind the cursor become the next incremental.
SyncRead(n) ==
  /\ st[n] # None /\ job[n] = None /\ Len(hist[n]) > st[n].off
  /\ LET s == st[n]
         d == Delta(s.sum, s.off, SubSeq(hist[n], s.off + 1, Len(hist[n])))
     IN  job' = [job EXCEPT ![n] = [pc |-> "put", obj |-> d]]
  /\ UNCHANGED <<hist, live, snaps, lineages, stateJson, lease, st, fol, acked, budget, split>>

\* Mutant: the cursor goes to the end of the WAL as it is now.
ShippedToEnd(n, d) == Len(hist[n])

\* The commits shipped with d.
Shipped(n, d) == d.low + Len(d.frames)

SyncPut(n) ==
  /\ job[n] # None /\ job[n].pc = "put"
  /\ LET s   == st[n]
         d   == job[n].obj
         key == <<s.lin, s.seq + 1>>
     IN  IF Takes(live, key, d)
         THEN /\ live' = With(live, key, d) /\ Beside(n)
              /\ st' = [st EXCEPT ![n] = State(s.lin, s.seq + 1, Sum(d), Shipped(n, d))]
              /\ job' = [job EXCEPT ![n].pc = "save"]
         ELSE Fail(n) /\ UNCHANGED <<live, st, split>>
  /\ UNCHANGED <<hist, snaps, lineages, stateJson, lease, fol, acked, budget>>

\* save_state: whatever is there is replaced.
SyncSave(n) ==
  /\ job[n] # None /\ job[n].pc = "save"
  /\ stateJson' = st[n] /\ Fail(n)
  /\ acked' = IF n = lease THEN Content(st[n].sum) ELSE acked
  /\ UNCHANGED <<hist, live, snaps, lineages, lease, st, fol, budget, split>>

\* The snapshot timer: of the lease holder only (autonomous_snapshots is off
\* where several nodes may write).
Tick(n) ==
  /\ n = lease /\ st[n] # None /\ job[n] = None /\ Spend("tick")
  /\ job' = [job EXCEPT ![n] = [pc |-> "tick", obj |-> Snapshot(st[n].sum, hist[n])]]
  /\ UNCHANGED <<hist, live, snaps, lineages, stateJson, lease, st, fol, acked, split>>

\* take_snapshot_with_retry; state.json is left for the next sync.
TickPut(n) ==
  /\ job[n] # None /\ job[n].pc = "tick" /\ Fail(n)
  /\ LET s   == st[n]
         h   == job[n].obj.hist
         key == <<s.lin, s.seq + 1>>
     IN  IF Takes(snaps, key, job[n].obj)
         THEN /\ snaps' = With(snaps, key, job[n].obj) /\ Beside(n)
              /\ st' = [st EXCEPT ![n] = State(s.lin, s.seq + 1, FileSum(h), Len(h))]
         ELSE UNCHANGED <<snaps, st, split>>
  /\ UNCHANGED <<hist, live, lineages, stateJson, lease, fol, acked, budget>>

\* A compaction folds the incrementals of a stream without lineage into levels.
Compact(n) ==
  /\ st[n] # None /\ st[n].lin = 0 /\ Spend("compact")
  /\ \E s \in SeqsOf(live, 0) :
       /\ s + 1 \in SeqsOf(live, 0) /\ ~live[<<0, s>>].merged
       /\ live' = [live EXCEPT ![<<0, s>>].merged = TRUE, ![<<0, s + 1>>].merged = TRUE]
  /\ UNCHANGED <<hist, snaps, lineages, stateJson, lease, st, job, fol, acked, split>>

(* Founding a stream: Replicator::add.                                      *)

\* ensure_no_saved_state, and a lineage of one's own.
Add(n) ==
  /\ st[n] = None /\ job[n] = None /\ hist[n] # None /\ stateJson = None
  /\ lineages' = lineages + 1
  /\ job' = [job EXCEPT ![n] = [pc |-> "add_put", lin |-> lineages + 1]]
  /\ UNCHANGED <<hist, live, snaps, stateJson, lease, st, fol, acked, budget, split>>

\* run_replication: a lineage of one's own whatever is there.  The database the
\* embedder starts it with has what it was told is stored.
RunReplication(n) ==
  /\ n = lease /\ st[n] = None /\ job[n] = None /\ hist[n] # None
  /\ IsPrefix(acked, hist[n]) /\ Spend("run")
  /\ lineages' = lineages + 1
  /\ job' = [job EXCEPT ![n] = [pc |-> "run_put", lin |-> lineages + 1]]
  /\ UNCHANGED <<hist, live, snaps, stateJson, lease, st, fol, acked, split>>

AddPut(n) ==
  /\ job[n] # None /\ job[n].pc \in {"add_put", "run_put"}
  /\ snaps' = With(snaps, <<job[n].lin, 1>>, Snapshot(FileSum(hist[n]), hist[n]))
  /\ job' = [job EXCEPT ![n].pc = IF @ = "add_put" THEN "add_save" ELSE "run_save"]
  /\ UNCHANGED <<hist, live, lineages, stateJson, lease, st, fol, acked, budget, split>>

\* Mutant: the state of another founder is replaced.
AddSaveAnyway(n) ==
  /\ job[n] # None /\ job[n].pc = "add_save" /\ Fail(n)
  /\ stateJson' = State(job[n].lin, 1, FileSum(hist[n]), Len(hist[n]))
  /\ st' = [st EXCEPT ![n] = stateJson'] /\ Ack(n)
  /\ UNCHANGED <<hist, live, snaps, lineages, lease, fol, budget, split>>

\* save_initial_state: only if no one else has founded the stream.
AddSave(n) ==
  /\ job[n] # None /\ job[n].pc = "add_save" /\ Fail(n)
  /\ IF stateJson = None
     THEN /\ stateJson' = State(job[n].lin, 1, FileSum(hist[n]), Len(hist[n]))
          /\ st' = [st EXCEPT ![n] = stateJson'] /\ Ack(n)
     ELSE UNCHANGED <<stateJson, st, acked>>
  /\ UNCHANGED <<hist, live, snaps, lineages, lease, fol, budget, split>>

\* save_state, which replaces what is there.
RunSave(n) ==
  /\ job[n] # None /\ job[n].pc = "run_save" /\ Fail(n)
  /\ stateJson' = State(job[n].lin, 1, FileSum(hist[n]), Len(hist[n]))
  /\ st' = [st EXCEPT ![n] = stateJson'] /\ Ack(n)
  /\ UNCHANGED <<hist, live, snaps, lineages, lease, fol, budget, split>>

-----------------------------------------------------------------------------
(* Taking over: restore, then resume_owned_after_restore.                   *)

\* The lineage and its newest snapshot.
RestoreBase(n) ==
  /\ n = lease /\ st[n] = None /\ job[n] = None /\ stateJson # None
  /\ SeqsOf(snaps, stateJson.lin) # {}
  /\ job' = [job EXCEPT ![n] = [pc |-> "restore", lin |-> stateJson.lin,
                                base |-> Max(SeqsOf(snaps, stateJson.lin))]]
  /\ UNCHANGED <<hist, live, snaps, lineages, stateJson, lease, st, fol, acked, budget, split>>

\* verify_sqlite_integrity.
Sound(h) == h # Mixed

\* AtomicRestore::publish: the staged file replaces the output.
PublishStaged(n, h) == hist' = [hist EXCEPT ![n] = h]

\* RestoreResult, which resume_owned_after_restore is given.
RestoreResult(lin, r) == [pc |-> "probe", lin |-> lin, seq |-> r.seq, sum |-> r.sum]

\* The listing behind it, applied to the staged file.
RestoreApply(n) ==
  /\ job[n] # None /\ job[n].pc = "restore"
  /\ LET r == RestoreFrom(job[n].lin, job[n].base)
     IN  IF r.ok /\ Sound(Content(r.sum))
         THEN /\ PublishStaged(n, Content(r.sum))
              /\ job' = [job EXCEPT ![n] = RestoreResult(@.lin, r)]
         ELSE Fail(n) /\ UNCHANGED hist
  /\ UNCHANGED <<live, snaps, lineages, stateJson, lease, st, fol, acked, budget, split>>

\* Mutant: the levels are not looked at.
FreeUnlessListed(lin, s) ==
  /\ <<lin, s>> \notin DOMAIN snaps
  /\ <<lin, s>> \in DOMAIN live => live[<<lin, s>>].merged

\* No incremental, no snapshot and no level has the number.
Free(lin, s) == <<lin, s>> \notin DOMAIN snaps /\ <<lin, s>> \notin DOMAIN live

\* The lease is held and the next number is free; the lease is held.
ResumeProbe(n) ==
  /\ job[n] # None /\ job[n].pc = "probe"
  /\ IF n = lease /\ Free(job[n].lin, job[n].seq + 1)
     THEN job' = [job EXCEPT ![n].pc = "resume_put"] ELSE Fail(n)
  /\ UNCHANGED <<hist, live, snaps, lineages, stateJson, lease, st, fol, acked, budget, split>>

\* Mutant: the base is numbered like the state it was restored from.
ResumeKeyStale(n) == <<job[n].lin, job[n].seq>>

ResumeKey(n) == <<job[n].lin, job[n].seq + 1>>
ResumeSnap(n) == Snapshot(job[n].sum, hist[n])

\* An attempt of take_snapshot_with_retry_guarded: the lease is asked for first.
ResumePut(n) ==
  /\ job[n] # None /\ job[n].pc = "resume_put"
  /\ IF n = lease /\ Takes(snaps, ResumeKey(n), ResumeSnap(n))
     THEN /\ snaps' = With(snaps, ResumeKey(n), ResumeSnap(n))
          /\ job' = [job EXCEPT ![n].pc = "resume_save"]
     ELSE Fail(n) /\ UNCHANGED snaps
  /\ UNCHANGED <<hist, live, lineages, stateJson, lease, st, fol, acked, budget, split>>

\* The upload fails, with or without effect, and is tried again or given up.
ResumePutFails(n) ==
  /\ job[n] # None /\ job[n].pc = "resume_put" /\ n = lease /\ Spend("fail")
  /\ \/ UNCHANGED snaps
     \/ ResumeKey(n) \notin DOMAIN snaps /\ snaps' = With(snaps, ResumeKey(n), ResumeSnap(n))
  /\ UNCHANGED job \/ Fail(n)
  /\ UNCHANGED <<hist, live, lineages, stateJson, lease, st, fol, acked, split>>

ResumeState(n) ==
  State(job[n].lin, job[n].seq + 1, FileSum(hist[n]), Len(hist[n]))

\* state.json, under the lease again; without it the caller has to stop.
ResumeSave(n) ==
  /\ job[n] # None /\ job[n].pc = "resume_save" /\ Fail(n)
  /\ IF n = lease
     THEN stateJson' = ResumeState(n) /\ st' = [st EXCEPT ![n] = ResumeState(n)] /\ Ack(n)
     ELSE UNCHANGED <<stateJson, st, acked>>
  /\ UNCHANGED <<hist, live, snaps, lineages, lease, fol, budget, split>>

ResumeSaveFails(n) ==
  /\ job[n] # None /\ job[n].pc = "resume_save" /\ n = lease /\ Spend("fail")
  /\ stateJson' \in {stateJson, ResumeState(n)}
  /\ UNCHANGED job \/ Fail(n)
  /\ UNCHANGED <<hist, live, snaps, lineages, lease, st, fol, acked, split>>

-----------------------------------------------------------------------------
(* Followers: pull_incremental, pull_incremental_into_sink.                 *)

\* A copy's pages are all at or behind the state floor, and none is behind hist.
Exactly(h) == [hist |-> h, floor |-> Len(h)]

\* The pages of d over a copy: those that are ahead of d go back to it, or stay.
Paint(copy, d) ==
  LET top == d.low + Len(d.frames)
      h   == Overlay(IF top < Len(copy.hist) THEN SubSeq(copy.hist, 1, top) ELSE copy.hist, d)
  IN  IF copy.hist = Mixed \/ d.low > copy.floor \/ h = Mixed THEN Exactly(Mixed)
      ELSE [hist |-> IF top < Len(copy.hist) THEN copy.hist ELSE h, floor |-> top]

\* A follower starts with a restored copy and the cursor that goes with it.  One
\* is enough, they have nothing to do with each other.
Follow(f) ==
  /\ \A g \in Followers : fol[g] = None
  /\ Latest.ok /\ Content(Latest.sum) # Mixed
  /\ fol' = [fol EXCEPT ![f] = [seq |-> Latest.seq, sum |-> Latest.sum, cut |-> FALSE, todo |-> <<>>,
                                copy |-> Exactly(Content(Latest.sum)),
                                staged |-> Exactly(<<>>)]]
  /\ UNCHANGED <<hist, live, snaps, lineages, stateJson, lease, st, job, acked, budget, split>>

\* The incrementals of the active lineage behind the cursor; levels are not listed.
Active == IF stateJson = None THEN 0 ELSE stateJson.lin

NewFiles(f) == {s \in SeqsOf(live, Active) : s > fol[f].seq /\ ~live[<<Active, s>>].merged}

\* verify_decoded_pull_chain, over all of them before any is applied.
Verified(f) == Walk(fol[f].seq, fol[f].sum, Active, NewFiles(f))

\* Mutant: the sink is given no buffer of its own.
StagedOnNothing(f) == Exactly(<<>>)

\* The sink stages on top of what it shows.
Staged(f) == fol[f].copy

\* download_decode_pull_changesets: in the order of the listing.
Downloaded(f) ==
  [i \in 1 .. Cardinality(NewFiles(f)) |-> live[<<Active, fol[f].seq + i>>]]

\* List, download and verify; otherwise the pull fails and nothing has changed.
PullStart(f) ==
  /\ fol[f] # None /\ fol[f].todo = <<>> /\ NewFiles(f) # {} /\ Verified(f).ok
  /\ fol' = [fol EXCEPT ![f].todo = Downloaded(f), ![f].staged = Staged(f)]
  /\ UNCHANGED <<hist, live, snaps, lineages, stateJson, lease, st, job, acked, budget, split>>

\* A changeset goes into the file, or into what the sink stages.
PullApply(f) ==
  /\ fol[f] # None /\ Len(fol[f].todo) > 1
  /\ LET d == Head(fol[f].todo)
     IN  fol' = [fol EXCEPT ![f].todo = Tail(@),
                            ![f].copy = IF f = "file" THEN Paint(@, d) ELSE @,
                            ![f].staged = IF f = "file" THEN @ ELSE Paint(@, d)]
  /\ UNCHANGED <<hist, live, snaps, lineages, stateJson, lease, st, job, acked, budget, split>>

\* The last one takes the cursor along, and the sink installs what it has staged.
PullFinish(f) ==
  /\ fol[f] # None /\ Len(fol[f].todo) = 1
  /\ LET d == Head(fol[f].todo)
     IN  fol' = [fol EXCEPT ![f] =
           [seq |-> fol[f].seq + Len(Sum(d)) - Len(fol[f].sum), sum |-> Sum(d), cut |-> FALSE,
            copy |-> Paint(IF f = "file" THEN fol[f].copy ELSE fol[f].staged, d),
            todo |-> <<>>, staged |-> Exactly(<<>>)]]
  /\ UNCHANGED <<hist, live, snaps, lineages, stateJson, lease, st, job, acked, budget, split>>

\* A pull is cut short: the file may have part of a changeset, the sink aborts.
PullCut(f) ==
  /\ fol[f] # None /\ fol[f].todo # <<>> /\ Spend("cut")
  /\ \E part \in IF f = "file" THEN BOOLEAN ELSE {FALSE} :
       fol' = [fol EXCEPT ![f].todo = <<>>, ![f].staged = Exactly(<<>>), ![f].cut = TRUE,
                          ![f].copy = IF part THEN [Paint(@, Head(fol[f].todo))
                                                      EXCEPT !.floor = fol[f].copy.floor]
                                      ELSE @]
  /\ UNCHANGED <<hist, live, snaps, lineages, stateJson, lease, st, job, acked, split>>

-----------------------------------------------------------------------------
Publish(n) ==
  \/ SyncRead(n) \/ SyncPut(n) \/ SyncSave(n) \/ TickPut(n)
  \/ AddPut(n) \/ AddSave(n) \/ RunSave(n)
  \/ RestoreBase(n) \/ RestoreApply(n) \/ ResumeProbe(n) \/ ResumePut(n) \/ ResumeSave(n)

Next ==
  \/ \E n \in Nodes :
       \/ Commit(n) \/ MoveLease(n) \/ Crash(n) \/ Tick(n) \/ Compact(n) \/ Add(n)
       \/ RunReplication(n)
       \/ Publish(n) \/ ResumePutFails(n) \/ ResumeSaveFails(n)
  \/ \E f \in Followers : Follow(f) \/ PullStart(f) \/ PullApply(f) \/ PullFinish(f) \/ PullCut(f)

Spec == Init /\ [][Next]_vars

\* The lease holder has something to do.
Ready ==
  \/ job[lease] # None
  \/ IF st[lease] = None THEN stateJson # None ELSE Len(hist[lease]) > st[lease].off

\* The lease holder goes on with what it has begun, takes over if it has not, and
\* its timer ships what it commits.
FairSpec == Spec /\ ([]<>~Ready \/ []<><<\E n \in Nodes : n = lease /\ Publish(n)>>_vars)

-----------------------------------------------------------------------------
\* Every variable has its type, and objects and cursors belong to lineages that
\* were given out.
TypeOK ==
  /\ lease \in Nodes /\ lineages \in Nat /\ split \in BOOLEAN
  /\ \A n \in Nodes : hist[n] # None => hist[n] \in Seq(Nodes)
  /\ \A k \in DOMAIN live \cup DOMAIN snaps : k[1] \in 0 .. lineages /\ k[2] \in Nat
  /\ \A n \in Nodes : st[n] # None => hist[n] # None /\ st[n].off <= Len(hist[n])
  /\ stateJson # None => <<stateJson.lin, 1>> \in DOMAIN snaps

\* What a restore returns is one database, with everything a lease holder was
\* told is stored: whoever restores, resumes, compacts or goes on publishing
\* without the lease (restore, resume_owned_after_restore, save_initial_state).
AckedIsRestored ==
  LET r == Latest
  IN  r.ok => Content(r.sum) # Mixed /\ (split \/ IsPrefix(acked, Content(r.sum)))

\* What can be restored stays restorable: a resume that finds anything stored
\* behind what it restored gives up instead of hiding it behind its snapshot.
\* Excepted is a node without the lease that goes on beside the resumed stream.
NothingHidden ==
  [][live' # live \/ snaps' # snaps \/ stateJson' # stateJson =>
       \A r \in {Latest}, next \in {Latest'} :
         r.ok /\ ~split' => next.ok /\ IsPrefix(Content(r.sum), Content(next.sum))]_vars

\* One founder: every registered database publishes into the lineage of state.json
\* (Replicator::add; run_replication is for a node that has the stream to itself).
OneLineage == \A n \in Nodes : st[n] # None => st[n].lin = stateJson.lin

\* A follower that is not pulling has exactly what its cursor stands for: a sink
\* always, a file unless a pull into it was cut short.  All along the variables
\* have their types.
FollowerExact ==
  /\ TypeOK
  /\ \A f \in Followers :
       fol[f] # None /\ (f = "file" => fol[f].todo = <<>> /\ ~fol[f].cut) =>
         fol[f].copy = Exactly(Content(fol[f].sum))

\* The stream is taken over in the end, and all that the holder commits is stored,
\* unless the node that lost the lease has stored something beside it.
TakenOver ==
  <>[](\/ split \/ stateJson = None
       \/ st[lease] # None /\ LET r == Latest IN r.ok /\ Content(r.sum) = hist[lease])

\* "Call it in a loop (e.g., every 1s) to stay in sync with the leader": as long as
\* the stream can be restored, a pull succeeds.  Does not hold (README, section 6).
PullStaysInSync ==
  \A f \in Followers :
    fol[f] # None /\ fol[f].todo = <<>> /\ Latest.ok /\ ~split => Verified(f).ok

=============================================================================
