---------------------------- MODULE ExternalDelta ----------------------------
(***************************************************************************)
(* Deltas on top of a base that another layer owns (walrust-core: sync.rs, *)
(* external_delta.rs, replicator.rs).  That layer publishes bases in a     *)
(* manifest and moves a lease; the replicator of the lease holder ships    *)
(* the WAL as plain changesets (.hadbp) or, once set_external_delta_base   *)
(* was called, as fenced envelopes (.tlmd); followers rebuild the database *)
(* from the base and what follows it.  A node that lost the lease may go   *)
(* on committing and shipping.                                             *)
(*                                                                         *)
(* A database is the sequence of its commits, each named by the node that  *)
(* made it.  A checksum is the term it is computed from.                   *)
(***************************************************************************)
EXTENDS Integers, Sequences, SequencesExt, FiniteSets, FiniteSetsExt

CONSTANTS
  None,
  Nodes,     \* nodes, strings; the first lease holder is First
  First,
  Skips,     \* by how much a base may be numbered above the writer's sequence
  Budgets    \* mixes of faults and environment steps

\* Commits; WAL restarts; new bases; requests that fail; crashes; lease moves.
Kinds == {"commit", "reset", "base", "fail", "stop", "move"}

ASSUME NodesAssumption ==
  First \in Nodes /\ Skips \subseteq Nat /\ Budgets \subseteq [Kinds -> Nat]

VARIABLES
  mode,      \* "fenced" if the layer above has the deltas fenced, else "plain"
  hist,      \* node -> the commits in its database
  wal,       \* node -> its WAL: salt, and the number of commits below it
  deltas,    \* storage: .hadbp objects, by sequence number
  envs,      \* storage: .tlmd objects, by sequence number
  manifest,  \* the newest base: sequence number, content, epoch and writer
  lease,     \* epoch and holder
  progress,  \* node -> external-base-progress.json, None without one
  st,        \* node -> SyncState and delta chain, None when not registered
  job,       \* node -> the delta under way, None without one
  budget,    \* faults and environment steps left
  caveats    \* what has happened that stops the stream or that it does not notice

vars == <<mode, hist, wal, deltas, envs, manifest, lease, progress, st, job, budget, caveats>>

Spend(k) == budget[k] > 0 /\ budget' = [budget EXCEPT ![k] = @ - 1]

Note(c, cond) == caveats' = IF cond THEN caveats \cup {c} ELSE caveats

With(f, k, v) == [x \in DOMAIN f \cup {k} |-> IF x = k THEN v ELSE f[x]]

-----------------------------------------------------------------------------
(* Checksums and objects.                                                   *)

\* compute_checksum_from_file, and the checksum that chains a changeset to pre.
FileSum(h)          == <<<<"file", h>>>>
ChainSum(pre, d)    == Append(pre, <<"delta", d>>)

\* A base of the manifest, and the anchor of the base's envelope: of its content,
\* which two writers may have in common.
Base(seq, h, epoch, writer) == [seq |-> seq, hist |-> h, epoch |-> epoch, writer |-> writer]
Anchor(b) == <<"base", b.seq, b.hist>>

\* A changeset: frames low + 1 .. of a database, on top of what pre stands for.
Delta(seq, pre, low, frames) == [seq |-> seq, pre |-> pre, low |-> low, frames |-> frames]
Sum(d) == ChainSum(d.pre, <<d.low, d.frames>>)

\* DeltaPayloadV1; checksum of the envelope.
Envelope(d, chain) ==
  [seq |-> d.seq, epoch |-> chain.epoch, writer |-> chain.writer, prev |-> chain.prev,
   payload |-> d]
EnvSum(e) == <<"env", e>>

Mixed == <<"mixed">>   \* pages of different databases

\* The pages of d over h: a database only if no commit between them is missing
\* and no page goes back.
Overlay(h, d) ==
  LET top == d.low + Len(d.frames)
  IN  IF /\ h # Mixed /\ d.low <= Len(h) /\ Len(h) <= top
         /\ SubSeq(h, d.low + 1, Len(h)) = SubSeq(d.frames, 1, Len(h) - d.low)
      THEN SubSeq(h, 1, d.low) \o d.frames ELSE Mixed

-----------------------------------------------------------------------------
(* Followers.                                                               *)

Behind(f, seq) == {s \in DOMAIN f : s > seq}

\* apply_changeset_to_db verifies the chain first.
Apply(r, d) ==
  IF r.sum # d.pre THEN [r EXCEPT !.ok = FALSE]
  ELSE [r EXCEPT !.hist = Overlay(r.hist, d), !.sum = Sum(d), !.seq = d.seq]

\* Mutant: the chain alone fences.
PassesAnyWriter(e, r, cursor) == e.seq = r.seq + 1 /\ e.prev = r.env

\* The fences of reconstruct_fenced_follower, in their order.
Passes(e, r, cursor) ==
  /\ e.seq = r.seq + 1
  /\ e.epoch = cursor.epoch
  /\ e.writer = cursor.writer
  /\ e.prev = r.env

\* reconstruct_fenced_follower from a cursor: copy the base, hash the file, then
\* envelope by envelope in the order of the listing, the newest being last.
FencedFrom(cursor, env, h, last) ==
  LET seqs == SetToSortSeq({s \in Behind(envs, cursor.seq) : s <= last}, <)
      step(r, s) ==
        LET e == envs[s]
        IN  IF ~r.ok \/ ~Passes(e, r, cursor) THEN [r EXCEPT !.ok = FALSE]
            ELSE [Apply(r, e.payload) EXCEPT !.env = EnvSum(e)]
  IN  FoldLeft(step, [ok |-> TRUE, seq |-> cursor.seq, hist |-> h, sum |-> FileSum(h),
                      env |-> env], seqs)

Newest(f) == Max(DOMAIN f \cup {0})

FencedFollower(b) == FencedFrom(b, Anchor(b), b.hist, Newest(envs))

\* discover_strict_physical_chain: every changeset behind seq, contiguous, each
\* chained to the one before it.
StrictChain(seq, sum, h) ==
  LET seqs == SetToSortSeq(Behind(deltas, seq), <)
      step(r, s) == IF r.ok /\ s = r.seq + 1 THEN Apply(r, deltas[s]) ELSE [r EXCEPT !.ok = FALSE]
  IN  FoldLeft(step, [ok |-> TRUE, seq |-> seq, hist |-> h, sum |-> sum], seqs)

PlainFollower(b) == StrictChain(b.seq, FileSum(b.hist), b.hist)

Follower(b) == IF mode = "fenced" THEN FencedFollower(b) ELSE PlainFollower(b)

-----------------------------------------------------------------------------
Init ==
  /\ mode \in {"plain", "fenced"} /\ budget \in Budgets
  /\ hist = [n \in Nodes |-> <<First>>] /\ wal = [n \in Nodes |-> [salt |-> 1, base |-> 1]]
  /\ deltas = <<>> /\ envs = <<>>
  /\ lease = [epoch |-> 1, holder |-> First]
  /\ manifest = Base(1, <<First>>, 1, First)
  /\ progress = [n \in Nodes |-> None] /\ st = [n \in Nodes |-> None]
  /\ job = [n \in Nodes |-> None] /\ caveats = {}

(* SQLite and the layer above.                                              *)

\* Only a node that has held the lease has the database open for writing.
Writes(n) == n = lease.holder \/ st[n] # None

Commit(n) ==
  /\ Writes(n) /\ Spend("commit")
  /\ hist' = [hist EXCEPT ![n] = Append(@, n)]
  /\ UNCHANGED <<mode, wal, deltas, envs, manifest, lease, progress, st, job, caveats>>

\* A commit that finds the WAL checkpointed in full restarts it.
CommitRestartsWal(n) ==
  /\ Writes(n) /\ Spend("reset")
  /\ wal' = [wal EXCEPT ![n] = [salt |-> @.salt + 1, base |-> Len(hist[n])]]
  /\ hist' = [hist EXCEPT ![n] = Append(@, n)]
  /\ UNCHANGED <<mode, deltas, envs, manifest, lease, progress, st, job, caveats>>

\* The holder publishes its database as the new base.
PublishBase(n) ==
  /\ n = lease.holder /\ Spend("base")
  /\ \E k \in Skips :
       manifest' = Base(IF st[n] # None THEN st[n].seq + k
                        ELSE Max({manifest.seq} \cup DOMAIN deltas \cup DOMAIN envs),
                        hist[n], lease.epoch, n)
  /\ UNCHANGED <<mode, hist, wal, deltas, envs, lease, progress, st, job, caveats>>

\* Another node takes the lease with what a follower has.
MoveLease(n) ==
  /\ n # lease.holder /\ n # manifest.writer /\ Spend("move")
  /\ Follower(manifest).ok /\ Follower(manifest).hist # Mixed
  /\ lease' = [epoch |-> lease.epoch + 1, holder |-> n]
  /\ hist' = [hist EXCEPT ![n] = Follower(manifest).hist]
  /\ wal' = [wal EXCEPT ![n] = [salt |-> @.salt + 1, base |-> Len(hist'[n])]]
  /\ UNCHANGED <<mode, deltas, envs, manifest, progress, st, job, caveats>>

-----------------------------------------------------------------------------
(* The replicator.                                                          *)

\* off: frames of the WAL shipped; salt: of the WAL they are in; seed: the frame
\* the running WAL checksum stands at; base: external_base; chain: None or the
\* epoch, the writer, the last envelope and the base the envelopes follow.
State(seq, sum, off, salt, seed, base) ==
  [seq |-> seq, sum |-> sum, off |-> off, salt |-> salt, seed |-> seed, base |-> base,
   chain |-> None]

\* ExternalBaseCursor, as the writer keeps it.
Cursor(b) == [seq |-> b.seq, sum |-> FileSum(b.hist)]

Fenced(n) == st[n].chain # None

\* external_same_seq_changeset_checksum: the changeset that has the base's number.
SameSeq(b) == {Sum(deltas[s]) : s \in DOMAIN deltas \cap {b.seq}}

\* The chain behind the base, from the checksum of the base's file or else from
\* that of the changeset that has the base's number; None if neither holds.
DiscoveredHead(b) ==
  LET strict == PlainFollower(b)
      same   == {r \in {StrictChain(b.seq, sum, b.hist) : sum \in SameSeq(b)} : r.ok}
  IN  IF strict.ok THEN strict ELSE IF same # {} THEN CHOOSE r \in same : TRUE ELSE None

\* Mutant: the progress file counts whatever the chain has come to.
ProgressTrusted(n, b, head) == progress[n] # None /\ progress[n].base = Cursor(b)

ProgressMatches(n, b, head) ==
  /\ progress[n] # None /\ progress[n].base = Cursor(b)
  /\ progress[n].seq = head.seq /\ progress[n].sum = head.sum

\* initialize_external_base_state: without a changeset behind the base the WAL is
\* read from its start; else the progress file has to name the head of the chain.
Initialized(n, b) ==
  LET head == DiscoveredHead(b)
  IN  IF head = None THEN None
      ELSE IF head.seq = b.seq THEN State(b.seq, head.sum, 0, None, 0, Cursor(b))
      ELSE IF ProgressMatches(n, b, head)
             THEN State(head.seq, head.sum, progress[n].off, progress[n].salt,
                        progress[n].seed, Cursor(b))
      ELSE None

\* add_external_base_with_wal_path, with the manifest's base; again after a refusal.
Register(n) ==
  /\ n = lease.holder /\ manifest.writer = n /\ job[n] = None
  /\ st[n] = None \/ caveats \cap {"rollover", "refused"} # {}
  /\ LET s == Initialized(n, manifest) IN s # None /\ st' = [st EXCEPT ![n] = s]
  /\ UNCHANGED <<mode, hist, wal, deltas, envs, manifest, lease, progress, job, budget, caveats>>

\* The cursor has passed commits that the base does not have.
Overtaken(n) == st[n].salt = wal[n].salt /\ wal[n].base + st[n].off > Len(manifest.hist)

\* adopt_external_base_cursor: the WAL cursor stays, and no progress is saved.
AdoptBase(n) ==
  /\ st[n] # None /\ job[n] = None /\ n = manifest.writer /\ st[n].base # Cursor(manifest)
  /\ manifest.seq >= st[n].seq
  /\ st' = [st EXCEPT ![n].seq = manifest.seq, ![n].sum = FileSum(manifest.hist),
                      ![n].base = Cursor(manifest)]
  /\ Note("overtaken", Overtaken(n))
  /\ UNCHANGED <<mode, hist, wal, deltas, envs, manifest, lease, progress, job, budget>>

\* set_external_delta_base: the envelopes start over at the base; the running
\* database checksum stays what it is.
SetDeltaBase(n) ==
  /\ mode = "fenced" /\ st[n] # None /\ job[n] = None /\ n = manifest.writer
  /\ manifest.seq >= st[n].seq
  /\ Fenced(n) => st[n].chain.root # manifest
  /\ st' = [st EXCEPT ![n].seq = manifest.seq,
                      ![n].chain = [epoch |-> manifest.epoch, writer |-> n,
                                    prev |-> Anchor(manifest), root |-> manifest]]
  /\ caveats' = caveats \cup (IF st[n].sum # FileSum(manifest.hist) THEN {"unaligned"} ELSE {})
                        \cup (IF Overtaken(n) THEN {"overtaken"} ELSE {})
  /\ UNCHANGED <<mode, hist, wal, deltas, envs, manifest, lease, progress, job, budget>>

-----------------------------------------------------------------------------
(* sync_one_db: flush, the timer and remove all come here, one at a time.   *)

\* Mutant: only a WAL that has shrunk counts as restarted.
SizeRollover(n) == Len(hist[n]) - wal[n].base < st[n].off

\* read_next_wal_batch: the WAL is shorter than the cursor or has another salt.
Rollover(n) ==
  \/ Len(hist[n]) - wal[n].base < st[n].off
  \/ st[n].salt # None /\ st[n].salt # wal[n].salt

\* Frames behind the cursor: none if the running checksum is not that of the
\* frame before them, which reads like a torn tail.
Batch(n) ==
  LET from == wal[n].base + st[n].off
  IN  IF st[n].off = 0 \/ st[n].seed = st[n].off THEN SubSeq(hist[n], from + 1, Len(hist[n]))
      ELSE <<>>

\* The cursor is put back, and the sync fails.
RefuseRollover(n) ==
  /\ st[n] # None /\ job[n] = None /\ Rollover(n)
  /\ Note("rollover", TRUE)
  /\ UNCHANGED <<mode, hist, wal, deltas, envs, manifest, lease, progress, st, job, budget>>

\* The first batch is not of the WAL that follows the base: the replicator has not
\* noted the salt of the one that does.
Unseen(n) == st[n].salt = None /\ wal[n].base > Len(Last(Head(st[n].base.sum)))

\* Mutant: the running WAL checksum stays behind.
ReadBatchKeepsSeed(n) ==
  /\ st[n] # None /\ job[n] = None /\ ~Rollover(n) /\ Batch(n) # <<>>
  /\ LET d == Delta(st[n].seq + 1, st[n].sum, wal[n].base + st[n].off, Batch(n))
     IN  job' = [job EXCEPT ![n] = [delta |-> d, off |-> st[n].off + Len(Batch(n)),
                                    pc |-> "put"]]
  /\ st' = [st EXCEPT ![n].salt = wal[n].salt]
  /\ Note("unseen", Unseen(n))
  /\ UNCHANGED <<mode, hist, wal, deltas, envs, manifest, lease, progress, budget>>

\* The batch is encoded; the salt is noted and the running WAL checksum has
\* moved on before anything is published.
ReadBatch(n) ==
  /\ st[n] # None /\ job[n] = None /\ ~Rollover(n) /\ Batch(n) # <<>>
  /\ LET d == Delta(st[n].seq + 1, st[n].sum, wal[n].base + st[n].off, Batch(n))
     IN  job' = [job EXCEPT ![n] = [delta |-> d, off |-> st[n].off + Len(Batch(n)),
                                    pc |-> "put"]]
  /\ st' = [st EXCEPT ![n].salt = wal[n].salt, ![n].seed = st[n].off + Len(Batch(n))]
  /\ Note("unseen", Unseen(n))
  /\ UNCHANGED <<mode, hist, wal, deltas, envs, manifest, lease, progress, budget>>

\* What is shipped follows the base of the manifest.
Anchored(n) ==
  /\ n = manifest.writer /\ st[n].base = Cursor(manifest)
  /\ Fenced(n) => st[n].chain.root = manifest

\* put_changeset_if_absent and publish_delta_envelope: stored unless something is
\* there; the same bytes are as good as stored, but the same batch encoded again has
\* another time in its header.
StoreDelta(n) ==
  LET d == job[n].delta
      e == Envelope(d, st[n].chain)
  IN  IF Fenced(n)
      THEN /\ envs' = IF d.seq \in DOMAIN envs THEN envs ELSE With(envs, d.seq, e)
           /\ UNCHANGED deltas
      ELSE /\ deltas' = IF d.seq \in DOMAIN deltas THEN deltas ELSE With(deltas, d.seq, d)
           /\ UNCHANGED envs

Stored(n) ==
  LET d == job[n].delta
  IN  IF Fenced(n) THEN envs'[d.seq] = Envelope(d, st[n].chain) ELSE deltas'[d.seq] = d

\* Plain changesets name no writer: a deposed one's are as good as the holder's.
\* And a sync between add and set_external_delta_base ships a plain one.
Unfenced(n) ==
  IF ~Fenced(n) /\ (mode = "fenced" \/ n # lease.holder) THEN {"unfenced"} ELSE {}

\* The put is answered: the cursor moves behind the batch.
Publish(n) ==
  /\ job[n] # None /\ job[n].pc = "put"
  /\ StoreDelta(n) /\ Stored(n)
  /\ job' = [job EXCEPT ![n] = IF Fenced(n) THEN None ELSE [@ EXCEPT !.pc = "save"]]
  /\ LET d == job[n].delta
     IN  st' = [st EXCEPT ![n].seq = d.seq, ![n].sum = Sum(d), ![n].off = job[n].off,
                  ![n].chain = IF Fenced(n)
                               THEN [@ EXCEPT !.prev = EnvSum(Envelope(d, st[n].chain))]
                               ELSE None]
  /\ caveats' = caveats \cup Unfenced(n) \cup (IF Anchored(n) THEN {} ELSE {"raced"})
  /\ UNCHANGED <<mode, hist, wal, manifest, lease, progress, budget>>

\* Other bytes at that number are an equivocation, and the sync fails.
PublishRefused(n) ==
  /\ job[n] # None /\ job[n].pc = "put"
  /\ job[n].delta.seq \in DOMAIN (IF Fenced(n) THEN envs ELSE deltas)
  /\ job' = [job EXCEPT ![n] = None]
  /\ caveats' = caveats \cup {"refused"}
  /\ UNCHANGED <<mode, hist, wal, deltas, envs, manifest, lease, progress, st, budget>>

\* The put fails, with or without effect.
PutFails(n) ==
  /\ job[n] # None /\ job[n].pc = "put" /\ Spend("fail")
  /\ StoreDelta(n) \/ UNCHANGED <<deltas, envs>>
  /\ job' = [job EXCEPT ![n] = None]
  /\ caveats' = caveats \cup Unfenced(n) \cup (IF st[n].off > 0 THEN {"stalled"} ELSE {})
                        \cup (IF <<deltas, envs>>' # <<deltas, envs>> THEN {"unanswered"} ELSE {})
  /\ UNCHANGED <<mode, hist, wal, manifest, lease, progress, st>>

\* save_external_base_progress: a whole file replaces the last one.
SaveProgress(n) ==
  /\ job[n] # None /\ job[n].pc = "save"
  /\ progress' = [progress EXCEPT ![n] =
       [base |-> st[n].base, seq |-> st[n].seq, sum |-> st[n].sum, off |-> st[n].off,
        salt |-> st[n].salt, seed |-> st[n].seed]]
  /\ job' = [job EXCEPT ![n] = None]
  /\ UNCHANGED <<mode, hist, wal, deltas, envs, manifest, lease, st, budget, caveats>>

\* The process ends; a put under way may have taken effect.
Crash(n) ==
  /\ st[n] # None /\ Spend("stop")
  /\ \/ job[n] # None /\ job[n].pc = "put" /\ StoreDelta(n)
     \/ UNCHANGED <<deltas, envs>>
  /\ st' = [st EXCEPT ![n] = None] /\ job' = [job EXCEPT ![n] = None]
  /\ caveats' = caveats \cup IF job[n] = None THEN {} ELSE {"unsaved"} \cup Unfenced(n)
  /\ UNCHANGED <<mode, hist, wal, manifest, lease, progress>>

Replicate(n) ==
  \/ RefuseRollover(n) \/ ReadBatch(n) \/ Publish(n) \/ PublishRefused(n) \/ SaveProgress(n)

Next == \E n \in Nodes :
  \/ Commit(n) \/ CommitRestartsWal(n) \/ PublishBase(n) \/ MoveLease(n)
  \/ Register(n) \/ AdoptBase(n) \/ SetDeltaBase(n)
  \/ Replicate(n) \/ PutFails(n) \/ Crash(n)

Spec == Init /\ [][Next]_vars

\* The timer keeps calling sync_all, and the layer above registers the database
\* and has new bases adopted.
Work == \E n \in Nodes :
  n = lease.holder /\ (Register(n) \/ AdoptBase(n) \/ Replicate(n))

\* There is something of that to do.
Ready ==
  LET n == lease.holder
  IN  IF st[n] = None THEN manifest.writer = n /\ Initialized(n, manifest) # None
      ELSE \/ job[n] # None
           \/ manifest.writer = n /\ st[n].base # Cursor(manifest) /\ manifest.seq >= st[n].seq
           \/ IF Rollover(n) THEN "rollover" \notin caveats ELSE Batch(n) # <<>>

FairSpec == Spec /\ ([]<>~Ready \/ []<><<Work>>_vars)

-----------------------------------------------------------------------------
\* Every variable has its type, and one delta is under way at a time.
TypeOK ==
  /\ \A n \in Nodes : hist[n] \in Seq(Nodes) /\ wal[n].base <= Len(hist[n])
  /\ \A s \in DOMAIN deltas : deltas[s].seq = s
  /\ \A s \in DOMAIN envs : envs[s].seq = s
  /\ lease.holder \in Nodes /\ manifest.epoch <= lease.epoch
  /\ \A n \in Nodes : job[n] # None => st[n] # None /\ job[n].pc \in {"put", "save"}
  /\ caveats \subseteq {"unseen", "overtaken", "unaligned", "rollover", "refused", "stalled",
                        "unanswered", "raced", "unsaved", "unfenced"}

\* Not so after a WAL was restarted before its salt was noted, a base adopted
\* without commits that are shipped already, or a changeset shipped outside
\* the fence.
Followable == caveats \cap {"unseen", "overtaken", "unfenced"} = {}

\* A follower that succeeds has a database its base's writer had: nothing a
\* deposed writer ships, no retried, lost or repeated put, no restart of the WAL
\* and no reopening makes it apply deltas of two databases or skip a commit
\* (reconstruct_fenced_follower, initialize_external_base_state).  All along the
\* variables have their types.
FollowerExact ==
  /\ TypeOK
  /\ Followable =>
       LET r == Follower(manifest) IN r.ok => IsPrefix(r.hist, hist[manifest.writer])

\* What the writer counts as shipped a follower has: with the writer between two
\* syncs and nothing of anyone else behind its number, the follower ends at the
\* writer's sequence number and checksum, with all that is in front of its WAL
\* cursor.
FollowerKeepsUp ==
  Followable /\ "unaligned" \notin caveats =>
    \A n \in Nodes :
      st[n] # None /\ job[n] = None /\ Anchored(n) /\ Newest(deltas) <= st[n].seq
                  /\ Newest(envs) <= st[n].seq =>
        LET r == Follower(manifest)
        IN  /\ r.ok /\ r.seq = st[n].seq /\ r.sum = st[n].sum
            /\ st[n].salt = wal[n].salt => Len(r.hist) >= wal[n].base + st[n].off

\* A process that reopens behind the base reads on exactly where the shipped chain
\* ends, nothing skipped and nothing shipped twice: the progress file is used only
\* if it names the head of the chain (initialize_external_base_state).
ReopenAtHead ==
  [][\A n \in Nodes :
       (/\ st[n] = None /\ st'[n] # None /\ Followable /\ st'[n].salt = wal[n].salt) =>
            Len(PlainFollower(manifest).hist) = wal[n].base + st'[n].off]_vars

\* Once the writer pauses its followers come to have everything, unless one of
\* the things in caveats has happened to the stream.
FollowersCatchUp ==
  <>[](caveats # {} \/ manifest.writer # lease.holder
         \/ Follower(manifest).hist = hist[lease.holder])

\* FencedFollowerResult: "the anchor a resuming follower threads back in as its
\* next base_envelope_checksum".  A follower that has come to some envelope and
\* goes on from there gets what a follower that starts at the base gets.  Does not
\* hold (README, section 6).
FollowerResumes ==
  LET all == FencedFollower(manifest)
  IN  all.ok =>
        \A s \in Behind(envs, manifest.seq) :
          LET r    == FencedFrom(manifest, Anchor(manifest), manifest.hist, s)
              more == FencedFrom([manifest EXCEPT !.seq = r.seq], r.env, r.hist, Newest(envs))
          IN  more.ok /\ more.hist = all.hist

\* "refusing to publish deltas until the external base is re-anchored": a base
\* with everything in front of the WAL lifts the refusal once it is adopted.  Does
\* not hold (README, section 6).
ReanchorLiftsRefusal ==
  [][\A n \in Nodes :
       AdoptBase(n) /\ Len(manifest.hist) >= wal[n].base => ~Rollover(n)']_vars

=============================================================================
