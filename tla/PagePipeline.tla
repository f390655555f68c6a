----------------------------- MODULE PagePipeline -----------------------------
(***************************************************************************)
(* The pages of a transaction on their way from the WAL into objects (sync *)
(* and read of sync.rs and wal.rs, ltx.rs) and through a merge (merge.rs,  *)
(* layout.rs).  SQLite writes the WAL frame by frame, rolls back, restarts *)
(* it in place or truncates it; the reader goes over it twice, frame by    *)
(* frame, beside that.  Failed requests are OwnedStream's subject.         *)
(*                                                                         *)
(* A page is the number of the write it has its content from.  The running *)
(* WAL checksum is the salt followed by all writes up to the frame, and    *)
(* the checksum of an object is its number in the stream.                  *)
(***************************************************************************)
EXTENDS Integers, Sequences, FiniteSets, FiniteSetsExt, TLC

CONSTANTS
  None,
  MaxPage,     \* pages of the database at first, and of the largest there is
  Budgets      \* mixes of the environment's steps

\* Frames written; frames seen before their body is there; WAL resets.
PageKinds == {"frame", "torn", "reset"}

ASSUME PageAssumption == MaxPage \in Nat \ {0} /\ Budgets \subseteq [PageKinds -> Nat]

VARIABLES
  wal,      \* the WAL file: salt of its header, 0 without one, and its frames
  sq,       \* SQLite's side of it
  hist,     \* the database after each commit, as a sequence of pages
  cur,      \* the cursor of SyncState: wal_offset, wal_salt, wal_checksum_chain
  rd,       \* the sync under way
  log,      \* objects published
  at,       \* commits that they stand for
  caveats,  \* since the last snapshot: see Caveats
  budget

vars == <<wal, sq, hist, cur, rd, log, at, caveats, budget>>

\* A sync failed after it had seen a rollover; a batch could not be encoded; a WAL
\* was read from its start though the one before it had not been read to its end.
Caveats == {"forgot", "refused", "missed"}

\* sum: the stored checksum, <<>> in a frame whose body is not there yet.
Frame(page, val, size, salt, sum) ==
  [page |-> page, val |-> val, size |-> size, salt |-> salt, sum |-> sum]

\* wal_checksum: a running one, over all frames so far; it starts from the header's.
WalChecksum(seed, val) == Append(seed, val)
HeaderChecksum(salt) == <<salt>>

\* rolled: rollover_detected; salt: of the header the checked read starts from;
\* heads: the frame headers of pass 1; run: the checksum so far; n: frames up to the
\* last commit; pages, i: what pass 2 has so far.
NoRead ==
  [pc |-> "idle", rolled |-> FALSE, salt |-> 0, full |-> 0, heads |-> <<>>, run |-> None,
   n |-> 0, pages |-> <<>>, i |-> 0]

\* An encoded changeset: its pages, the checksum of the one before, its own, and for a
\* merged one the checksum its header declares.
Changeset(pages, prev, sum, declared) ==
  [pages |-> pages, prev |-> prev, sum |-> sum, declared |-> declared]

\* A page without content, one behind the end of the database, says where that is.
Marker(size) == size + 1 :> None

\* Checksums of what is published: numbers, here.
SumOf(n) == <<n>>

\* encode_snapshot_with_checksum: every page of the file, and no marker.
Snapshot(image, n) == Changeset(image, SumOf(n - 1), SumOf(n), None)

Init ==
  /\ wal = [salt |-> 0, frames |-> <<>>]
  /\ sq = [done |-> 0, end |-> 0, salt |-> 1, writes |-> 0, torn |-> FALSE, base |-> 1]
  /\ hist = << [p \in 1 .. MaxPage |-> 0] >>
  /\ cur = [offset |-> 0, salt |-> None, chain |-> None]
  /\ rd = NoRead
  /\ log = << Snapshot(hist[1], 1) >> /\ at = 1
  /\ caveats = {}
  /\ budget \in Budgets

-----------------------------------------------------------------------------
(* SQLite.                                                                  *)

Chain(frames, salt, n) == IF n = 0 THEN HeaderChecksum(salt) ELSE frames[n].sum

\* The pages of the open transaction, in the order they were written.
Written(frames, end) == SubSeq(frames, sq.done + 1, end)

\* A transaction writes every page it adds to the file, and none behind its end.
Commits(frames, end) ==
  LET tx == Written(frames, end)
      ps == {tx[i].page : i \in DOMAIN tx}
      size == tx[Len(tx)].size
  IN  size > 0 /\ ps \subseteq 1 .. size /\ Len(hist[Len(hist)]) + 1 .. size \subseteq ps

Committed(frames, end) ==
  LET tx == Written(frames, end)
      old == hist[Len(hist)]
  IN  [p \in 1 .. tx[Len(tx)].size |->
         LET at_p == {i \in DOMAIN tx : tx[i].page = p}
         IN  IF at_p = {} THEN old[p] ELSE tx[Max(at_p)].val]

\* A frame is complete: with a size in it, the transaction is committed.
Completed(frames, end) ==
  IF frames[end].size = 0
  THEN sq' = [sq EXCEPT !.end = end, !.writes = frames[end].val, !.torn = FALSE] /\ UNCHANGED hist
  ELSE /\ Commits(frames, end)
       /\ hist' = Append(hist, Committed(frames, end))
       /\ sq' = [sq EXCEPT !.done = end, !.end = end, !.writes = frames[end].val, !.torn = FALSE]

\* The first frame goes behind a header with the next salt; a frame replaces what
\* is left of an older generation or of a transaction rolled back.
Placed(f) ==
  IF Len(wal.frames) > sq.end THEN [wal.frames EXCEPT ![sq.end + 1] = f] ELSE Append(wal.frames, f)

WriteFrame ==
  /\ ~sq.torn /\ budget["frame"] > 0
  /\ \E p \in 1 .. MaxPage, size \in 0 .. MaxPage, torn \in BOOLEAN :
       LET salt == IF wal.salt = 0 THEN sq.salt ELSE wal.salt
           val  == sq.writes + 1
           sum  == WalChecksum(Chain(wal.frames, salt, sq.end), val)
           fs   == Placed(Frame(p, val, size, salt, IF torn THEN <<>> ELSE sum))
       IN  /\ torn => budget["torn"] > 0
           /\ wal' = [salt |-> salt, frames |-> fs]
           /\ IF torn
              THEN /\ (size > 0 => Commits(fs, sq.end + 1))
                   /\ sq' = [sq EXCEPT !.torn = TRUE] /\ UNCHANGED hist
              ELSE Completed(fs, sq.end + 1)
           /\ budget' = [budget EXCEPT !["frame"] = @ - 1, !["torn"] = IF torn THEN @ - 1 ELSE @]
  /\ UNCHANGED <<cur, rd, log, at, caveats>>

FinishFrame ==
  /\ sq.torn
  /\ LET e  == sq.end + 1
         fs == [wal.frames EXCEPT ![e].sum = WalChecksum(Chain(wal.frames, wal.salt, sq.end), wal.frames[e].val)]
     IN  wal' = [wal EXCEPT !.frames = fs] /\ Completed(fs, e)
  /\ UNCHANGED <<cur, rd, log, at, caveats, budget>>

\* The frames stay in the file and the next transaction starts in their place.
Rollback ==
  /\ sq.end > sq.done \/ sq.torn
  /\ sq' = [sq EXCEPT !.end = sq.done, !.torn = FALSE, !.writes = IF sq.torn THEN @ + 1 ELSE @]
  /\ UNCHANGED <<wal, hist, cur, rd, log, at, caveats, budget>>

\* Everything is checkpointed: the WAL starts over with a new salt, the old frames
\* still in place, or is truncated.
Reset ==
  /\ sq.done > 0 /\ sq.end = sq.done /\ ~sq.torn
  /\ budget["reset"] > 0 /\ budget' = [budget EXCEPT !["reset"] = @ - 1]
  /\ \/ wal' = [wal EXCEPT !.salt = sq.salt + 1] /\ sq' = [sq EXCEPT !.done = 0, !.end = 0, !.salt = @ + 1, !.base = Len(hist)]
     \/ wal' = [salt |-> 0, frames |-> <<>>] /\ sq' = [sq EXCEPT !.done = 0, !.end = 0, !.salt = @ + 1, !.base = Len(hist)]
  /\ UNCHANGED <<hist, cur, rd, log, at, caveats>>

-----------------------------------------------------------------------------
(* read_next_wal_batch.                                                     *)

ReadHeader ==
  /\ rd.pc = "idle" /\ wal.salt # 0
  /\ rd' = [NoRead EXCEPT !.pc = "size", !.salt = wal.salt]
  /\ UNCHANGED <<wal, sq, hist, cur, log, at, caveats, budget>>

\* Mutant: a WAL that starts over in place goes unnoticed.
SizeRollover(size) == size < cur.offset

\* The WAL is shorter than the offset, or has another salt.
Rollover(size) == size < cur.offset \/ (cur.salt # None /\ cur.salt # rd.salt)

Rewound == [cur EXCEPT !.offset = 0, !.chain = None]

ReadSize ==
  /\ rd.pc = "size"
  /\ LET rolled == Rollover(Len(wal.frames))
     IN  /\ cur' = [(IF rolled THEN Rewound ELSE cur) EXCEPT !.salt = rd.salt]
         /\ rd' = [rd EXCEPT !.pc = "open", !.rolled = rolled]
  /\ UNCHANGED <<wal, sq, hist, log, at, caveats, budget>>

(* read_frames_as_page_map_checked.                                         *)

Start(salt) == IF cur.offset = 0 THEN HeaderChecksum(salt) ELSE cur.chain

\* It takes the length of the file and its header, and there may be no frame.
OpenWal ==
  /\ rd.pc = "open"
  /\ rd' = IF cur.offset >= Len(wal.frames) THEN [rd EXCEPT !.pc = "done"]
           ELSE [rd EXCEPT !.pc = "pass1", !.salt = wal.salt, !.full = Len(wal.frames) - cur.offset,
                           !.run = Start(wal.salt)]
  /\ caveats' = caveats \cup
       (IF cur.offset = 0 /\ ~rd.rolled /\ at < sq.base THEN {"missed"} ELSE {})
  /\ UNCHANGED <<wal, sq, hist, cur, log, at, budget>>

\* The sync ends in an error; the cursor stays as it is by now.
ReadFails == rd' = NoRead /\ caveats' = caveats \cup (IF rd.rolled THEN {"forgot"} ELSE {})

\* Mutant: checksums are not compared.
VerifyNothing(seed, f) == TRUE

\* verify_frame_checksum.
VerifyFrame(seed, f) == f.sum = WalChecksum(seed, f.val)

\* The last frame with a size in it, 0 if there is none.
LastCommit(heads) == Max({0} \cup {i \in DOMAIN heads : heads[i].size > 0})

\* Pass 1 is over.
Close(heads, run) ==
  IF LastCommit(heads) = 0 THEN [rd EXCEPT !.pc = "done", !.heads = <<>>, !.run = None]
  ELSE [rd EXCEPT !.pc = "pass2", !.heads = heads, !.n = LastCommit(heads), !.run = Start(rd.salt)]

\* Pass 1: headers, up to a frame of another generation or one that does not follow
\* in the checksum chain.
Pass1 ==
  /\ rd.pc = "pass1"
  /\ LET k == cur.offset + Len(rd.heads) + 1 IN
     IF k > Len(wal.frames) THEN ReadFails
     ELSE LET f     == wal.frames[k]
              heads == Append(rd.heads, [page |-> f.page, size |-> f.size])
          IN  /\ UNCHANGED caveats
              /\ rd' = IF f.salt # rd.salt \/ ~VerifyFrame(rd.run, f) THEN Close(rd.heads, rd.run)
                       ELSE IF Len(heads) = rd.full THEN Close(heads, f.sum)
                       ELSE [rd EXCEPT !.heads = heads, !.run = f.sum]
  /\ UNCHANGED <<wal, sq, hist, cur, log, at, budget>>

\* Pass 2: the pages up to the last commit; the checksums must still match.
Pass2 ==
  /\ rd.pc = "pass2" /\ rd.i < rd.n
  /\ LET k == cur.offset + rd.i + 1 IN
     IF k > Len(wal.frames) \/ ~VerifyFrame(rd.run, wal.frames[k]) THEN ReadFails
     ELSE /\ rd' = [rd EXCEPT !.i = @ + 1, !.run = wal.frames[k].sum,
                              !.pages = (rd.heads[rd.i + 1].page :> wal.frames[k].val) @@ @]
          /\ UNCHANGED caveats
  /\ UNCHANGED <<wal, sq, hist, cur, log, at, budget>>

\* detect_reset_during_read: first the length of the file,
DetectShrink ==
  /\ rd.pc = "pass2" /\ rd.i = rd.n
  /\ IF Len(wal.frames) < cur.offset + rd.n THEN ReadFails
     ELSE rd' = [rd EXCEPT !.pc = "salt"] /\ UNCHANGED caveats
  /\ UNCHANGED <<wal, sq, hist, cur, log, at, budget>>

\* then its header, if there is one.
DetectSalt ==
  /\ rd.pc = "salt"
  /\ IF wal.salt \notin {0, rd.salt} THEN ReadFails /\ UNCHANGED cur
     ELSE /\ rd' = [rd EXCEPT !.pc = "done"] /\ UNCHANGED caveats
          /\ cur' = [cur EXCEPT !.chain = rd.run]
  /\ UNCHANGED <<wal, sq, hist, log, at, budget>>

-----------------------------------------------------------------------------
(* sync_wal_with_sequence.                                                  *)

NothingRead ==
  /\ rd.pc = "done" /\ ~rd.rolled /\ rd.n = 0
  /\ rd' = NoRead
  /\ UNCHANGED <<wal, sq, hist, cur, log, at, caveats, budget>>

\* encode_wal_changes_with_end_page_count: a page behind the end is an error.
Encodes(pages, size) == DOMAIN pages \subseteq 1 .. size

Encoded(pages, size, n) == Changeset(Marker(size) @@ pages, SumOf(n - 1), SumOf(n), None)

\* Mutant: the frames of a transaction under way are skipped.
ConsumedAll == Len(rd.heads)

Consumed == rd.n

Publish ==
  /\ rd.pc = "done" /\ ~rd.rolled /\ rd.n > 0
  /\ LET size == rd.heads[rd.n].size
     IN  IF Encodes(rd.pages, size)
         THEN /\ log' = Append(log, Encoded(rd.pages, size, Len(log) + 1))
              /\ cur' = [cur EXCEPT !.offset = @ + Consumed]
              /\ at' = at + Cardinality({i \in 1 .. rd.n : rd.heads[i].size > 0})
              /\ UNCHANGED caveats
         ELSE caveats' = caveats \cup {"refused"} /\ UNCHANGED <<log, cur, at>>
  /\ rd' = NoRead
  /\ UNCHANGED <<wal, sq, hist, budget>>

\* take_snapshot: the checkpoint truncates the WAL; with a transaction open it is
\* busy, which ends the sync.
TakeSnapshot ==
  /\ rd.pc = "done" /\ rd.rolled
  /\ IF sq.end = sq.done /\ ~sq.torn
     THEN /\ log' = Append(log, Snapshot(hist[Len(hist)], Len(log) + 1)) /\ at' = Len(hist)
          /\ wal' = [salt |-> 0, frames |-> <<>>]
          /\ sq' = [sq EXCEPT !.done = 0, !.end = 0, !.salt = @ + 1, !.base = Len(hist)]
          /\ cur' = [offset |-> 0, salt |-> None, chain |-> None]
          /\ rd' = NoRead /\ caveats' = {}
     ELSE ReadFails /\ UNCHANGED <<log, at, wal, sq, cur>>
  /\ UNCHANGED <<hist, budget>>

Read == ReadHeader \/ ReadSize \/ OpenWal \/ Pass1 \/ Pass2 \/ DetectShrink \/ DetectSalt
Sync == Read \/ NothingRead \/ Publish \/ TakeSnapshot
SQLite == WriteFrame \/ FinishFrame \/ Rollback \/ Reset

Next == Sync \/ SQLite

Spec == Init /\ [][Next]_vars

\* The sync timer keeps ticking, and its file operations end.
FairSpec == Spec /\ WF_vars(Sync)

-----------------------------------------------------------------------------
(* The changesets, read back.                                               *)

\* changeset_end_page_count: what the markers say.
EndPageCounts(pages) == {p - 1 : p \in {q \in DOMAIN pages : pages[q] = None}}

\* validate_sqlite_changeset: one marker at most, and no page behind the end.
Valid(pages) ==
  /\ Cardinality(EndPageCounts(pages)) <= 1
  /\ \A p \in DOMAIN pages, end \in EndPageCounts(pages) : p <= end + 1

\* decode_to_db: a snapshot is as long as its last page says; a hole is zero.
Decoded(pages) == [p \in 1 .. Max(DOMAIN pages) |-> IF p \in DOMAIN pages THEN pages[p] ELSE 0]

\* apply_decoded_changeset_to_db: the pages are written over the file, then it gets its
\* length; what neither has is zero.
Applied(image, pages) ==
  LET ends == EndPageCounts(pages)
  IN  [p \in 1 .. (IF ends = {} THEN Max({Len(image)} \cup DOMAIN pages) ELSE Max(ends)) |->
         IF p \in DOMAIN pages THEN pages[p] ELSE IF p <= Len(image) THEN image[p] ELSE 0]

-----------------------------------------------------------------------------
(* merge_changesets.                                                        *)

\* What the merge sees of a changeset: where it starts and ends in the chain, and its
\* pages, in a stream.
Source(prev, end, pages) == [prev |-> prev, end |-> end, pages |-> pages]

\* parse_source_header: a merged changeset declares its end of the chain.
ChainEnd(c) == IF c.declared # None THEN c.declared ELSE c.sum

HadbpSource(c) == Source(c.prev, ChainEnd(c), c.pages)

\* LtxChangesetStream: an LTX file of the same batch has its size in the header, for which
\* the stream ends in a marker.
LtxSource(pages, size, prev, post) == Source(prev, post, Marker(size) @@ pages)

\* The last source that has a page wins, a marker among them.
Winners(run) ==
  [p \in UNION {DOMAIN run[i].pages : i \in DOMAIN run} |->
     run[Max({i \in DOMAIN run : p \in DOMAIN run[i].pages})].pages[p]]

\* Mutant: a page stays although the database ends below it.
EmitsOrphans(page, p, ends) == page # None

\* should_emit: no superseded marker, and no page behind the end.
Emits(page, p, ends) == page # None /\ \A end \in ends : p <= end

\* Each source starts where the one before ends.
Contiguous(run) == \A i \in 1 .. Len(run) - 1 : run[i + 1].prev = run[i].end

Merge(run) ==
  LET win   == Winners(run)
      ends  == EndPageCounts(run[Len(run)].pages)
      pages == [p \in {q \in DOMAIN win : Emits(win[q], q, ends)} |-> win[p]]
               @@ [p \in {end + 1 : end \in ends} |-> None]
  IN  Changeset(pages, run[1].prev, <<run[1].prev, pages>>, run[Len(run)].end)

-----------------------------------------------------------------------------

\* The database after each object.
Images ==
  LET image[i \in DOMAIN log] ==
        IF EndPageCounts(log[i].pages) = {} THEN Decoded(log[i].pages)
        ELSE Applied(image[i - 1], log[i].pages)
  IN  image

\* The runs of incremental objects between two snapshots.
Runs ==
  {r \in (DOMAIN log) \X (DOMAIN log) :
     r[1] <= r[2] /\ \A i \in r[1] .. r[2] : EndPageCounts(log[i].pages) # {}}

\* The objects of a run, as HADBP or as LTX files.
HadbpRun(r) == [i \in 1 .. r[2] - r[1] + 1 |-> HadbpSource(log[r[1] + i - 1])]
LtxRun(r) ==
  [i \in 1 .. r[2] - r[1] + 1 |->
     LET c    == log[r[1] + i - 1]
         size == Max(EndPageCounts(c.pages))
     IN  LtxSource([p \in (DOMAIN c.pages) \ {size + 1} |-> c.pages[p]], size, c.prev, c.sum)]

-----------------------------------------------------------------------------

\* Types; a cursor inside the WAL has the checksum to go on from (read_next_wal_batch
\* resets both on a rollover, and a read without it would check nothing).
TypeOK ==
  /\ wal.salt \in 0 .. sq.salt /\ \A i \in DOMAIN wal.frames : wal.frames[i].salt \in 1 .. sq.salt
  /\ sq.done <= sq.end /\ sq.end <= Len(wal.frames)
  /\ rd.pc \in {"idle", "size", "open", "pass1", "pass2", "salt", "done"}
  /\ cur.offset \in Nat /\ (cur.offset > 0 => cur.chain # None)
  /\ caveats \subseteq Caveats

\* What read_next_wal_batch makes of a WAL that is written, rolled back, restarted or
\* truncated under it is whole transactions, all and in order: the objects are valid and
\* give, after each of them, the database as of the last transaction in them.
FollowerExact ==
  /\ \A i \in DOMAIN log : Valid(log[i].pages)
  /\ caveats = {} => at \in DOMAIN hist /\ Images[Len(log)] = hist[at]

\* merge_changesets: one object in place of a run of incrementals, whatever grew and
\* shrank among them, is valid, leads to the same database, and takes the run's place in
\* the chain: it can be merged again with what follows, to the same effect.
MergeExact ==
  \A r \in Runs, ltx \in BOOLEAN :
    LET run  == IF ltx THEN LtxRun(r) ELSE HadbpRun(r)
        one  == Merge(run)
    IN  /\ Contiguous(run) /\ Valid(one.pages)
        /\ Applied(Images[r[1] - 1], one.pages) = Images[r[2]]
        /\ \A i \in 1 .. Len(run) - 1 :
             LET two == <<HadbpSource(Merge(SubSeq(run, 1, i))), HadbpSource(Merge(SubSeq(run, i + 1, Len(run))))>>
             IN  Contiguous(two) /\ Merge(two) = one

\* The offset is behind a commit and the running checksum is the one stored there: only
\* then does the next read take the frames that follow (read_frames_as_page_map_checked
\* recomputes it over the frames consumed).  All along the variables have their types.
CursorAligned ==
  /\ TypeOK
  /\ caveats = {} /\ rd.pc = "idle" /\ cur.offset > 0 /\ cur.salt = wal.salt =>
       /\ cur.offset <= sq.done
       /\ wal.frames[cur.offset].size > 0 /\ wal.frames[cur.offset].sum = cur.chain

\* A batch of committed transactions can always be published (end_page_count: "Handles
\* shrink / grow / VACUUM / truncate.").  Does not hold (README, section 6).
NeverRefused == "refused" \notin caveats

\* Every commit is published, once SQLite is done with the WAL and it has a header.
Ships == <>[](at = Len(hist) \/ caveats # {} \/ wal.salt = 0)

=============================================================================
