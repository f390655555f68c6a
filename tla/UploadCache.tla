----------------------------- MODULE UploadCache -----------------------------
(***************************************************************************)
(* The local upload cache and the task that uploads from it                *)
(* (legacy_cache.rs, legacy_uploader.rs): cached objects and their         *)
(* manifest on disk, notifications in a channel, uploads in flight.  The   *)
(* actions are steps of the uploader; the operations a watcher calls are   *)
(* action operators it conjoins with its own step.                         *)
(***************************************************************************)
EXTENDS LegacyStream

CONSTANTS
  None,         \* no object, no salt
  Concurrency,  \* uploads in flight at a time
  MaxTxid       \* TXIDs the watcher may reach

ASSUME UploaderAssumption == Concurrency \in Nat \ {0} /\ MaxTxid \in Nat /\ None \notin Nat

VARIABLES
  remote,    \* storage: the objects of the database
  entries,   \* cache: the cached objects, by TXID
  pending,   \* manifest: TXIDs to upload
  failed,    \* manifest: TXIDs whose upload was given up
  uploaded,  \* manifest: entries confirmed durable
  contig,    \* manifest: last_contiguous_uploaded_txid
  top,       \* manifest: last_uploaded_txid, the highest ever confirmed
  resume,    \* pending uploads found at startup, not begun
  queue,     \* TXIDs in the notification channel
  flights,   \* uploads in flight
  uploader,  \* "off", "run", "drain", "drainErr", "done" or "halted"
  budget     \* faults and environment steps left

manifest == <<entries, pending, failed, uploaded, contig, top>>
tasks    == <<resume, queue, flights, uploader>>

Spend(k) == budget[k] > 0 /\ budget' = [budget EXCEPT ![k] = @ - 1]

-----------------------------------------------------------------------------
(* The cache.                                                               *)

Covers(o, txid) == o.min <= txid /\ txid <= o.max

\* Mutant: the highest TXID uploaded.
HighestUploaded(ents, up, fail, from) == Max({ents[t].max : t \in up} \cup {from})

\* recompute_contiguous: forward over uploaded entries, up to a gap or a
\* failed upload.
Contiguous(ents, up, fail, from) ==
  LET Reach(c)    == {ents[t].max : t \in {u \in up : Covers(ents[u], c + 1)}}
      Blocked(c)  == \E t \in fail : IF t \in DOMAIN ents THEN Covers(ents[t], c + 1)
                                                        ELSE t = c + 1
      cursor[n \in 0 .. MaxTxid] ==
        IF n = 0 THEN from
        ELSE LET c == cursor[n - 1]
             IN  IF Blocked(c) THEN c ELSE Max(Reach(c) \cup {c})
  IN  cursor[MaxTxid]

\* write_ltx, write_snapshot_ltx: the file, then the manifest.
WriteLtx(o) ==
  /\ entries'  = [t \in DOMAIN entries \cup {o.max} |-> IF t = o.max THEN o ELSE entries[t]]
  /\ pending'  = pending \cup {o.max}
  /\ uploaded' = uploaded \ {o.max}
  /\ UNCHANGED <<failed, contig, top>>

MarkUploaded(txid) ==
  /\ pending'  = pending \ {txid}
  /\ failed'   = failed \ {txid}
  /\ uploaded' = uploaded \cup ({txid} \cap DOMAIN entries)
  /\ contig'   = Contiguous(entries, uploaded', failed', contig)
  /\ top'      = Max({top, txid})
  /\ UNCHANGED entries

MarkFailed(txid) ==
  /\ pending' = pending \ {txid}
  /\ failed'  = failed \cup {txid}
  /\ contig'  = Contiguous(entries, uploaded, failed', contig)
  /\ UNCHANGED <<entries, uploaded, top>>

\* reenqueue_failed_uploads_on_startup refuses a failed TXID without a file or
\* marked uploaded.
Reopenable == failed \subseteq DOMAIN entries \ uploaded

\* What cleanup may remove: uploaded, at or below the durable cursor and below
\* the newest cached snapshot.
Evictable ==
  LET bases == {t \in DOMAIN entries : entries[t].gen > 0}
  IN  {t \in uploaded : /\ entries[t].max <= contig
                        /\ bases # {} => t < Max(bases)}

\* cleanup: by age and by size, in the order in which they were uploaded.
Evict ==
  /\ \E gone \in SUBSET Evictable \ {{}} :
       /\ entries'  = [t \in DOMAIN entries \ gone |-> entries[t]]
       /\ uploaded' = uploaded \ gone
  /\ UNCHANGED <<pending, failed, contig, top>>

\* A stream that goes on from txid writes over what still waits in the cache.
Clashes(waiting, txid) ==
  \E t \in waiting : t > txid \/ (t = txid /\ entries[t].gen > 0)

-----------------------------------------------------------------------------
(* `walrust restore --cache`: what storage lists, read from the cache where  *)
(* it can be.                                                               *)

\* Mutant: the cached object with the same last TXID.
SameEnd(o) ==
  IF o.max \in DOMAIN entries THEN [entries[o.max] EXCEPT !.gen = o.gen] ELSE o

\* cache_substitute_for_key: the cached object with the TXID range of the key,
\* of whatever generation.
Substitute(o) ==
  IF o.max \in DOMAIN entries /\ entries[o.max].min = o.min
    THEN [entries[o.max] EXCEPT !.gen = o.gen] ELSE o

\* CachedLegacyStorage: listings come from storage, contents may not.
CacheView == {Substitute(o) : o \in remote}

RestoreThroughCache(target) == RestoreTo(CacheView, target)

-----------------------------------------------------------------------------
(* The uploader.                                                            *)

\* pending_uploads: in ascending order.
Ascending(txids) ==
  [i \in 1 .. Cardinality(txids) |->
     CHOOSE t \in txids : Cardinality({u \in txids : u <= t}) = i]

\* new_at, then run: failed uploads are pending again, and every pending one
\* is resumed.
OpenCache ==
  /\ pending'  = pending \cup failed
  /\ failed'   = {}
  /\ contig'   = IF failed = {} THEN contig ELSE Contiguous(entries, uploaded, {}, contig)
  /\ resume'   = Ascending(pending')
  /\ queue'    = <<>> /\ flights' = {} /\ uploader' = "run"
  /\ UNCHANGED <<entries, uploaded, top>>

\* The uploader's future is dropped: its uploads are aborted.
DropUploader(state) ==
  resume' = <<>> /\ queue' = <<>> /\ flights' = {} /\ uploader' = state

\* Mutant: a notification the uploader is too busy to take is dropped.
TryNotifyUploader(txid) ==
  /\ queue' = IF uploader = "run" /\ flights = {} THEN Append(queue, txid) ELSE queue
  /\ UNCHANGED <<resume, flights, uploader>>

\* sync_wal_to_cache ignores that the uploader is gone.
NotifyUploader(txid) ==
  /\ queue' = IF uploader = "run" THEN Append(queue, txid) ELSE queue
  /\ UNCHANGED <<resume, flights, uploader>>

\* upload_txid reads the cached file first; one that is missing is an error
\* that marks nothing.
Begun(txid, slot) ==
  IF txid \in DOMAIN entries
    THEN [txid |-> txid, slot |-> slot, ltx |-> entries[txid], st |-> "put"]
    ELSE [txid |-> txid, slot |-> slot, ltx |-> None, st |-> "err"]

\* What was pending at startup goes first, then what the channel holds.
BeginUpload ==
  /\ uploader = "run" /\ Cardinality(flights) < Concurrency
  /\ \E slot \in (1 .. Concurrency) \ {f.slot : f \in flights} :
       /\ \A s \in (1 .. Concurrency) \ {f.slot : f \in flights} : slot <= s
       /\ \/ resume # <<>> /\ flights' = flights \cup {Begun(Head(resume), slot)}
             /\ resume' = Tail(resume) /\ UNCHANGED queue
          \/ resume = <<>> /\ queue # <<>> /\ flights' = flights \cup {Begun(Head(queue), slot)}
             /\ queue' = Tail(queue) /\ UNCHANGED resume
  /\ UNCHANGED <<remote, manifest, uploader, budget>>

Moved(f, st) == (flights \ {f}) \cup {[f EXCEPT !.st = st]}

\* The object arrives in storage.
Land(f) ==
  /\ f.st = "put"
  /\ remote'  = Put(remote, f.ltx)
  /\ flights' = Moved(f, "landed")
  /\ UNCHANGED <<manifest, resume, queue, uploader, budget>>

\* The put is answered with success.
Confirm(f) ==
  /\ f.st = "landed"
  /\ MarkUploaded(f.txid)
  /\ flights' = flights \ {f}
  /\ UNCHANGED <<remote, resume, queue, uploader, budget>>

\* The put is answered with a transient error, or its answer is lost.
RetryUpload(f) ==
  /\ f.st = "landed"
  /\ Spend("retry")
  /\ flights' = Moved(f, "put")
  /\ UNCHANGED <<remote, manifest, resume, queue, uploader>>

\* An authentication error, an error that is not retryable, retries used up.
GiveUpUpload(f) ==
  /\ f.st \in {"put", "landed"}
  /\ Spend("fail")
  /\ MarkFailed(f.txid)
  /\ flights' = Moved(f, "err")
  /\ UNCHANGED <<remote, resume, queue, uploader>>

\* A failed upload halts the uploader; during the drain the others go on.
Reap(f) ==
  /\ f.st = "err"
  /\ \/ uploader = "run" /\ DropUploader("halted")
     \/ /\ uploader \in {"drain", "drainErr"}
        /\ flights' = flights \ {f} /\ uploader' = "drainErr"
        /\ UNCHANGED <<resume, queue>>
  /\ UNCHANGED <<remote, manifest, budget>>

\* The Shutdown message, or the end of the channel, behind all notifications.
StartDrain ==
  /\ uploader = "run" /\ resume = <<>> /\ queue = <<>>
  /\ Cardinality(flights) < Concurrency
  /\ uploader' = "drain"
  /\ UNCHANGED <<remote, manifest, resume, queue, flights, budget>>

\* Mutant: the drain ends well whatever the uploads came to.
FinishDrainRegardless ==
  /\ uploader \in {"drain", "drainErr"} /\ flights = {}
  /\ uploader' = "done"
  /\ UNCHANGED <<remote, manifest, resume, queue, flights, budget>>

FinishDrain ==
  /\ uploader \in {"drain", "drainErr"} /\ flights = {}
  /\ uploader' = IF uploader = "drain" /\ failed = {} THEN "done" ELSE "halted"
  /\ UNCHANGED <<remote, manifest, resume, queue, flights, budget>>

Uploading ==
  \/ BeginUpload
  \/ \E f \in flights : Land(f) \/ Confirm(f) \/ RetryUpload(f) \/ GiveUpUpload(f) \/ Reap(f)
  \/ FinishDrain

\* The uploader has something to do.
UploadReady ==
  \/ flights # {} \/ uploader \in {"drain", "drainErr"}
  \/ uploader = "run" /\ (resume # <<>> \/ queue # <<>>)

=============================================================================
