---------------------------- MODULE LegacyStream ----------------------------
(***************************************************************************)
(* The objects the watch commands publish and how a restore reads them     *)
(* back (legacy_manifest.rs, legacy_ltx.rs, legacy_restore.rs).  An object *)
(* is stored under its generation and TXID range: generation 0 holds the   *)
(* incrementals, every later one a snapshot.                               *)
(*                                                                         *)
(* A version of the database is the number of transactions committed, and  *)
(* transaction v writes page v % Pages.  A page map gives for every page   *)
(* the transaction whose content it has, 0 for none.                       *)
(***************************************************************************)
EXTENDS Integers, Sequences, FiniteSets, FiniteSetsExt

CONSTANT Pages

ASSUME PagesAssumption == Pages \in Nat \ {0}

Refused == -1   \* the restore ends in an error
Mixed   == -2   \* the restore succeeds with a file that was never the database

-----------------------------------------------------------------------------
(* Page maps.                                                               *)

NoPages == [p \in 0 .. Pages - 1 |-> 0]

\* The pages of a sequence of frames, each a transaction: the last one counts.
PagesOf(frames) ==
  [p \in DOMAIN NoPages |->
     LET at == {i \in DOMAIN frames : frames[i] % Pages = p}
     IN  IF at = {} THEN 0 ELSE frames[Max(at)]]

Image(v) == PagesOf([i \in 1 .. v |-> i])

Overwrite(file, pages) ==
  [p \in DOMAIN file |-> IF pages[p] = 0 THEN file[p] ELSE pages[p]]

Newest(pages) == Max({pages[p] : p \in DOMAIN pages})

\* How the live file is laid out: as VACUUM INTO lays out its copy of it; otherwise,
\* with pages of one kind at the numbers that differ, so that integrity_check passes
\* one for the other; or with pages of several kinds there, which it tells apart.
Layouts == {"packed", "alike", "apart"}

\* The pages of such a live file, at the numbers VACUUM INTO gives them.
Renumbered(pages) == [p \in DOMAIN pages |-> pages[(p + 1) % Pages]]

\* A file is one version if all its pages are at the numbers of the live file, or all
\* at those of the copy.
VersionOf(file) ==
  LET v == Newest(file)
  IN  IF file = Image(v) \/ file = Renumbered(Image(v)) THEN v ELSE Mixed

-----------------------------------------------------------------------------
(* Objects.  A checksum is the history it is computed from.                 *)

\* compute_db_checksum, and the ChainHasher over the pages of a batch.
DbSum(pages)         == <<<<"snapshot", pages>>>>
ChainSum(pre, pages) == Append(pre, <<"changes", pages>>)

\* VACUUM INTO.
Vacuumed(ver, layout) == IF layout = "packed" THEN Image(ver) ELSE Renumbered(Image(ver))

\* encode_sqlite_snapshot: of a vacuumed copy.
Snapshot(gen, txid, ver, layout) ==
  LET pages == Vacuumed(ver, layout)
  IN  [gen |-> gen, min |-> 1, max |-> txid, pages |-> pages, pre |-> <<>>,
       sum |-> DbSum(pages), layout |-> layout]

\* encode_wal_changes: one TXID for each page of the batch.
Incremental(txid, pages, pre) ==
  [gen |-> 0, min |-> txid + 1,
   max |-> txid + Cardinality({p \in DOMAIN pages : pages[p] # 0}),
   pages |-> pages, pre |-> pre, sum |-> ChainSum(pre, pages), layout |-> "packed"]

\* compute_checksum_from_file: a hash of the main file, which no object carries.
FileSum == <<<<"file", NoPages>>>>

\* The newest transaction a running checksum stands for.
Shipped(sum) == Newest(sum[Len(sum)][2])

\* build_ltx_key: a put replaces what is stored under the same key.
Put(store, o) ==
  {p \in store : <<p.gen, p.min, p.max>> # <<o.gen, o.min, o.max>>} \cup {o}

-----------------------------------------------------------------------------
(* Discovery.                                                               *)

DiscoverTxid(store) == Max({o.max : o \in store} \cup {0})

DiscoverGeneration(store) == Max({o.gen : o \in store} \cup {0})

IsSnapshot(o) == o.gen > 0 \/ (o.min = 1 /\ o.max = 1)

\* find_latest_legacy_snapshot(_at_or_before): the newest generation wins.
Bases(store, target) ==
  {o \in store : IsSnapshot(o) /\ o.max <= target}

LatestBase(store, target) ==
  CHOOSE o \in Bases(store, target) :
    \A p \in Bases(store, target) :
      o.gen > p.gen \/ (o.gen = p.gen /\ o.max >= p.max)

-----------------------------------------------------------------------------
(* Restore.                                                                 *)

\* Mutant: an object is applied whatever it chains from.
ApplyUnchecked(file, o) ==
  [max |-> o.max, sum |-> o.sum, layout |-> file.layout, ok |-> file.ok,
   pages |-> Overwrite(file.pages, o.pages)]

\* apply_ltx_to_db_checked: the object must chain from what is restored, and its
\* pages are written at the numbers they have in the live file.
Apply(file, o) ==
  [max |-> o.max, sum |-> o.sum, layout |-> file.layout,
   ok |-> file.ok /\ o.pre = file.sum,
   pages |-> Overwrite(file.pages, o.pages)]

\* decode_to_db: the snapshot becomes the file; its checksum starts the chain.
Decoded(b) ==
  [max |-> b.max, sum |-> DbSum(b.pages), ok |-> DbSum(b.pages) = b.sum, pages |-> b.pages,
   layout |-> b.layout]

\* verify_sqlite_integrity: structure only.
IntegrityOk(file) == file.layout = "apart" => VersionOf(file.pages) # Mixed

\* plan_restore: from the base, the object that starts right behind what is
\* restored and reaches furthest without passing the target.
RestoreFrom(store, base, target) ==
  LET Next(f) == {o \in store : o.gen = 0 /\ o.min = f.max + 1 /\ o.max <= target}
      Step(f, c) == IF c = {} THEN f
                    ELSE Apply(f, CHOOSE o \in c : \A p \in c : o.max >= p.max)
      files[n \in 0 .. target] ==
        IF n = 0 THEN base ELSE LET f == files[n - 1] IN Step(f, Next(f))
      last == files[target]
  IN  IF last.max # target \/ ~last.ok \/ ~IntegrityOk(last) THEN Refused
      ELSE VersionOf(last.pages)

\* restore_legacy_ltx: the version restored, or how the restore ends.
RestoreTo(store, target) ==
  IF Bases(store, target) = {} THEN Refused
  ELSE RestoreFrom(store, Decoded(LatestBase(store, target)), target)

RestoreLatest(store) == RestoreTo(store, DiscoverTxid(store))

=============================================================================
