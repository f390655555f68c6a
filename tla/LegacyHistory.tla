---------------------------- MODULE LegacyHistory ----------------------------
(***************************************************************************)
(* What the checksums of the watch commands stand for.  The history of one *)
(* begins with a snapshot of one version, and every batch behind it takes  *)
(* a file of one version to the next one (SoundSum); storage, the cache    *)
(* and the uploads in flight hold such objects (StoreSound); and the       *)
(* frames behind a cursor begin at or below the version its checksum       *)
(* stands for (Tied).                                                      *)
(***************************************************************************)
EXTENDS UploadCache

PageMaps == [0 .. Pages - 1 -> Nat]
Sums     == Seq({"snapshot", "changes", "file"} \X PageMaps) \ {<<>>}
Objects  ==
  [gen : Nat, min : Nat, max : Nat, pages : PageMaps, pre : Sums \cup {<<>>}, sum : Sums,
   layout : Layouts]

\* A listing of the store has a newest TXID and a newest generation.
Bounded(store) == \E b \in Nat : \A o \in store : o.gen <= b /\ o.max <= b

\* The transactions behind from, up to v.
Frames(from, v) == [i \in 1 .. v - from |-> from + i]

\* The history begins with a snapshot.
Anchored(sum) == sum[1][1] = "snapshot"

\* What is restored along the history is one version after each of its steps.
SoundSum(sum) ==
  Anchored(sum) =>
    /\ \A i \in 1 .. Len(sum) : Newest(sum[i][2]) \in Nat
    /\ sum[1][2] = Image(Newest(sum[1][2]))
    /\ \A i \in 1 .. Len(sum) - 1 :
         Overwrite(Image(Newest(sum[i][2])), sum[i + 1][2]) = Image(Newest(sum[i + 1][2]))

SoundObject(o) ==
  /\ SoundSum(o.sum)
  /\ o.gen = 0 => o.pre # <<>> /\ o.sum = ChainSum(o.pre, o.pages)

-----------------------------------------------------------------------------
(* The uploads and the store.                                               *)

\* A flight that carries an object.
Loaded(f) == f.st \in {"put", "landed"}

StoreOK ==
  /\ remote \in SUBSET Objects /\ Bounded(remote)
  /\ \A t \in DOMAIN entries : entries[t] \in Objects
  /\ \A f \in flights : {"ltx", "st"} \subseteq DOMAIN f /\ (Loaded(f) => f.ltx \in Objects)

StoreSound ==
  /\ \A o \in remote : SoundObject(o)
  /\ \A t \in DOMAIN entries : SoundObject(entries[t])
  /\ \A f \in flights : Loaded(f) => SoundObject(f.ltx)

-----------------------------------------------------------------------------
(* The cursor of the task.                                                  *)

Salts == Nat \cup {None}
Wals  == [salt : Nat, base : Nat, open : BOOLEAN]

\* A cursor at off in the WAL with this salt: if that WAL w is there, its frames
\* behind off begin at or below the version the checksum stands for.
Tied(v, w, sum, off, salt) ==
  /\ Shipped(sum) <= v
  /\ salt # None => salt <= w.salt
  /\ salt = None /\ ~w.open => off = 0 /\ Shipped(sum) = v
  /\ salt \in {None, w.salt} /\ w.open => w.base + off <= Shipped(sum)

=============================================================================
