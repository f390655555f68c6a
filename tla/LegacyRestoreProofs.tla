------------------------- MODULE LegacyRestoreProofs -------------------------
(***************************************************************************)
(* A restore from the objects of the watch commands, for any number of     *)
(* pages and objects: if every checksum stands for a version, a restore    *)
(* that succeeds returns one (RestoreIsSound).                             *)
(*                                                                         *)
(* Then what the tasks of both watch commands share: a snapshot and a      *)
(* batch behind a tied cursor have such checksums, the application and     *)
(* other connections leave ties alone, and cache, uploader and storage     *)
(* pass on only what they were given.                                      *)
(***************************************************************************)
EXTENDS LegacyHistory, FiniteSetTheorems, TLAPS

-----------------------------------------------------------------------------
\* A set of naturals has a least element.
LEMMA LeastExists ==
  ASSUME NEW S \in SUBSET Nat, S # {}
  PROVE  \E x \in S : \A y \in S : x <= y
<1>1. PICK x \in S : \A y \in S : ~(<<y, x>> \in OpToRel(<, Nat))
  BY Zenon, NatLessThanWellFounded, WFMin
<1>2. \A y \in S : x <= y
  <2> SUFFICES ASSUME NEW y \in S, y < x PROVE FALSE
    OBVIOUS
  <2>1. <<y, x>>[1] < <<y, x>>[2] /\ <<y, x>> \in Nat \X Nat
    BY Zenon
  <2>2. <<y, x>> \in OpToRel(<, Nat)
    BY <2>1, Zenon DEF OpToRel
  <2> QED
    BY <1>1, <2>2, Zenon
<1> QED
  BY Zenon, <1>2

\* A set of naturals with a bound has a greatest element, and that is Max.
LEMMA MaxIsGreatest ==
  ASSUME NEW S \in SUBSET Nat, S # {}, NEW b \in Nat, \A x \in S : x <= b
  PROVE  Max(S) \in S /\ \A y \in S : y <= Max(S)
<1> DEFINE up == {u \in Nat : \A x \in S : x <= u}
<1>1. up \in SUBSET Nat /\ up # {}
  BY Zenon
<1>2. PICK m \in up : \A u \in up : m <= u
  BY Zenon, <1>1, LeastExists
<1>3. m \in S
  <2> SUFFICES ASSUME m \notin S PROVE FALSE
    OBVIOUS
  <2>0. PICK x \in S : TRUE
    BY Zenon
  <2>1. \A y \in S : y < m /\ y <= m - 1
    BY <1>2
  <2>2. m - 1 \in Nat
    BY <1>2, <2>0, <2>1
  <2>3. m - 1 \in up
    BY Zenon, <2>1, <2>2
  <2> QED
    BY <1>2, <2>2, <2>3
<1>4. m \in S /\ \A y \in S : m >= y
  BY <1>2, <1>3
<1> DEFINE P(x) == x \in S /\ \A y \in S : x >= y
<1>5. P(m)
  BY Zenon, <1>4
<1> HIDE DEF P
<1>6. P(CHOOSE x : P(x))
  BY Zenon, <1>5
<1>7. P(Max(S))
  <2>1. Max(S) = CHOOSE x \in S : \A y \in S : x >= y
    BY Zenon DEF Max
  <2> QED
    BY Zenon, <1>4, <2>1 DEF P
<1> QED
  BY <1>7 DEF P

-----------------------------------------------------------------------------
(* Page maps.                                                               *)

\* A page of a run of transactions has the last one of them that wrote it.
LEMMA PageIs ==
  ASSUME NEW from \in Nat, NEW v \in Nat, from <= v, NEW p \in 0 .. Pages - 1
  PROVE  LET x == PagesOf(Frames(from, v))[p] IN
         \/ x = 0 /\ \A n \in from + 1 .. v : n % Pages # p
         \/ x \in from + 1 .. v /\ x % Pages = p /\ \A n \in from + 1 .. v : n % Pages = p => n <= x
<1> DEFINE f  == Frames(from, v)
           at == {i \in DOMAIN f : f[i] % Pages = p}
<1>1. DOMAIN f = 1 .. v - from /\ \A i \in 1 .. v - from : f[i] = from + i
  BY DEF Frames
<1>2. PagesOf(f)[p] = IF at = {} THEN 0 ELSE f[Max(at)]
  BY Zenon DEF PagesOf, NoPages
<1>3. at \in SUBSET Nat /\ v - from \in Nat /\ \A i \in at : i <= v - from
  BY <1>1
<1>4. CASE at = {}
  <2>1. ASSUME NEW n \in from + 1 .. v PROVE n % Pages # p
    <3>1. n - from \in 1 .. v - from /\ f[n - from] = n
      BY <1>1
    <3> QED
      BY Zenon, <1>1, <1>4, <3>1
  <2> QED
    BY Zenon, <1>2, <1>4, <2>1
<1>5. CASE at # {}
  <2> DEFINE m == Max(at)
  <2>1. m \in at /\ \A i \in at : i <= m
    BY Zenon, <1>3, <1>5, MaxIsGreatest
  <2> HIDE DEF m
  <2>2. m \in 1 .. v - from /\ f[m] = from + m /\ f[m] % Pages = p
    BY Zenon, <1>1, <2>1
  <2>3. ASSUME NEW n \in from + 1 .. v, n % Pages = p PROVE n <= f[m]
    <3>1. n - from \in 1 .. v - from /\ f[n - from] = n
      BY <1>1
    <3>2. n - from <= m
      BY Zenon, <1>1, <2>1, <2>3, <3>1
    <3> QED
      BY <2>2, <3>1, <3>2
  <2>4. f[m] \in from + 1 .. v
    BY <2>2
  <2>5. PagesOf(f)[p] = f[m]
    BY Zenon, <1>2, <1>5 DEF m
  <2> QED
    BY Zenon, <2>2, <2>3, <2>4, <2>5
<1> QED
  BY Zenon, <1>4, <1>5

\* The image of a version has the last transaction that wrote each page.
LEMMA ImageIs ==
  ASSUME NEW v \in Nat, NEW p \in 0 .. Pages - 1
  PROVE  LET x == Image(v)[p] IN
         \/ x = 0 /\ \A n \in 1 .. v : n % Pages # p
         \/ x \in 1 .. v /\ x % Pages = p /\ \A n \in 1 .. v : n % Pages = p => n <= x
<1>1. Frames(0, v) = [i \in 1 .. v |-> i]
  BY DEF Frames
<1>2. Image(v) = PagesOf(Frames(0, v))
  BY Zenon, <1>1 DEF Image
<1> QED
  BY <1>2, PageIs

\* These are page maps.
LEMMA PagesTypes ==
  ASSUME NEW from \in Nat, NEW v \in Nat, from <= v
  PROVE  PagesOf(Frames(from, v)) \in PageMaps /\ Image(v) \in PageMaps
<1>1. \A p \in 0 .. Pages - 1 : PagesOf(Frames(from, v))[p] \in Nat
  BY PageIs
<1>2. \A p \in 0 .. Pages - 1 : Image(v)[p] \in Nat
  BY ImageIs
<1>3. ASSUME NEW f, \A p \in 0 .. Pages - 1 : PagesOf(f)[p] \in Nat
      PROVE  PagesOf(f) \in PageMaps
  <2> DEFINE e(p) == LET at == {i \in DOMAIN f : f[i] % Pages = p}
                     IN  IF at = {} THEN 0 ELSE f[Max(at)]
  <2>1. PagesOf(f) = [p \in 0 .. Pages - 1 |-> e(p)]
    BY Zenon DEF PagesOf, NoPages
  <2> HIDE DEF e
  <2> QED
    BY <1>3, <2>1 DEF PageMaps
<1> QED
  BY Zenon, <1>1, <1>2, <1>3 DEF Image

\* Frames that begin at or below a version take its file to theirs.
LEMMA FramesExtend ==
  ASSUME NEW from \in Nat, NEW s \in Nat, NEW v \in Nat, from <= s, s <= v
  PROVE  Overwrite(Image(s), PagesOf(Frames(from, v))) = Image(v)
<1> DEFINE b == PagesOf(Frames(from, v))
<1>0. from <= v
  OBVIOUS
<1>1. \A p \in 0 .. Pages - 1 : Image(v)[p] = IF b[p] = 0 THEN Image(s)[p] ELSE b[p]
  <2> SUFFICES ASSUME NEW p \in 0 .. Pages - 1
               PROVE  Image(v)[p] = IF b[p] = 0 THEN Image(s)[p] ELSE b[p]
    OBVIOUS
  <2> DEFINE x == b[p]
             y == Image(s)[p]
             z == Image(v)[p]
  <2>1. \/ x = 0 /\ \A n \in from + 1 .. v : n % Pages # p
        \/ x \in from + 1 .. v /\ x % Pages = p /\ \A n \in from + 1 .. v : n % Pages = p => n <= x
    BY Zenon, <1>0, PageIs
  <2>2. \/ y = 0 /\ \A n \in 1 .. s : n % Pages # p
        \/ y \in 1 .. s /\ y % Pages = p /\ \A n \in 1 .. s : n % Pages = p => n <= y
    BY Zenon, ImageIs
  <2>3. \/ z = 0 /\ \A n \in 1 .. v : n % Pages # p
        \/ z \in 1 .. v /\ z % Pages = p /\ \A n \in 1 .. v : n % Pages = p => n <= z
    BY Zenon, ImageIs
  <2> HIDE DEF x, y, z
  <2>4. z = IF x = 0 THEN y ELSE x
    BY <2>1, <2>2, <2>3
  <2> QED
    BY Zenon, <2>4 DEF x, y, z
<1>2. DOMAIN Image(s) = 0 .. Pages - 1 /\ DOMAIN Image(v) = 0 .. Pages - 1
  BY Zenon, <1>0, PagesTypes DEF PageMaps
<1>3. Image(v) = [p \in 0 .. Pages - 1 |-> Image(v)[p]]
  BY Zenon, <1>0, PagesTypes DEF PageMaps
<1> HIDE DEF b
<1>4. Overwrite(Image(s), b) = [p \in 0 .. Pages - 1 |-> IF b[p] = 0 THEN Image(s)[p] ELSE b[p]]
  BY Zenon, <1>2 DEF Overwrite
<1>5. Overwrite(Image(s), b) = Image(v)
  BY <1>1, <1>3, <1>4
<1> QED
  BY Zenon, <1>5 DEF b

\* The newest of a map's pages.
LEMMA NewestIs ==
  ASSUME NEW m \in PageMaps, NEW v \in Nat, \A p \in 0 .. Pages - 1 : m[p] <= v,
         \E p \in 0 .. Pages - 1 : m[p] = v
  PROVE  Newest(m) = v
<1> DEFINE S == {m[p] : p \in DOMAIN m}
<1>1. DOMAIN m = 0 .. Pages - 1 /\ \A p \in 0 .. Pages - 1 : m[p] \in Nat
  BY DEF PageMaps
<1>2. S \in SUBSET Nat /\ v \in S /\ \A x \in S : x <= v
  BY Zenon, <1>1
<1>3. Max(S) \in S /\ \A y \in S : y <= Max(S)
  BY Zenon, <1>2, MaxIsGreatest
<1>4. Newest(m) = Max(S)
  BY Zenon DEF Newest
<1>5. Max(S) \in Nat /\ v <= Max(S) /\ Max(S) <= v
  BY Zenon, <1>2, <1>3
<1> HIDE DEF S
<1>6. Max(S) = v
  BY <1>5
<1> QED
  BY Zenon, <1>4, <1>6

\* Frames that end at a version have its last transaction as their newest.
LEMMA NewestOfFrames ==
  ASSUME NEW from \in Nat, NEW v \in Nat, from < v
  PROVE  Newest(PagesOf(Frames(from, v))) = v
<1> DEFINE b == PagesOf(Frames(from, v))
           q == v % Pages
<1>0. from <= v
  OBVIOUS
<1>1. q \in 0 .. Pages - 1
  BY PagesAssumption
<1>2. b \in PageMaps
  BY Zenon, <1>0, PagesTypes
<1>3. \A p \in 0 .. Pages - 1 : b[p] <= v
  BY <1>0, PageIs
<1>4. b[q] = v
  <2>1. \/ b[q] = 0 /\ \A n \in from + 1 .. v : n % Pages # q
        \/ b[q] \in from + 1 .. v /\ b[q] % Pages = q /\ \A n \in from + 1 .. v : n % Pages = q => n <= b[q]
    BY Zenon, <1>0, <1>1, PageIs
  <2>2. v \in from + 1 .. v /\ v % Pages = q
    OBVIOUS
  <2> HIDE DEF b, q
  <2> QED
    BY <2>1, <2>2
<1> QED
  BY Zenon, <1>1, <1>2, <1>3, <1>4, NewestIs

\* The newest transaction of an image is its version.
LEMMA NewestOfImage ==
  ASSUME NEW v \in Nat
  PROVE  Newest(Image(v)) = v
<1>1. CASE v > 0
  <2>1. Frames(0, v) = [i \in 1 .. v |-> i]
    BY DEF Frames
  <2>2. Image(v) = PagesOf(Frames(0, v))
    BY Zenon, <2>1 DEF Image
  <2> QED
    BY <1>1, <2>2, NewestOfFrames
<1>2. CASE v = 0
  <2>1. \A p \in 0 .. Pages - 1 : Image(v)[p] = 0
    BY <1>2, ImageIs
  <2>2. 0 \in 0 .. Pages - 1 /\ v <= v
    BY PagesAssumption
  <2>3. Image(v) \in PageMaps
    BY PagesTypes
  <2> QED
    BY <1>2, <2>1, <2>2, <2>3, NewestIs
<1> QED
  BY <1>1, <1>2

-----------------------------------------------------------------------------
(* Checksums.                                                               *)

\* A sound history stands for a version.
LEMMA SumStands ==
  ASSUME NEW sum \in Sums, SoundSum(sum), Anchored(sum)
  PROVE  Shipped(sum) \in Nat
<1>1. Len(sum) \in 1 .. Len(sum)
  BY DEF Sums
<1> QED
  BY Zenon, <1>1 DEF SoundSum, Shipped

\* A snapshot begins a sound one.
LEMMA SnapshotIsSound ==
  ASSUME NEW v \in Nat
  PROVE  LET sum == DbSum(Image(v)) IN
         sum \in Sums /\ SoundSum(sum) /\ Anchored(sum) /\ Shipped(sum) = v
<1> DEFINE sum == DbSum(Image(v))
<1>1. Image(v) \in PageMaps /\ Newest(Image(v)) = v
  BY PagesTypes, NewestOfImage
<1>2. /\ Len(sum) = 1 /\ sum[1] = <<"snapshot", Image(v)>> /\ sum \in Sums
      /\ sum[1][1] = "snapshot" /\ sum[1][2] = Image(v)
  BY <1>1 DEF DbSum, Sums
<1> HIDE DEF sum
<1>3. \A i \in 1 .. Len(sum) : i = 1
  BY <1>2
<1>4. ~\E i \in 1 .. Len(sum) - 1 : TRUE
  BY <1>2
<1>5. SoundSum(sum)
  BY Zenon, <1>1, <1>2, <1>3, <1>4 DEF SoundSum
<1>6. Anchored(sum) /\ Shipped(sum) = v
  BY Zenon, <1>1, <1>2 DEF Anchored, Shipped
<1> QED
  BY Zenon, <1>2, <1>5, <1>6 DEF sum

\* A batch adds its pages to the history.
LEMMA ChainSumIs ==
  ASSUME NEW sum \in Sums, NEW pages \in PageMaps
  PROVE  LET c == ChainSum(sum, pages) IN
         /\ c \in Sums /\ Len(sum) \in Nat /\ Len(sum) >= 1 /\ Len(c) = Len(sum) + 1
         /\ \A i \in 1 .. Len(sum) : c[i] = sum[i]
         /\ c[Len(sum) + 1][2] = pages /\ c[1] = sum[1]
<1>1. <<"changes", pages>> \in {"snapshot", "changes", "file"} \X PageMaps
  OBVIOUS
<1>2. sum \in Seq({"snapshot", "changes", "file"} \X PageMaps) /\ sum # <<>>
  BY Zenon DEF Sums
<1> QED
  BY <1>1, <1>2 DEF ChainSum, Sums

\* So it does to what the history stands for, and whether it is anchored.
LEMMA ChainStands ==
  ASSUME NEW sum \in Sums, NEW pages \in PageMaps
  PROVE  LET c == ChainSum(sum, pages) IN
         Shipped(c) = Newest(pages) /\ (Anchored(c) <=> Anchored(sum))
<1> DEFINE c == ChainSum(sum, pages)
<1>1. Len(c) = Len(sum) + 1 /\ c[Len(sum) + 1][2] = pages /\ c[1] = sum[1]
  BY Zenon, ChainSumIs
<1> HIDE DEF c
<1>2. Shipped(c) = Newest(pages) /\ (Anchored(c) <=> Anchored(sum))
  BY Zenon, <1>1 DEF Shipped, Anchored
<1> QED
  BY Zenon, <1>2 DEF c

\* A batch of frames that begin at or below the version a sound history stands for
\* makes a sound one.
LEMMA BatchIsSound ==
  ASSUME NEW sum \in Sums, SoundSum(sum), NEW from \in Nat, NEW v \in Nat, from < v,
         Anchored(sum) => from <= Shipped(sum) /\ Shipped(sum) <= v
  PROVE  SoundSum(ChainSum(sum, PagesOf(Frames(from, v))))
<1> DEFINE pages == PagesOf(Frames(from, v))
           c     == ChainSum(sum, pages)
           n     == Len(sum)
<1>0. from <= v
  OBVIOUS
<1>1. pages \in PageMaps /\ Newest(pages) = v
  BY Zenon, <1>0, PagesTypes, NewestOfFrames
<1> SUFFICES ASSUME Anchored(c) PROVE SoundSum(c)
  BY Zenon DEF SoundSum
<1>2. Anchored(sum) /\ Shipped(sum) \in Nat
  BY Zenon, <1>1, ChainStands, SumStands
<1>3. Overwrite(Image(Shipped(sum)), pages) = Image(v)
  BY Zenon, <1>2, FramesExtend
<1>4. /\ n \in Nat /\ n >= 1 /\ Len(c) = n + 1 /\ \A i \in 1 .. n : c[i] = sum[i]
      /\ c[n + 1][2] = pages /\ c[1] = sum[1]
  BY Zenon, <1>1, ChainSumIs
<1> HIDE DEF c, pages, n
<1>5. \A i \in 1 .. n + 1 : i = n + 1 \/ i \in 1 .. n
  BY <1>4
<1>6. \A i \in 1 .. n : i = n \/ (i \in 1 .. n - 1 /\ i \in 1 .. n /\ i + 1 \in 1 .. n)
  BY <1>4
<1>7. n \in 1 .. n /\ n + 1 - 1 = n
  BY <1>4
<1>8. /\ \A i \in 1 .. n : Newest(sum[i][2]) \in Nat
      /\ sum[1][2] = Image(Newest(sum[1][2]))
      /\ \A i \in 1 .. n - 1 :
           Overwrite(Image(Newest(sum[i][2])), sum[i + 1][2]) = Image(Newest(sum[i + 1][2]))
      /\ Shipped(sum) = Newest(sum[n][2])
  BY Zenon, <1>2 DEF SoundSum, Shipped, n
<1>9. \A i \in 1 .. n + 1 : Newest(c[i][2]) \in Nat
  BY Zenon, <1>1, <1>4, <1>5, <1>8
<1>10. \A i \in 1 .. n :
         Overwrite(Image(Newest(c[i][2])), c[i + 1][2]) = Image(Newest(c[i + 1][2]))
  <2> TAKE i \in 1 .. n
  <2>1. CASE i = n
    BY Zenon, <1>1, <1>3, <1>4, <1>7, <1>8, <2>1
  <2>2. CASE i # n
    BY Zenon, <1>4, <1>6, <1>8, <2>2
  <2> QED
    BY Zenon, <2>1, <2>2
<1>11. Len(c) = n + 1 /\ Len(c) - 1 = n
  BY <1>4
<1>12. c[1][2] = Image(Newest(c[1][2]))
  BY Zenon, <1>4, <1>8
<1> QED
  BY Zenon, <1>9, <1>10, <1>11, <1>12 DEF SoundSum

\* What a sound history says of its last batch.
LEMMA LastBatch ==
  ASSUME NEW sum \in Sums, NEW pages \in PageMaps, SoundSum(ChainSum(sum, pages)), Anchored(sum)
  PROVE  Newest(pages) \in Nat /\ Overwrite(Image(Shipped(sum)), pages) = Image(Newest(pages))
<1> DEFINE c == ChainSum(sum, pages)
           n == Len(sum)
<1>1. /\ n \in Nat /\ n >= 1 /\ Len(c) = n + 1 /\ \A i \in 1 .. n : c[i] = sum[i]
      /\ c[n + 1][2] = pages /\ c[1] = sum[1] /\ Anchored(c)
  BY Zenon, ChainSumIs, ChainStands
<1> HIDE DEF c
<1>2. n \in 1 .. n /\ n \in 1 .. Len(c) - 1 /\ n + 1 \in 1 .. Len(c)
  BY <1>1
<1>3. Newest(c[n + 1][2]) \in Nat
  BY Zenon, <1>1, <1>2 DEF SoundSum, c
<1>4. Overwrite(Image(Newest(c[n][2])), c[n + 1][2]) = Image(Newest(c[n + 1][2]))
  BY Zenon, <1>1, <1>2 DEF SoundSum, c
<1> QED
  BY Zenon, <1>1, <1>2, <1>3, <1>4 DEF Shipped

-----------------------------------------------------------------------------
(* Restore.                                                                 *)

\* Of a set of objects that end at or before the target one ends last.
LEMMA LongestExists ==
  ASSUME NEW c \in SUBSET Objects, c # {}, NEW b \in Nat, \A o \in c : o.max <= b
  PROVE  \E o \in c : \A p \in c : o.max >= p.max
<1> DEFINE S == {o.max : o \in c}
<1>1. S \in SUBSET Nat /\ S # {} /\ \A x \in S : x <= b
  BY DEF Objects
<1>2. Max(S) \in S /\ \A y \in S : y <= Max(S)
  BY Zenon, <1>1, MaxIsGreatest
<1>3. PICK o \in c : o.max = Max(S)
  BY Zenon, <1>2
<1>4. \A p \in c : p.max <= o.max
  BY Zenon, <1>2, <1>3
<1>5. \A p \in c : o.max >= p.max
  BY <1>4 DEF Objects
<1> QED
  BY Zenon, <1>5

\* find_latest_legacy_snapshot_at_or_before finds a snapshot if there is one.
LEMMA LatestBaseIs ==
  ASSUME NEW store \in SUBSET Objects, NEW b \in Nat, \A o \in store : o.gen <= b,
         NEW target \in Nat, Bases(store, target) # {}
  PROVE  LatestBase(store, target) \in Bases(store, target)
<1> DEFINE B == Bases(store, target)
           G == {o.gen : o \in B}
           c == {o \in B : o.gen = Max(G)}
           Best(o) == o \in B /\ \A p \in B : o.gen > p.gen \/ (o.gen = p.gen /\ o.max >= p.max)
<1>1. B \in SUBSET store /\ \A o \in B : o.max <= target
  BY Zenon DEF Bases
<1>2. \A o \in B : o.gen \in Nat /\ o.max \in Nat /\ o.gen <= b
  BY Zenon, <1>1 DEF Objects
<1>3. G \in SUBSET Nat /\ G # {} /\ \A x \in G : x <= b
  BY Zenon, <1>2
<1>4. Max(G) \in G /\ \A x \in G : x <= Max(G)
  BY Zenon, <1>3, MaxIsGreatest
<1>5. c \in SUBSET Objects /\ c # {} /\ \A o \in c : o.max <= target
  BY Zenon, <1>1, <1>4
<1>6. PICK o \in c : \A p \in c : o.max >= p.max
  BY Zenon, <1>5, LongestExists
<1>7. ASSUME NEW p \in B PROVE o.gen > p.gen \/ (o.gen = p.gen /\ o.max >= p.max)
  <2>1. o \in B /\ o.gen = Max(G) /\ p.gen <= Max(G)
    BY Zenon, <1>4, <1>6
  <2>2. o.gen \in Nat /\ p.gen \in Nat /\ p.gen <= o.gen
    BY Zenon, <1>2, <2>1
  <2>3. p.gen = o.gen => p \in c
    BY Zenon, <2>1
  <2>4. p.gen = o.gen => o.max >= p.max
    BY Zenon, <1>6, <2>3
  <2> QED
    BY <2>2, <2>4
<1>8. Best(o)
  BY Zenon, <1>6, <1>7
<1>9. LatestBase(store, target) = CHOOSE x \in B : \A p \in B : x.gen > p.gen \/ (x.gen = p.gen /\ x.max >= p.max)
  BY Zenon DEF LatestBase
<1> QED
  BY Zenon, <1>8, <1>9

\* A restored file that passed every check so far: its checksum stands for a version,
\* and that is what it holds.
LEMMA BaseIsGood ==
  ASSUME NEW o \in Objects, SoundObject(o), Decoded(o).ok
  PROVE  LET f == Decoded(o) IN
         f.sum \in Sums /\ SoundSum(f.sum) /\ Anchored(f.sum) /\ f.pages = Image(Shipped(f.sum))
<1>1. o.sum = DbSum(o.pages) /\ Decoded(o).sum = o.sum /\ Decoded(o).pages = o.pages
  BY Zenon DEF Decoded
<1>2. Len(o.sum) = 1 /\ o.sum[1][1] = "snapshot" /\ o.sum[1][2] = o.pages
  BY <1>1 DEF DbSum
<1>3. Anchored(o.sum) /\ SoundSum(o.sum) /\ o.sum \in Sums
  BY Zenon, <1>2 DEF Anchored, SoundObject, Objects
<1>4. o.pages = Image(Newest(o.pages)) /\ Shipped(o.sum) = Newest(o.pages)
  BY Zenon, <1>2, <1>3 DEF SoundSum, Shipped
<1> QED
  BY Zenon, <1>1, <1>3, <1>4

\* ... and so does the next object that chains from it.
LEMMA ApplyIsGood ==
  ASSUME NEW o \in Objects, SoundObject(o), o.gen = 0, NEW f, Apply(f, o).ok,
         f.ok => /\ f.sum \in Sums /\ SoundSum(f.sum) /\ Anchored(f.sum)
                 /\ f.pages = Image(Shipped(f.sum))
  PROVE  LET g == Apply(f, o) IN
         g.sum \in Sums /\ SoundSum(g.sum) /\ Anchored(g.sum) /\ g.pages = Image(Shipped(g.sum))
<1>1. /\ f.ok /\ o.pre = f.sum /\ Apply(f, o).sum = o.sum
      /\ Apply(f, o).pages = Overwrite(f.pages, o.pages)
  BY Zenon DEF Apply
<1>2. /\ f.sum \in Sums /\ Anchored(f.sum) /\ f.pages = Image(Shipped(f.sum))
      /\ o.sum = ChainSum(f.sum, o.pages) /\ SoundSum(o.sum) /\ o.sum \in Sums /\ o.pages \in PageMaps
  BY Zenon, <1>1 DEF SoundObject, Objects
<1>3. Shipped(o.sum) = Newest(o.pages) /\ Anchored(o.sum)
  BY Zenon, <1>2, ChainStands
<1>4. Overwrite(f.pages, o.pages) = Image(Newest(o.pages))
  BY Zenon, <1>2, LastBatch
<1> QED
  BY Zenon, <1>1, <1>2, <1>3, <1>4

\* From objects whose checksums stand for versions, no restore to any point yields a
\* file that was never the database (restore_legacy_ltx, apply_ltx_to_db_checked).
LEMMA RestoreIsSound ==
  ASSUME NEW store \in SUBSET Objects, \A o \in store : SoundObject(o),
         NEW b \in Nat, \A o \in store : o.gen <= b, NEW target \in Nat
  PROVE  RestoreTo(store, target) # Mixed
<1>0. Refused # Mixed
  BY DEF Refused, Mixed
<1>1. CASE Bases(store, target) = {}
  BY Zenon, <1>0, <1>1 DEF RestoreTo
<1>2. CASE Bases(store, target) # {}
  <2> DEFINE base == Decoded(LatestBase(store, target))
             Nexts(f) == {o \in store : o.gen = 0 /\ o.min = f.max + 1 /\ o.max <= target}
             To(f, c) == IF c = {} THEN f
                         ELSE Apply(f, CHOOSE o \in c : \A p \in c : o.max >= p.max)
             Good(f) == f.ok => /\ f.sum \in Sums /\ SoundSum(f.sum) /\ Anchored(f.sum)
                                /\ f.pages = Image(Shipped(f.sum))
             G(f) == To(f, Nexts(f))
             Solves(c) == c = [n \in 0 .. target |->
                                 IF n = 0 THEN base ELSE LET f == c[n - 1] IN To(f, Nexts(f))]
  <2>1. Good(base)
    <3>1. LatestBase(store, target) \in store
      BY Zenon, <1>2, LatestBaseIs DEF Bases
    <3> QED
      BY Zenon, <3>1, BaseIsGood
  <2>2. ASSUME NEW f, Good(f) PROVE Good(G(f))
    <3>1. CASE Nexts(f) = {}
      BY Zenon, <2>2, <3>1
    <3>2. CASE Nexts(f) # {}
      <4> DEFINE o == CHOOSE x \in Nexts(f) : \A p \in Nexts(f) : x.max >= p.max
      <4>1. Nexts(f) \in SUBSET Objects /\ \A x \in Nexts(f) : x.max <= target
        BY Zenon
      <4>2. \E x \in Nexts(f) : \A p \in Nexts(f) : x.max >= p.max
        BY Zenon, <3>2, <4>1, LongestExists
      <4>3. o \in Nexts(f)
        BY Zenon, <4>2
      <4>4. G(f) = Apply(f, o)
        BY Zenon, <3>2
      <4>5. o \in store /\ o.gen = 0
        BY Zenon, <4>3
      <4> HIDE DEF o, Nexts
      <4> QED
        BY Zenon, <2>2, <4>4, <4>5, ApplyIsGood
    <3> QED
      BY Zenon, <3>1, <3>2
  <2> HIDE DEF base, Nexts, To, Good
  <2>3. \E c : Solves(c)
    <3> DEFINE Upto(c, k) == c = [n \in 0 .. k |-> IF n = 0 THEN base ELSE G(c[n - 1])]
               Bad == {k \in Nat : ~\E c : Upto(c, k)}
    <3>1. Bad = {}
      <4> SUFFICES ASSUME Bad # {} PROVE FALSE
        BY Zenon
      <4>1. PICK k \in Bad : \A j \in Bad : k <= j
        BY Zenon, LeastExists
      <4>2. k # 0
        <5>1. Upto([n \in 0 .. 0 |-> base], 0)
          BY DEF G
        <5> QED
          BY Zenon, <4>1, <5>1
      <4>3. k - 1 \in Nat /\ k - 1 < k /\ k \in Nat
        BY <4>1, <4>2
      <4>4. k - 1 \notin Bad
        BY <4>1, <4>3
      <4>5. PICK c : Upto(c, k - 1)
        BY Zenon, <4>3, <4>4
      <4> DEFINE d == [n \in 0 .. k |-> IF n = k THEN G(c[k - 1]) ELSE c[n]]
      <4> HIDE DEF G
      <4>6. \A n \in 0 .. k - 1 : c[n] = IF n = 0 THEN base ELSE G(c[n - 1])
        BY Zenon, <4>5
      <4>7. \A n \in 0 .. k : d[n] = IF n = 0 THEN base ELSE G(d[n - 1])
        <5> TAKE n \in 0 .. k
        <5>1. CASE n = k
          <6>1. k - 1 \in 0 .. k /\ k - 1 # k /\ k \in 0 .. k
            BY <4>3
          <6>2. d[k - 1] = c[k - 1] /\ d[k] = G(c[k - 1])
            BY Zenon, <6>1
          <6> QED
            BY Zenon, <4>2, <5>1, <6>2
        <5>2. CASE n # k
          <6>1. n \in 0 .. k - 1 /\ (n # 0 => n - 1 \in 0 .. k /\ n - 1 # k)
            BY <4>3, <5>2
          <6>2. d[n] = c[n] /\ (n # 0 => d[n - 1] = c[n - 1])
            BY Zenon, <5>2, <6>1
          <6> QED
            BY Zenon, <4>6, <6>1, <6>2
        <5> QED
          BY Zenon, <5>1, <5>2
      <4>8. d = [n \in 0 .. k |-> d[n]]
        BY Zenon
      <4>9. Upto(d, k)
        <5> HIDE DEF d
        <5> QED
          BY Zenon, <4>7, <4>8
      <4> QED
        BY Zenon, <4>1, <4>9
    <3>2. PICK c : Upto(c, target)
      BY Zenon, <3>1
    <3> QED
      BY Zenon, <3>2
  <2>4. ASSUME NEW c, Solves(c) PROVE Good(c[target])
    <3> DEFINE Bad == {n \in 0 .. target : ~Good(c[n])}
    <3> HIDE DEF G
    <3>1. \A n \in 0 .. target : c[n] = IF n = 0 THEN base ELSE G(c[n - 1])
      BY Zenon, <2>4 DEF G
    <3>0. target \in 0 .. target
      OBVIOUS
    <3> SUFFICES ASSUME Bad # {} PROVE FALSE
      BY Zenon, <3>0
    <3>2. Bad \in SUBSET Nat
      OBVIOUS
    <3>3. PICK n \in Bad : \A j \in Bad : n <= j
      BY Zenon, <3>2, LeastExists
    <3>4. n # 0
      BY Zenon, <2>1, <3>1, <3>3
    <3>5. n - 1 \in 0 .. target /\ ~(n <= n - 1)
      BY <3>3, <3>4
    <3>6. Good(c[n - 1])
      BY Zenon, <3>3, <3>5
    <3>7. Good(G(c[n - 1]))
      BY Zenon, <2>2, <3>6
    <3> QED
      BY Zenon, <3>1, <3>3, <3>4, <3>7
  <2> DEFINE last == (CHOOSE c : Solves(c))[target]
  <2>5. Good(last)
    <3> HIDE DEF Solves
    <3> QED
      BY Zenon, <2>3, <2>4
  <2>6. RestoreTo(store, target) = IF last.max # target \/ ~last.ok \/ ~IntegrityOk(last) THEN Refused
                                   ELSE VersionOf(last.pages)
    BY Zenon, <1>2 DEF RestoreTo, RestoreFrom, base, To, Nexts
  <2> HIDE DEF last
  <2>7. ASSUME last.ok PROVE VersionOf(last.pages) # Mixed
    <3> DEFINE s == Shipped(last.sum)
    <3>1. s \in Nat /\ last.pages = Image(s)
      BY Zenon, <2>5, <2>7, SumStands DEF Good
    <3>2. VersionOf(last.pages) = s
      BY Zenon, <3>1, NewestOfImage DEF VersionOf
    <3> QED
      BY <3>1, <3>2 DEF Mixed
  <2> QED
    BY Zenon, <1>0, <2>6, <2>7
<1> QED
  BY Zenon, <1>1, <1>2

-----------------------------------------------------------------------------
(* Objects and the store.                                                   *)

\* What snapshot_database and sync_wal encode are objects; a batch takes at least its
\* own TXIDs.
LEMMA SnapshotTypes ==
  ASSUME NEW gen \in Nat, NEW txid \in Nat, NEW v \in Nat, NEW layout \in Layouts
  PROVE  LET o == Snapshot(gen, txid, v, layout) IN
         /\ o \in Objects /\ o.gen = gen /\ o.max = txid
         /\ layout = "packed" => o.sum = DbSum(Image(v)) /\ (gen > 0 => SoundObject(o))
<1> DEFINE o == Snapshot(gen, txid, v, layout)
           m == Vacuumed(v, layout)
<1>0. v <= v
  OBVIOUS
<1>1. Image(v) \in PageMaps /\ SoundSum(DbSum(Image(v)))
  BY <1>0, Zenon, PagesTypes, SnapshotIsSound
<1>2. m \in PageMaps /\ (layout = "packed" => m = Image(v))
  <2>1. DOMAIN Image(v) = 0 .. Pages - 1 /\ \A p \in 0 .. Pages - 1 : Image(v)[p] \in Nat
    BY <1>1 DEF PageMaps
  <2>2. \A p \in 0 .. Pages - 1 : (p + 1) % Pages \in 0 .. Pages - 1
    BY PagesAssumption
  <2>3. Renumbered(Image(v)) = [p \in 0 .. Pages - 1 |-> Image(v)[(p + 1) % Pages]]
    BY <2>1, Zenon DEF Renumbered
  <2>4. Renumbered(Image(v)) \in PageMaps
    BY <2>1, <2>2, <2>3, Zenon DEF PageMaps
  <2> QED
    BY <1>1, <2>4, Zenon DEF Vacuumed
<1>3. o = [gen |-> gen, min |-> 1, max |-> txid, pages |-> m, pre |-> <<>>, sum |-> DbSum(m),
           layout |-> layout]
  BY Zenon DEF Snapshot
<1> HIDE DEF m
<1>4. DbSum(m) \in Sums
  BY <1>2 DEF DbSum, Sums
<1>5. o \in Objects
  BY <1>2, <1>3, <1>4, SMT DEF Objects
<1> HIDE DEF o
<1>6. o.gen = gen /\ o.max = txid /\ o.sum = DbSum(m)
  BY <1>3, Zenon
<1>7. gen > 0 => gen # 0
  OBVIOUS
<1> QED
  BY <1>1, <1>2, <1>5, <1>6, <1>7, Zenon DEF SoundObject, o

\* ... and an incremental, which continues the history of the checksum before it.
LEMMA IncrementalTypes ==
  ASSUME NEW txid \in Nat, NEW pages \in PageMaps, NEW pre \in Sums
  PROVE  LET o == Incremental(txid, pages, pre) IN
         /\ o \in Objects /\ o.gen = 0 /\ o.max >= txid /\ o.sum = ChainSum(pre, pages)
         /\ SoundSum(o.sum) => SoundObject(o)
<1> DEFINE o == Incremental(txid, pages, pre)
           S == {p \in DOMAIN pages : pages[p] # 0}
<1>1. DOMAIN pages = 0 .. Pages - 1
  BY Zenon DEF PageMaps
<1>2. S \in SUBSET (0 .. Pages - 1)
  BY <1>1
<1>3. Pages - 1 \in Int /\ 0 \in Int
  BY PagesAssumption
<1>4. IsFiniteSet(0 .. Pages - 1)
  BY <1>3, FS_Interval, Zenon
<1>5. IsFiniteSet(S)
  BY <1>2, <1>4, FS_Subset, Zenon
<1>6. Cardinality(S) \in Nat
  BY <1>5, FS_CardinalityType, Zenon
<1>7. ChainSum(pre, pages) \in Sums /\ pre # <<>>
  BY Zenon, ChainSumIs DEF Sums
<1>8. o = [gen |-> 0, min |-> txid + 1, max |-> txid + Cardinality(S), pages |-> pages, pre |-> pre,
           sum |-> ChainSum(pre, pages), layout |-> "packed"]
  BY Zenon DEF Incremental
<1> HIDE DEF S, o
<1>9. txid + Cardinality(S) \in Nat /\ txid + 1 \in Nat /\ txid + Cardinality(S) >= txid
  BY <1>6
<1>10. o \in Objects
  BY <1>7, <1>8, <1>9, SMT DEF Objects, Layouts
<1>11. o.gen = 0 /\ o.max = txid + Cardinality(S) /\ o.sum = ChainSum(pre, pages) /\ o.pre = pre
       /\ o.pages = pages
  BY <1>8, Zenon
<1> QED
  BY <1>7, <1>9, <1>10, <1>11, Zenon DEF SoundObject, o

\* A put (build_ltx_key) leaves objects of a bounded listing, sound ones if they were.
LEMMA PutKeeps ==
  ASSUME NEW store \in SUBSET Objects, Bounded(store), NEW o \in Objects
  PROVE  LET s == Put(store, o) IN
         /\ s \in SUBSET Objects /\ Bounded(s)
         /\ (\A p \in store : SoundObject(p)) /\ SoundObject(o) => \A p \in s : SoundObject(p)
<1> DEFINE s == Put(store, o)
<1>1. \A p \in s : p \in store \/ p = o
  BY Zenon DEF Put
<1>2. PICK b \in Nat : \A p \in store : p.gen <= b /\ p.max <= b
  BY Zenon DEF Bounded
<1>3. \A p \in Objects : p.gen \in Nat /\ p.max \in Nat
  BY DEF Objects
<1>4. b + o.gen + o.max \in Nat /\ o.gen <= b + o.gen + o.max /\ o.max <= b + o.gen + o.max
  BY <1>3
<1>5. \A p \in store : p.gen <= b + o.gen + o.max /\ p.max <= b + o.gen + o.max
  BY <1>2, <1>3
<1> QED
  BY <1>1, <1>4, <1>5, Zenon DEF Bounded

\* discover_max_txid and the newest generation of a listing are numbers, 0 for none.
LEMMA DiscoveredTypes ==
  ASSUME NEW store \in SUBSET Objects, Bounded(store)
  PROVE  DiscoverTxid(store) \in Nat /\ DiscoverGeneration(store) \in Nat
<1> DEFINE T == {o.max : o \in store} \cup {0}
           G == {o.gen : o \in store} \cup {0}
<1>1. PICK b \in Nat : \A p \in store : p.gen <= b /\ p.max <= b
  BY Zenon DEF Bounded
<1>2. T \in SUBSET Nat /\ G \in SUBSET Nat /\ T # {} /\ G # {}
  BY DEF Objects
<1>3. (\A x \in T : x <= b) /\ (\A x \in G : x <= b)
  BY <1>1
<1> HIDE DEF T, G
<1>4. Max(T) \in T /\ Max(G) \in G
  BY <1>2, <1>3, MaxIsGreatest, Zenon
<1>5. Max(T) \in Nat /\ Max(G) \in Nat
  BY <1>2, <1>4, Zenon
<1> QED
  BY <1>5, Zenon DEF DiscoverTxid, DiscoverGeneration, T, G

\* What WatchedDbState starts from (compute_checksum_from_file) begins no history that a
\* restore could follow.
LEMMA FileSumIs == FileSum \in Sums /\ ~Anchored(FileSum) /\ SoundSum(FileSum)
<1>1. NoPages \in PageMaps
  BY PagesAssumption, SMT DEF NoPages, PageMaps
<1>2. FileSum \in Sums
  BY <1>1, SMT DEF FileSum, Sums
<1>3. FileSum[1][1] = "file"
  BY SMT DEF FileSum
<1>4. ~Anchored(FileSum)
  BY <1>3, SMT DEF Anchored
<1> QED
  BY <1>2, <1>4, Zenon DEF SoundSum

-----------------------------------------------------------------------------
(* Ties.                                                                    *)

\* A commit that continues the WAL, or begins one on an empty file, leaves the frames
\* behind a cursor where they were (AppendTo).
LEMMA TiedCommit ==
  ASSUME NEW v \in Nat, NEW w \in Wals, NEW sum, Shipped(sum) \in Nat,
         NEW off \in Nat, NEW salt \in Salts, Tied(v, w, sum, off, salt)
  PROVE  Tied(v + 1, IF w.open THEN w ELSE [salt |-> w.salt + 1, base |-> v, open |-> TRUE],
              sum, off, salt)
<1> DEFINE n == [salt |-> w.salt + 1, base |-> v, open |-> TRUE]
<1>1. w.salt \in Nat /\ w.base \in Nat /\ w.open \in BOOLEAN
  BY DEF Wals
<1>2. n.salt = w.salt + 1 /\ n.base = v /\ n.open = TRUE
  BY Zenon
<1>3. salt \in Nat \/ salt = None
  BY Zenon DEF Salts
<1> HIDE DEF n
<1>4. CASE w.open
  <2>1. Tied(v + 1, w, sum, off, salt)
    BY <1>1, <1>3, <1>4, SMT DEF Tied
  <2> QED
    BY <2>1, <1>4, Zenon DEF n
<1>5. CASE ~w.open
  <2>1. CASE salt = None
    BY <1>1, <1>2, <1>5, <2>1, SMT DEF Tied, n
  <2>2. CASE salt \in Nat /\ salt # None
    BY <1>1, <1>2, <1>5, <2>2, UploaderAssumption, SMT DEF Tied, n
  <2> QED
    BY <1>3, <2>1, <2>2, Zenon
<1> QED
  BY <1>1, <1>4, <1>5, Zenon

\* A cursor that has a salt survives a reset: the next WAL has another salt.
LEMMA TiedRestart ==
  ASSUME NEW v \in Nat, NEW w \in Wals, NEW sum, Shipped(sum) \in Nat,
         NEW off \in Nat, NEW salt \in Nat, Tied(v, w, sum, off, salt)
  PROVE  Tied(v + 1, [salt |-> w.salt + 1, base |-> v, open |-> TRUE], sum, off, salt)
<1> DEFINE n == [salt |-> w.salt + 1, base |-> v, open |-> TRUE]
<1>1. w.salt \in Nat /\ w.base \in Nat /\ w.open \in BOOLEAN
  BY DEF Wals
<1>2. n.salt = w.salt + 1 /\ n.base = v /\ n.open = TRUE
  BY Zenon
<1> HIDE DEF n
<1>3. Tied(v + 1, n, sum, off, salt)
  BY <1>1, <1>2, UploaderAssumption, SMT DEF Tied
<1> QED
  BY <1>3, Zenon DEF n

\* Nor is it misled by a WAL that is truncated under it: the file has no header then.
LEMMA TiedTruncate ==
  ASSUME NEW v \in Nat, NEW w \in Wals, NEW sum, Shipped(sum) \in Nat,
         NEW off \in Nat, NEW salt \in Nat, Tied(v, w, sum, off, salt)
  PROVE  Tied(v, [w EXCEPT !.open = FALSE], sum, off, salt)
<1> DEFINE n == [w EXCEPT !.open = FALSE]
<1>1. w.salt \in Nat /\ w.base \in Nat /\ w.open \in BOOLEAN
  BY DEF Wals
<1>2. n.salt = w.salt /\ n.base = w.base /\ n.open = FALSE
  BY SMT DEF Wals
<1> HIDE DEF n
<1>3. Tied(v, n, sum, off, salt)
  BY <1>1, <1>2, UploaderAssumption, SMT DEF Tied
<1> QED
  BY <1>3, Zenon DEF n

\* The salt is read after the snapshot is published: it is that of the WAL the frames behind
\* the snapshot are in.
LEMMA TiedToSalt ==
  ASSUME NEW v \in Nat, NEW w \in Wals, NEW sum, Shipped(sum) \in Nat, w.open, Tied(v, w, sum, 0, None)
  PROVE  Tied(v, w, sum, 0, w.salt)
<1>1. w.salt \in Nat /\ w.base \in Nat
  BY DEF Wals
<1> QED
  BY <1>1, UploaderAssumption, SMT DEF Tied

\* The cursor behind such a batch is at the end of the WAL.
LEMMA TiedBehindBatch ==
  ASSUME NEW v \in Nat, NEW w \in Wals, NEW sum, Shipped(sum) = v, w.open, w.base <= v,
         NEW salt \in Salts, salt # None => salt <= w.salt
  PROVE  Tied(v, w, sum, v - w.base, salt)
<1>1. w.salt \in Nat /\ w.base \in Nat
  BY DEF Wals
<1> QED
  BY <1>1, SMT DEF Tied

-----------------------------------------------------------------------------
(* The uploader only moves what is cached (upload_txid).                    *)

\* A step that publishes and caches nothing, and only drops uploads, leaves the store as it was.
LEMMA StoreStays ==
  ASSUME StoreOK, remote' = remote, entries' = entries, flights' \subseteq flights
  PROVE  StoreOK' /\ (StoreSound => StoreSound')
<1>1. StoreOK'
  BY Zenon DEF StoreOK
<1>2. StoreSound => StoreSound'
  BY Zenon DEF StoreSound
<1> QED
  BY <1>1, <1>2

\* An upload that changes its state carries the same object.
LEMMA MovedIs ==
  ASSUME StoreOK, NEW f \in flights, NEW st
  PROVE  /\ [f EXCEPT !.st = st].st = st /\ [f EXCEPT !.st = st].ltx = f.ltx
         /\ {"ltx", "st"} \subseteq DOMAIN [f EXCEPT !.st = st]
<1>1. {"ltx", "st"} \subseteq DOMAIN f
  BY Zenon DEF StoreOK
<1>2. "ltx" \in DOMAIN f /\ "st" \in DOMAIN f
  BY <1>1
<1> QED
  BY <1>2

\* Whatever the uploader does, storage and its uploads hold objects that were cached.
LEMMA UploadKeepsStore ==
  ASSUME StoreOK, Uploading
  PROVE  StoreOK' /\ (StoreSound => StoreSound')
<1>1. ASSUME BeginUpload
      PROVE  StoreOK' /\ (StoreSound => StoreSound')
  <2>1. PICK t, slot : flights' = flights \cup {Begun(t, slot)}
    BY <1>1, Zenon DEF BeginUpload
  <2>2. remote' = remote /\ entries' = entries
    BY <1>1, Zenon DEF BeginUpload, manifest
  <2>3. /\ {"ltx", "st"} \subseteq DOMAIN Begun(t, slot)
        /\ Loaded(Begun(t, slot)) => t \in DOMAIN entries /\ Begun(t, slot).ltx = entries[t]
    <3>1. CASE t \in DOMAIN entries
      BY <3>1 DEF Begun
    <3>2. CASE t \notin DOMAIN entries
      BY <3>2 DEF Begun, Loaded
    <3> QED
      BY <3>1, <3>2
  <2>4. \A f \in flights' : f \in flights \/ f = Begun(t, slot)
    BY <2>1, Zenon
  <2>5. StoreOK'
    BY <2>2, <2>3, <2>4, Zenon DEF StoreOK
  <2>6. StoreSound => StoreSound'
    BY <2>2, <2>3, <2>4, Zenon DEF StoreSound
  <2> QED
    BY <2>5, <2>6
<1>2. ASSUME NEW f \in flights, NEW st, flights' = Moved(f, st), remote' = remote, entries' = entries,
             st \in {"put", "landed"} => Loaded(f)
      PROVE  StoreOK' /\ (StoreSound => StoreSound')
  <2> DEFINE g == [f EXCEPT !.st = st]
  <2>1. g.st = st /\ g.ltx = f.ltx /\ {"ltx", "st"} \subseteq DOMAIN g
    BY MovedIs, Zenon
  <2>2. \A e \in flights' : e \in flights \/ e = g
    BY <1>2, Zenon DEF Moved
  <2> HIDE DEF g
  <2>3. Loaded(g) => Loaded(f)
    BY <1>2, <2>1, Zenon DEF Loaded
  <2>4. StoreOK'
    BY <1>2, <2>1, <2>2, <2>3, Zenon DEF StoreOK
  <2>5. StoreSound => StoreSound'
    BY <1>2, <2>1, <2>2, <2>3, Zenon DEF StoreSound
  <2> QED
    BY <2>4, <2>5
<1>3. ASSUME NEW f \in flights, Land(f)
      PROVE  StoreOK' /\ (StoreSound => StoreSound')
  <2> DEFINE g == [f EXCEPT !.st = "landed"]
  <2>1. g.st = "landed" /\ g.ltx = f.ltx /\ {"ltx", "st"} \subseteq DOMAIN g
    BY MovedIs, Zenon
  <2>2. /\ \A e \in flights' : e \in flights \/ e = g
        /\ remote' = Put(remote, f.ltx) /\ entries' = entries /\ Loaded(f)
    BY <1>3, Zenon DEF Land, Moved, manifest, Loaded
  <2> HIDE DEF g
  <2>3. f.ltx \in Objects /\ (StoreSound => SoundObject(f.ltx))
    BY <2>2, Zenon DEF StoreOK, StoreSound
  <2>4. /\ remote' \in SUBSET Objects /\ Bounded(remote')
        /\ StoreSound => \A o \in remote' : SoundObject(o)
    BY <2>2, <2>3, PutKeeps, Zenon DEF StoreOK, StoreSound
  <2>5. StoreOK'
    BY <2>1, <2>2, <2>3, <2>4, Zenon DEF StoreOK
  <2>6. StoreSound => StoreSound'
    BY <2>1, <2>2, <2>3, <2>4, Zenon DEF StoreSound
  <2> QED
    BY <2>5, <2>6
<1>4. ASSUME NEW f \in flights, Confirm(f) \/ Reap(f)
      PROVE  StoreOK' /\ (StoreSound => StoreSound')
  <2>1. remote' = remote /\ entries' = entries /\ flights' \subseteq flights
    BY <1>4, Zenon DEF Confirm, Reap, MarkUploaded, DropUploader, manifest
  <2> QED
    BY <2>1, StoreStays, Zenon
<1>5. ASSUME NEW f \in flights, RetryUpload(f)
      PROVE  StoreOK' /\ (StoreSound => StoreSound')
  <2>1. flights' = Moved(f, "put") /\ remote' = remote /\ entries' = entries /\ Loaded(f)
    BY <1>5, Zenon DEF RetryUpload, manifest, Loaded
  <2> QED
    BY <2>1, <1>2, Zenon
<1>6. ASSUME NEW f \in flights, GiveUpUpload(f)
      PROVE  StoreOK' /\ (StoreSound => StoreSound')
  <2>1. flights' = Moved(f, "err") /\ remote' = remote /\ entries' = entries /\ Loaded(f)
    BY <1>6, Zenon DEF GiveUpUpload, MarkFailed, Loaded
  <2> QED
    BY <2>1, <1>2, Zenon
<1>7. ASSUME FinishDrain
      PROVE  StoreOK' /\ (StoreSound => StoreSound')
  <2>1. remote' = remote /\ entries' = entries /\ flights' = flights
    BY <1>7, Zenon DEF FinishDrain, manifest
  <2> QED
    BY <2>1, StoreStays, Zenon
<1> QED
  BY <1>1, <1>3, <1>4, <1>5, <1>6, <1>7, Zenon DEF Uploading

\* write_ltx puts one object into the cache.
LEMMA WriteKeepsStore ==
  ASSUME StoreOK, NEW o \in Objects, WriteLtx(o), remote' = remote, flights' = flights
  PROVE  StoreOK' /\ (StoreSound /\ SoundObject(o) => StoreSound')
<1>1. \A t \in DOMAIN entries' : entries'[t] = o \/ (t \in DOMAIN entries /\ entries'[t] = entries[t])
  BY DEF WriteLtx
<1>2. StoreOK'
  BY <1>1, Zenon DEF StoreOK
<1>3. StoreSound /\ SoundObject(o) => StoreSound'
  BY <1>1, Zenon DEF StoreSound
<1> QED
  BY <1>2, <1>3

=============================================================================
