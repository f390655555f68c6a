-------------------------- MODULE CompactionProofs ---------------------------
(***************************************************************************)
(* What the planning functions of compaction/engine.rs return, for levels  *)
(* of any size and batches of any length: a listing lists the files of its *)
(* level, a batch is a gapless run of them, and the file they are merged   *)
(* into has exactly their transactions.                                    *)
(*                                                                         *)
(* From that, and the steps of FleetProofs,                                *)
(* for any number of transactions, crashes, failed requests and torn       *)
(* files: compaction and retention lose nothing (NothingLost), the file of *)
(* a replica holds one state of the database (ReplicaExact), and no number *)
(* is given to two transactions.                                           *)
(***************************************************************************)
EXTENDS FleetProofs, FiniteSetTheorems

-----------------------------------------------------------------------------
\* The planning functions of compaction/engine.rs.

\* list_level: a listing of a level has its files, as many as there are.  The number
\* of files listed before one tells any two files apart, hence runs through all
\* positions.
LEMMA ListingLists ==
  ASSUME NEW S, IsLevel(S)
  PROVE  Listing(S) \in Seq(S) /\ Len(Listing(S)) = Cardinality(S)
<1> DEFINE Before(f) == {g \in S : g.min < f.min \/ (g.min = f.min /\ g.max < f.max)}
           n         == Cardinality(S)
           rank      == [f \in S |-> Cardinality(Before(f))]
<1>1. n \in Nat
  BY Zenon, FS_CardinalityType DEF IsLevel
<1>2. \A f \in S : f.min \in Nat /\ f.max \in Nat /\ f.min <= f.max
  BY Zenon DEF IsLevel, IsRange, Files
<1>3. \A f \in S : IsFiniteSet(Before(f)) /\ rank[f] \in 0 .. n - 1
  <2> TAKE f \in S
  <2>1. Before(f) \in SUBSET (S \ {f})
    BY <1>2
  <2>2. IsFiniteSet(S \ {f}) /\ Cardinality(S \ {f}) = n - 1
    BY Zenon, FS_RemoveElement DEF IsLevel
  <2> HIDE DEF Before, n
  <2>3. IsFiniteSet(Before(f)) /\ Cardinality(Before(f)) <= n - 1
    BY <2>1, <2>2, FS_Subset
  <2>4. Cardinality(Before(f)) \in Nat
    BY Zenon, <2>3, FS_CardinalityType
  <2> QED
    BY <1>1, <2>3, <2>4
<1>4. ASSUME NEW f \in S, NEW g \in S, f.min < g.min
      PROVE  rank[f] # rank[g]
  <2>1. Before(f) \in SUBSET Before(g) /\ f \in Before(g) /\ f \notin Before(f)
    BY <1>2, <1>4
  <2> HIDE DEF Before
  <2> QED
    BY Zenon, <1>3, <2>1, FS_Subset
<1>5. \A f, g \in S : rank[f] = rank[g] => f = g
  <2> SUFFICES ASSUME NEW f \in S, NEW g \in S, f # g
               PROVE  rank[f] # rank[g]
    BY Zenon
  <2>1. f.min < g.min \/ g.min < f.min
    BY <1>2 DEF IsLevel, Overlaps
  <2> HIDE DEF rank
  <2> QED
    BY Zenon, <1>4, <2>1
<1>6. rank \in Injection(S, 0 .. n - 1)
  <2> HIDE DEF n
  <2>1. rank \in [S -> 0 .. n - 1]
    BY Zenon, <1>3
  <2> QED
    BY Zenon, <1>5, <2>1 DEF Injection, IsInjective
<1>7. rank \in Surjection(S, 0 .. n - 1)
  <2>1. IsFiniteSet(0 .. n - 1) /\ Cardinality(0 .. n - 1) = n
    <3> HIDE DEF n
    <3> QED
      BY <1>1, FS_Interval
  <2> HIDE DEF rank
  <2> QED
    BY Zenon, <1>6, <2>1, FS_Injection
<1>8. \A i \in 1 .. n : \E f \in S : Cardinality(Before(f)) = i - 1
  <2> HIDE DEF n, Before
  <2> TAKE i \in 1 .. n
  <2>1. i - 1 \in 0 .. n - 1
    BY <1>1
  <2>2. \E f \in S : rank[f] = i - 1
    BY Zenon, <1>7, <2>1 DEF Surjection
  <2> QED
    BY Zenon, <2>2
<1>9. Listing(S) = [i \in 1 .. n |-> CHOOSE f \in S : Cardinality(Before(f)) = i - 1]
  BY Zenon DEF Listing
<1> HIDE DEF n, Before
<1>10. Listing(S) \in [1 .. n -> S]
  BY Zenon, <1>8, <1>9
<1>11. Listing(S) \in Seq(S) /\ Len(Listing(S)) = n
  BY <1>1, <1>10
<1> QED
  BY Zenon, <1>11 DEF n

\* eligible_prefix: a prefix of the listing is a sequence of files of the level.
LEMMA PrefixOfListing ==
  ASSUME NEW S, NEW s \in Seq(S), NEW l
  PROVE  EligiblePrefix(l, s) \in Seq(S)
<1> DEFINE N == {n \in 0 .. Len(s) : \A i \in 1 .. n : s[i].max <= aged}
<1>1. 0 \in N /\ N \in SUBSET Nat /\ \A n \in N : n <= Len(s)
  OBVIOUS
<1>2. Max(N) \in 0 .. Len(s)
  <2>1. Max(N) \in N
    <3> HIDE DEF N
    <3>1. Len(s) \in Nat /\ N # {}
      BY <1>1
    <3> QED
      BY Zenon, <1>1, <3>1, MaxIsGreatest
  <2> QED
    BY Zenon, <2>1
<1>3. EligiblePrefix(l, s) = s \/ EligiblePrefix(l, s) = SubSeq(s, 1, Max(N))
  BY Zenon DEF EligiblePrefix
<1>4. \A m \in 0 .. Len(s) : SubSeq(s, 1, m) \in Seq(S)
  OBVIOUS
<1> HIDE DEF N
<1> QED
  BY Zenon, <1>2, <1>3, <1>4

\* contiguous_batch: what is selected is a run of files, taken from the listing.
LEMMA BatchIsRun ==
  ASSUME NEW S, NEW s \in Seq(S), NEW n \in Nat \ {0}, ContiguousBatch(s, n) # <<>>
  PROVE  /\ ContiguousBatch(s, n) \in Seq(S)
         /\ Len(ContiguousBatch(s, n)) >= 1
         /\ IsRun(ContiguousBatch(s, n))
<1> DEFINE Ks(i)  == {k \in 1 .. n : i + k - 1 <= Len(s) /\ \A j \in i .. i + k - 2 : Adjacent(s, j)}
           starts == {i \in 1 .. Len(s) : RunLength(s, i, n) >= 2 \/ n = 1}
<1>1. \A i \in 1 .. Len(s) : RunLength(s, i, n) \in Ks(i)
  <2> TAKE i \in 1 .. Len(s)
  <2>1. 1 \in Ks(i) /\ Ks(i) \in SUBSET Nat /\ \A k \in Ks(i) : k <= n
    OBVIOUS
  <2>2. RunLength(s, i, n) = Max(Ks(i))
    BY Zenon DEF RunLength
  <2> HIDE DEF Ks
  <2> QED
    BY Zenon, <2>1, <2>2, MaxIsGreatest
<1>2. starts # {}
  BY Zenon DEF ContiguousBatch
<1>3. Min(starts) \in 1 .. Len(s)
  <2>1. starts \in SUBSET Nat
    OBVIOUS
  <2>2. Min(starts) \in starts
    <3> HIDE DEF starts
    <3> QED
      BY Zenon, <1>2, <2>1, MinIsLeast
  <2> QED
    BY Zenon, <2>2
<1> DEFINE i == Min(starts)
           k == RunLength(s, i, n)
<1>4. ContiguousBatch(s, n) = SubSeq(s, i, i + k - 1)
  BY Zenon, <1>2 DEF ContiguousBatch
<1>5. k \in Ks(i)
  <2> HIDE DEF Ks, starts
  <2> QED
    BY Zenon, <1>1, <1>3
<1>6. i \in 1 .. Len(s)
  BY Zenon, <1>3
<1>7. /\ k \in 1 .. n /\ i + k - 1 <= Len(s)
      /\ \A j \in i .. i + k - 2 : Adjacent(s, j)
  <2> HIDE DEF i, k
  <2> QED
    BY Zenon, <1>5
<1> HIDE DEF starts, i, k, Ks
<1> DEFINE r == SubSeq(s, i, i + k - 1)
<1>8. r \in Seq(S) /\ Len(r) = k /\ \A j \in 1 .. k : r[j] = s[i + j - 1]
  BY <1>6, <1>7
<1>9. \A j \in 1 .. k - 1 : Adjacent(r, j)
  <2> HIDE DEF r
  <2> TAKE j \in 1 .. k - 1
  <2>1. i + j - 1 \in i .. i + k - 2
    BY <1>6, <1>7
  <2>2. r[j] = s[i + j - 1] /\ r[j + 1] = s[i + j]
    BY <1>6, <1>7, <1>8
  <2>3. Adjacent(s, i + j - 1)
    BY Zenon, <1>7, <2>1
  <2> QED
    BY <1>6, <2>2, <2>3 DEF Adjacent
<1> HIDE DEF r
<1>10. ContiguousBatch(s, n) = r
  BY Zenon, <1>4 DEF r
<1> QED
  BY <1>7, <1>8, <1>9, <1>10 DEF IsRun

\* A run starts with its least transaction: the first file that started below it
\* would start behind its predecessor, which does not.
LEMMA RunAscends ==
  ASSUME NEW S, NEW r \in Seq(S), \A f \in S : IsRange(f), Len(r) >= 1, IsRun(r)
  PROVE  \A i \in 1 .. Len(r) : r[1].min <= r[i].min /\ r[i].max <= r[Len(r)].max
<1>1. /\ Len(r) \in Nat
      /\ \A i \in 1 .. Len(r) : r[i].min \in Nat /\ r[i].max \in Nat /\ r[i].min <= r[i].max
  BY DEF IsRange, Files
<1>2. \A i \in 1 .. Len(r) - 1 : r[i].max + 1 = r[i + 1].min
  BY Zenon DEF IsRun, Adjacent
<1>3. \A i \in 1 .. Len(r) : r[1].min <= r[i].min
  <2> DEFINE Bad == {i \in 1 .. Len(r) : ~(r[1].min <= r[i].min)}
  <2> SUFFICES ASSUME Bad # {} PROVE FALSE
    BY Zenon
  <2>1. Bad \in SUBSET Nat
    OBVIOUS
  <2>2. Min(Bad) \in Bad /\ \A j \in Bad : Min(Bad) <= j
    <3> HIDE DEF Bad
    <3> QED
      BY Zenon, <2>1, MinIsLeast
  <2>3. PICK i \in Bad : \A j \in Bad : i <= j
    BY Zenon, <2>2
  <2>4. i \in 1 .. Len(r) /\ i # 1
    BY <1>1, <2>3
  <2>5. i - 1 \in 1 .. Len(r) /\ i - 1 \notin Bad
    BY <1>1, <2>3, <2>4
  <2>6. r[1].min <= r[i - 1].min
    BY Zenon, <2>5
  <2>7. r[i - 1].max + 1 = r[i].min
    <3>1. i - 1 \in 1 .. Len(r) - 1 /\ (i - 1) + 1 = i
      BY <1>1, <2>4
    <3> QED
      BY Zenon, <1>2, <3>1
  <2>8. r[1].min <= r[i].min
    <3> HIDE DEF Bad
    <3>1. 1 \in 1 .. Len(r)
      BY <1>1
    <3> QED
      BY <1>1, <2>4, <2>5, <2>6, <2>7, <3>1
  <2> QED
    BY Zenon, <2>3, <2>8
<1>4. \A i \in 1 .. Len(r) : r[i].max <= r[Len(r)].max
  <2> DEFINE Bad == {i \in 1 .. Len(r) : ~(r[i].max <= r[Len(r)].max)}
  <2> SUFFICES ASSUME Bad # {} PROVE FALSE
    BY Zenon
  <2>1. Bad \in SUBSET Nat /\ \A i \in Bad : i <= Len(r)
    OBVIOUS
  <2>2. Max(Bad) \in Bad /\ \A j \in Bad : j <= Max(Bad)
    <3> HIDE DEF Bad
    <3> QED
      BY Zenon, <1>1, <2>1, MaxIsGreatest
  <2>3. PICK i \in Bad : \A j \in Bad : j <= i
    BY Zenon, <2>2
  <2>4. i \in 1 .. Len(r) /\ i # Len(r)
    BY <1>1, <2>3
  <2>5. i + 1 \in 1 .. Len(r) /\ i + 1 \notin Bad
    BY <1>1, <2>3, <2>4
  <2>6. r[i + 1].max <= r[Len(r)].max
    BY Zenon, <2>5
  <2>7. r[i].max + 1 = r[i + 1].min
    BY <1>1, <1>2, <2>4
  <2>8. r[i].max <= r[Len(r)].max
    <3> HIDE DEF Bad
    <3>1. Len(r) \in 1 .. Len(r)
      BY <1>1
    <3> QED
      BY <1>1, <2>4, <2>5, <2>6, <2>7, <3>1
  <2> QED
    BY Zenon, <2>3, <2>8
<1> QED
  BY Zenon, <1>3, <1>4

\* merge_changesets over a run: the merged file has every transaction of its range,
\* and none beside.
LEMMA MergedIsRange ==
  ASSUME NEW S, NEW r \in Seq(S), \A f \in S : IsRange(f), Len(r) >= 1, IsRun(r)
  PROVE  /\ IsRange(Merged(r)) /\ Merged(r).sound
         /\ Merged(r).min = r[1].min /\ Merged(r).max = r[Len(r)].max
         /\ \A i \in 1 .. Len(r) : r[i].parts \subseteq Merged(r).parts
         /\ \A t \in Merged(r).parts : \E i \in 1 .. Len(r) : t \in r[i].parts
<1> DEFINE lo == r[1].min
           hi == r[Len(r)].max
           all == UNION {r[i].parts : i \in 1 .. Len(r)}
<1>1. /\ Len(r) \in Nat /\ 1 \in 1 .. Len(r) /\ Len(r) \in 1 .. Len(r)
      /\ \A i \in 1 .. Len(r) : /\ r[i].min \in Nat /\ r[i].max \in Nat
                                /\ 1 <= r[i].min /\ r[i].min <= r[i].max
                                /\ r[i].parts = r[i].min .. r[i].max
  BY DEF IsRange, Files
<1>2. \A i \in 1 .. Len(r) - 1 : r[i].max + 1 = r[i + 1].min
  BY Zenon DEF IsRun, Adjacent
<1>3. \A i \in 1 .. Len(r) : lo <= r[i].min /\ r[i].max <= hi
  BY Zenon, RunAscends
<1>4. lo \in Nat /\ hi \in Nat /\ 1 <= lo /\ lo <= hi
  BY <1>1, <1>3
<1>5. ASSUME NEW t \in lo .. hi
      PROVE  \E i \in 1 .. Len(r) : t \in r[i].parts
  <2> DEFINE Upto == {i \in 1 .. Len(r) : r[i].min <= t}
  <2>1. Upto \in SUBSET Nat /\ 1 \in Upto /\ \A i \in Upto : i <= Len(r)
    BY <1>1, <1>5
  <2>2. Max(Upto) \in Upto /\ \A j \in Upto : j <= Max(Upto)
    <3> HIDE DEF Upto
    <3> QED
      BY Zenon, <1>1, <2>1, MaxIsGreatest
  <2>3. PICK i \in Upto : \A j \in Upto : j <= i
    BY Zenon, <2>2
  <2>4. i \in 1 .. Len(r) /\ r[i].min <= t
    BY Zenon
  <2>5. t <= r[i].max
    <3>1. CASE i = Len(r)
      BY <1>5, <3>1
    <3>2. CASE i # Len(r)
      <4>1. i \in 1 .. Len(r) - 1 /\ i + 1 \in 1 .. Len(r)
        BY <1>1, <2>4, <3>2
      <4>2. i + 1 \notin Upto
        BY <2>3, <2>4, <1>1
      <4>3. ~(r[i + 1].min <= t)
        BY Zenon, <4>1, <4>2
      <4>4. r[i].max + 1 = r[i + 1].min
        BY Zenon, <1>2, <4>1
      <4> HIDE DEF Upto
      <4> QED
        BY <1>1, <1>4, <1>5, <2>4, <4>1, <4>3, <4>4
    <3> QED
      BY Zenon, <3>1, <3>2
  <2> HIDE DEF Upto
  <2>6. t \in r[i].min .. r[i].max
    BY <1>1, <1>4, <1>5, <2>4, <2>5
  <2> QED
    BY Zenon, <1>1, <2>4, <2>6
<1>6. \A i \in 1 .. Len(r) : r[i].parts \subseteq lo .. hi
  <2> HIDE DEF lo, hi
  <2> QED
    BY <1>1, <1>3, <1>4
<1>7. all = lo .. hi
  <2> HIDE DEF lo, hi
  <2> QED
    BY Zenon, <1>5, <1>6
<1>8. Merged(r) = [min |-> lo, max |-> hi, parts |-> all, sound |-> TRUE]
  BY Zenon DEF Merged, File
<1> HIDE DEF lo, hi, all
<1>9. /\ Merged(r).min = lo /\ Merged(r).max = hi
      /\ Merged(r).parts = lo .. hi /\ Merged(r).sound = TRUE
  BY <1>7, <1>8
<1>10. Merged(r) \in Files
  <2>1. lo .. hi \in SUBSET Nat
    BY <1>4
  <2> QED
    BY <1>4, <1>7, <1>8, <2>1 DEF Files
<1>11. IsRange(Merged(r))
  BY Zenon, <1>4, <1>9, <1>10 DEF IsRange
<1>12. r[1].min = lo /\ r[Len(r)].max = hi
  BY Zenon DEF lo, hi
<1> QED
  BY Zenon, <1>5, <1>6, <1>9, <1>11, <1>12

\* The files selected for a merge are a run of the source level, and the merged file
\* stands for its transactions.
LEMMA RunOfSources ==
  ASSUME StoreInv, job \in Jobs, Run # <<>>
  PROVE  /\ Run \in Seq(Sources) /\ Run \in Seq(Files) /\ Len(Run) \in Nat /\ Len(Run) >= 1
         /\ IsRange(Merged(Run)) /\ Merged(Run).max <= head
         /\ \A i \in 1 .. Len(Run) : Run[i].parts \subseteq Merged(Run).parts
         /\ \A t \in Merged(Run).parts : Held(job.level, t)
<1>1. job.level \in Levels
  BY DEF Jobs, Levels
<1>2. IsLevel(Sources) /\ \A f \in Sources : IsRange(f) /\ f.max <= head
  BY Zenon, <1>1 DEF StoreInv, Sources, IsLevel
<1>3. Wanted \in Nat \ {0}
  BY Zenon, BoundsAssumption DEF Wanted, StoreInv
<1> DEFINE e == EligiblePrefix(job.level, Listing(Sources))
<1>4. e \in Seq(Sources)
  BY Zenon, <1>2, ListingLists, PrefixOfListing
<1>5. Run = ContiguousBatch(e, Wanted)
  BY Zenon DEF Run
<1> HIDE DEF e
<1>6. Run \in Seq(Sources) /\ Len(Run) >= 1 /\ IsRun(Run)
  BY Zenon, <1>3, <1>4, <1>5, BatchIsRun
<1>7. /\ IsRange(Merged(Run))
      /\ Merged(Run).max = Run[Len(Run)].max
      /\ \A i \in 1 .. Len(Run) : Run[i].parts \subseteq Merged(Run).parts
      /\ \A t \in Merged(Run).parts : \E i \in 1 .. Len(Run) : t \in Run[i].parts
  BY Zenon, <1>2, <1>6, MergedIsRange
<1>8. Len(Run) \in Nat /\ \A i \in 1 .. Len(Run) : Run[i] \in Sources
  BY <1>6
<1>9. Merged(Run).max <= head
  <2>1. Len(Run) \in 1 .. Len(Run)
    BY <1>6, <1>8
  <2> QED
    BY Zenon, <1>2, <1>7, <1>8, <2>1
<1>10. \A t \in Merged(Run).parts : Held(job.level, t)
  BY Zenon, <1>7, <1>8 DEF Held, Sources
<1>11. Run \in Seq(Files)
  <2>1. Sources \subseteq Files
    BY Zenon, <1>2 DEF IsRange
  <2> QED
    BY <1>6, <2>1
<1> QED
  BY Zenon, <1>6, <1>7, <1>8, <1>9, <1>10, <1>11

-----------------------------------------------------------------------------
\* The first steps of a merge, which plan it: run_level_compaction.

\* converge_interrupted_delete: what it deletes is inside sound files.
LEMMA FinishDeletionKeeps ==
  ASSUME KeepsInv, FinishDeletion, UNCHANGED fleet
  PROVE  KeepsInv'
<1> DEFINE L == Leftovers(Sources, Targets)
<1>1. job \in Jobs /\ job.level \in {0, 1} /\ job.level \in Levels /\ job.level + 1 \in Levels
  BY DEF KeepsInv, JobInv, Jobs, Levels
<1>2. IsLevel(Sources) /\ IsLevel(Targets)
  BY Zenon, <1>1 DEF KeepsInv, StoreInv, Sources, Targets
<1>3. \A f \in L : f \in Sources /\ \E m \in Targets : Within(f, m) /\ m.sound
  BY Zenon DEF Leftovers, VerifyCovers
<1> HIDE DEF L
<1>4. IsLevel(L) /\ L # {}
  <2>1. L \in SUBSET Sources /\ L # {}
    BY Zenon, <1>3 DEF FinishDeletion, L
  <2> QED
    BY Zenon, <1>2, <2>1, PartOfLevel
<1> DEFINE s == Listing(L)
<1>5. s \in Seq(L) /\ Len(s) = Cardinality(L)
  BY Zenon, <1>4, ListingLists
<1>6. pc' = "delete" /\ job' = Job(job.level, NoFile, NoFile, s, Len(s), FALSE)
  BY Zenon DEF FinishDeletion, StartDelete, L
<1> HIDE DEF s
<1>7. Len(s) \in Nat /\ Len(s) >= 1
  <2>1. Cardinality(L) \in Nat /\ Cardinality(L) # 0
    BY Zenon, <1>4, FS_CardinalityType, FS_EmptySet DEF IsLevel
  <2> QED
    BY <1>5, <2>1
<1>8. \A i \in 1 .. Len(s) : \A t \in s[i].parts : Covered(job.level + 1, t)
  <2> TAKE i \in 1 .. Len(s)
  <2> TAKE t \in s[i].parts
  <2>1. s[i] \in L
    BY <1>5
  <2>2. s[i] \in Sources
    BY Zenon, <1>3, <2>1
  <2>3. PICK m \in Targets : Within(s[i], m) /\ m.sound
    BY Zenon, <1>3, <2>1
  <2>4. /\ s[i].min \in Nat /\ s[i].max \in Nat /\ t \in s[i].min .. s[i].max
        /\ m.min \in Nat /\ m.max \in Nat /\ m.parts = m.min .. m.max
    BY Zenon, <1>2, <2>2 DEF IsLevel, IsRange, Files
  <2>5. t \in m.parts
    BY <2>3, <2>4 DEF Within
  <2> QED
    BY Zenon, <2>3, <2>5 DEF Covered, Targets
<1>9. /\ job' \in Jobs /\ job'.del = s /\ job'.level = job.level
  <2>1. NoFile \in Files
    BY Zenon DEF NoFile, File, Files
  <2>2. s \in Seq(Files)
    <3>1. L \subseteq Files
      BY Zenon, <1>4 DEF IsLevel, IsRange
    <3> QED
      BY <1>5, <3>1
  <2> QED
    BY Zenon, <1>1, <1>6, <1>7, <2>1, <2>2 DEF Job, Jobs
<1>10. UNCHANGED <<head, snaps, files, batch, dropped, prune>>
  BY Zenon DEF FinishDeletion, fleet
<1>11. StoreInv' /\ PruneInv' /\ NothingLost'
  <2>1. PruneInv'
    BY Zenon, <1>10, PruneGoesOn DEF KeepsInv
  <2> QED
    BY <1>10, <2>1 DEF KeepsInv, StoreInv, Held, NothingLost, Stored
<1>12. JobInv'
  <2>1. \A i \in 1 .. Len(s) : \A t \in s[i].parts : Covered(job.level + 1, t)'
    BY Zenon, <1>1, <1>8, <1>9, <1>10 DEF Covered
  <2> QED
    BY <1>6, <1>7, <1>9, <2>1, Zenon DEF JobInv
<1> QED
  BY Zenon, <1>11, <1>12 DEF KeepsInv

\* A merge is selected: it deletes at once under a sound file with its range, and
\* otherwise has its sources below and at most that file above.
LEMMA SelectedKeeps ==
  ASSUME KeepsInv, Run # <<>>, UNCHANGED <<head, snaps, files, batch, dropped, prune>>,
         NEW old \in Files,
         \/ /\ pc' = "delete" /\ job' = Job(job.level, NoFile, NoFile, Run, Len(Run), FALSE)
            /\ \E m \in Targets : m.min = Merged(Run).min /\ m.max = Merged(Run).max /\ m.sound
         \/ /\ pc' \in {"drop", "write"}
            /\ job' = Job(job.level, Merged(Run), old, Run, Len(Run), FALSE)
            /\ \A g \in Targets : Overlaps(g, Merged(Run)) => pc' = "drop" /\ g = old
            /\ pc' = "drop" => old.min = Merged(Run).min /\ old.max = Merged(Run).max
  PROVE  KeepsInv'
<1> DEFINE r   == Run
           out == Merged(Run)
<1>1. job \in Jobs /\ job.level \in {0, 1} /\ job.level + 1 \in Levels
  BY DEF KeepsInv, JobInv, Jobs, Levels
<1>2. StoreInv
  BY Zenon DEF KeepsInv
<1>3. /\ r \in Seq(Files) /\ Len(r) \in Nat /\ Len(r) >= 1
      /\ IsRange(out) /\ out.max <= head
      /\ \A i \in 1 .. Len(r) : r[i].parts \subseteq out.parts
      /\ \A t \in out.parts : Held(job.level, t)
  BY Zenon, <1>1, <1>2, RunOfSources
<1>4. StoreInv' /\ PruneInv' /\ NothingLost'
  <2>1. PruneInv'
    BY Zenon, PruneGoesOn DEF KeepsInv
  <2> QED
    BY <2>1 DEF KeepsInv, StoreInv, Held, NothingLost, Stored
<1>5. NoFile \in Files /\ out \in Files
  BY Zenon, <1>3 DEF NoFile, File, Files, IsRange
<1>6. CASE /\ pc' = "delete" /\ job' = Job(job.level, NoFile, NoFile, r, Len(r), FALSE)
           /\ \E m \in Targets : m.min = out.min /\ m.max = out.max /\ m.sound
  <2> HIDE DEF r, out
  <2>1. job' \in Jobs /\ job'.del = r /\ job'.level = job.level
    BY Zenon, <1>1, <1>3, <1>5, <1>6 DEF Job, Jobs
  <2>2. PICK m \in Targets : m.min = out.min /\ m.max = out.max /\ m.sound
    BY Zenon, <1>6
  <2>3. m.parts = out.parts
    BY <1>1, <1>2, <1>3, <2>2 DEF StoreInv, Targets, IsLevel, IsRange
  <2>4. \A i \in 1 .. Len(r) : \A t \in r[i].parts : Covered(job.level + 1, t)'
    <3>1. Targets = files'[job.level + 1]
      BY Zenon DEF Targets
    <3> QED
      BY Zenon, <1>3, <2>1, <2>2, <2>3, <3>1 DEF Covered
  <2>5. JobInv'
    BY <1>3, <1>6, <2>1, <2>4, Zenon DEF JobInv
  <2> QED
    BY Zenon, <1>4, <2>5 DEF KeepsInv
<1>7. CASE /\ pc' \in {"drop", "write"}
           /\ job' = Job(job.level, out, old, r, Len(r), FALSE)
           /\ \A g \in Targets : Overlaps(g, out) => pc' = "drop" /\ g = old
           /\ pc' = "drop" => old.min = out.min /\ old.max = out.max
  <2> HIDE DEF r, out
  <2>1. /\ job' \in Jobs /\ job'.del = r /\ job'.level = job.level
        /\ job'.out = out /\ job'.old = old
    BY Zenon, <1>1, <1>3, <1>5, <1>7 DEF Job, Jobs
  <2>2. Targets' = Targets
    BY Zenon, <2>1 DEF Targets
  <2>3. \A t \in out.parts : Held(job.level, t)'
    BY Zenon, <1>3, <2>1 DEF Held
  <2>4. JobInv'
    BY <1>3, <1>7, <2>1, <2>2, <2>3, Zenon DEF JobInv
  <2> QED
    BY Zenon, <1>4, <2>4 DEF KeepsInv
<1> QED
  BY <1>6, <1>7, Zenon

\* find_existing_merged decides between refusing, deleting, replacing and writing.
LEMMA SelectRunKeeps ==
  ASSUME KeepsInv, SelectRun, UNCHANGED fleet
  PROVE  KeepsInv'
<1> DEFINE out   == Merged(Run)
           hits  == {m \in Targets : Overlaps(m, out)}
           exact == {m \in hits : m.min = out.min /\ m.max = out.max}
           todo  == Job(job.level, out, NoFile, Run, Len(Run), FALSE)
<1>1. Run # <<>> /\ UNCHANGED <<head, snaps, files, batch, dropped, prune>>
  BY Zenon DEF SelectRun, fleet
<1>2. job \in Jobs /\ job.level + 1 \in Levels /\ NoFile \in Files /\ IsLevel(Targets)
  BY DEF KeepsInv, JobInv, StoreInv, Jobs, Levels, NoFile, File, Files, Targets
<1>3. \A m \in Targets : m \in Files
  BY Zenon, <1>2 DEF IsLevel, IsRange
<1>4. CASE pc' = "idle" /\ job' = NoJob
  BY Zenon, <1>1, <1>4, JobTypes, NothingStored DEF Merging
<1>5. CASE hits = {} /\ pc' = "write" /\ job' = todo
  BY <1>1, <1>2, <1>5, SelectedKeeps, Zenon
<1>6. ASSUME NEW m \in exact, hits = exact, m.sound, StartDelete(Run)
      PROVE  KeepsInv'
  <2>1. m \in Targets /\ m.min = out.min /\ m.max = out.max
    BY Zenon, <1>6
  <2>2. pc' = "delete" /\ job' = Job(job.level, NoFile, NoFile, Run, Len(Run), FALSE)
    BY Zenon, <1>6 DEF StartDelete
  <2> HIDE DEF hits, exact, todo
  <2> QED
    BY Zenon, <1>1, <1>2, <1>6, <2>1, <2>2, SelectedKeeps
<1>7. ASSUME NEW m \in exact, hits = exact, pc' = "drop", job' = [todo EXCEPT !.old = m]
      PROVE  KeepsInv'
  <2>1. m \in Targets /\ m \in Files /\ m.min = out.min /\ m.max = out.max
    BY Zenon, <1>3, <1>7
  <2>2. \A g \in Targets : Overlaps(g, out) => g = m
    <3> SUFFICES ASSUME NEW g \in Targets, Overlaps(g, out) PROVE g = m
      BY Zenon
    <3>1. g.min = out.min /\ g.max = out.max
      BY Zenon, <1>7
    <3>2. IsRange(g)
      BY Zenon, <1>2 DEF IsLevel
    <3> HIDE DEF out, hits, exact, todo
    <3>3. Overlaps(g, m)
      BY Zenon, <2>1, <3>1, <3>2 DEF Overlaps, IsRange, Files
    <3> QED
      BY Zenon, <1>2, <2>1, <3>3 DEF IsLevel
  <2>3. job' = Job(job.level, out, m, Run, Len(Run), FALSE)
    BY <1>7, Zenon DEF Job
  <2> HIDE DEF hits, exact, todo
  <2> QED
    BY <1>1, <1>7, <2>1, <2>2, <2>3, SelectedKeeps, Zenon
<1>8. \/ pc' = "idle" /\ job' = NoJob
      \/ hits = {} /\ pc' = "write" /\ job' = todo
      \/ \E m \in exact : hits = exact /\ m.sound /\ StartDelete(Run)
      \/ \E m \in exact : hits = exact /\ pc' = "drop" /\ job' = [todo EXCEPT !.old = m]
  BY Zenon DEF SelectRun
<1> HIDE DEF hits, exact, todo, out
<1> QED
  BY Zenon, <1>4, <1>5, <1>6, <1>7, <1>8

\* A file in place that cannot be read is replaced, be it sound.
LEMMA VerifyFailsKeeps ==
  ASSUME KeepsInv, VerifyFails, UNCHANGED fleet
  PROVE  KeepsInv'
<1>1. Run # <<>> /\ UNCHANGED <<head, snaps, files, batch, dropped, prune>>
  BY Zenon DEF VerifyFails, fleet
<1>2. PICK m \in Targets :
        /\ m.min = Merged(Run).min /\ m.max = Merged(Run).max
        /\ \A g \in Targets \ {m} : ~Overlaps(g, Merged(Run))
        /\ pc' = "drop" /\ job' = Job(job.level, Merged(Run), m, Run, Len(Run), FALSE)
  BY Zenon DEF VerifyFails
<1>3. m \in Files
  BY DEF KeepsInv, JobInv, StoreInv, Jobs, Levels, Targets, IsLevel, IsRange
<1> QED
  BY <1>1, <1>2, <1>3, SelectedKeeps, Zenon

-----------------------------------------------------------------------------
\* Every step, and what follows from them.

\* A restart anchors the stream with a snapshot (anchor_stream_on_startup).
LEMMA RestartKeeps ==
  ASSUME KeepsInv, Restart, UNCHANGED fleet
  PROVE  KeepsInv'
<1>1. /\ head' = DiscoveredHead + 1 /\ snaps' = snaps \cup {DiscoveredHead + 1}
      /\ batch' \in L1Batches
      /\ UNCHANGED <<files, dropped, prune>> /\ job' \in Jobs /\ pc' \notin Merging
  BY Zenon DEF Restart, Configured, fleet, Merging, KeepsInv, JobInv
<1> QED
  BY Zenon, <1>1, DiscoversNewest, SnapshotKeeps

\* Every step of the writer and its compactor.
LEMMA WriterKeeps ==
  ASSUME KeepsInv, Next, UNCHANGED fleet
  PROVE  KeepsInv'
<1>1. UNCHANGED <<dropped, prune>>
  BY Zenon DEF fleet
<1>2. CASE SyncIdle \/ Tick \/ NothingToMerge \/ SourceFails \/ Crash
  <2>1. UNCHANGED <<head, snaps, files, batch>> /\ job' \in Jobs /\ pc' \notin Merging
    BY Zenon, <1>2, JobTypes DEF SyncIdle, Tick, NothingToMerge, SourceFails, Crash, Proceed, Merging
  <2> QED
    BY Zenon, <1>1, <2>1, NothingStored
<1>3. CASE Age
  BY Zenon, <1>1, <1>3, NothingChanged DEF Age
<1> QED
  BY Zenon, <1>2, <1>3, PublishL0Keeps, PublishRolloverKeeps, FinishDeletionKeeps, SelectRunKeeps,
     VerifyFailsKeeps, DropUnsoundKeeps, WriteMergedKeeps, ReadBackKeeps, DeleteSourceKeeps,
     RequestFailsKeeps, RestartKeeps DEF Next, Compact

\* plan_legacy_prune keeps the newest of the snapshots it was given.
LEMMA PlanDeletionsKeeps ==
  ASSUME KeepsInv, NEW next \in {"levels", "delete"}, PlanDeletions(next)
  PROVE  KeepsInv'
<1>1. /\ UNCHANGED <<head, snaps, files, batch, dropped, pc, job>>
      /\ prune # None /\ prune.pc = "plan"
  BY Zenon DEF PlanDeletions, vars
<1>2. DOMAIN prune = {"pc", "snaps", "keep", "del"} /\ prune.snaps \subseteq snaps /\ prune.snaps # {}
  BY Zenon, <1>1 DEF KeepsInv, PruneInv
<1>3. PICK doomed \in SUBSET prune.snaps :
        LET keep == Kept(prune.snaps, doomed, files[0])
        IN  prune' = [prune EXCEPT !.pc = next, !.keep = keep,
                                   !.del = {<<0, File(s, s, {s}, TRUE)>> : s \in prune.snaps \ keep}]
  BY Zenon DEF PlanDeletions
<1> DEFINE keep == Kept(prune.snaps, doomed, files[0])
           del  == {<<0, File(s, s, {s}, TRUE)>> : s \in prune.snaps \ keep}
           top  == Max(prune.snaps)
<1>4. top \in prune.snaps
  <2>1. head \in Nat /\ snaps \subseteq 1 .. head
    BY Zenon DEF KeepsInv, StoreInv
  <2>2. prune.snaps \in SUBSET Nat /\ \A s \in prune.snaps : s <= head
    <3>1. \A s \in snaps : s \in Nat /\ s <= head
      BY <2>1
    <3> QED
      BY <1>2, <3>1, Zenon
  <2> QED
    BY <1>2, <2>1, <2>2, MaxIsGreatest, Zenon
<1>5. top \in keep
  BY Zenon, <1>4 DEF Kept
<1>6. \A d \in del : top \notin d[2].parts
  <2> HIDE DEF keep, top
  <2> SUFFICES ASSUME NEW s \in prune.snaps \ keep
               PROVE  top \notin <<0, File(s, s, {s}, TRUE)>>[2].parts
    BY Zenon
  <2>1. <<0, File(s, s, {s}, TRUE)>>[2].parts = {s}
    BY Zenon DEF File
  <2> QED
    BY <1>5, <2>1, Zenon
<1>7. prune' = [prune EXCEPT !.pc = next, !.keep = keep, !.del = del]
  BY Zenon, <1>3
<1> HIDE DEF keep, del, top
<1>8. DOMAIN prune' = {"pc", "snaps", "keep", "del"} /\ prune'.pc = next /\ prune'.del = del
  BY Zenon, <1>2, <1>7
<1>9. PruneInv'
  <2>1. top \in snaps'
    BY Zenon, <1>1, <1>2, <1>4
  <2> QED
    BY Zenon, <1>6, <1>8, <2>1 DEF PruneInv
<1> QED
  BY Zenon, <1>1, <1>9, PlanKeeps

\* Every step of retention.
LEMMA RetentionKeeps ==
  ASSUME KeepsInv, Retention
  PROVE  KeepsInv'
<1>1. CASE PruneList
  <2>1. UNCHANGED <<head, snaps, files, batch, dropped, pc, job>>
    BY Zenon, <1>1 DEF PruneList
  <2>2. PruneInv'
    BY Zenon, <1>1 DEF PruneList, PruneInv, KeepsInv, StoreInv
  <2> QED
    BY Zenon, <2>1, <2>2, PlanKeeps
<1> QED
  BY Zenon, <1>1, PlanDeletionsKeeps, PruneLevelsKeeps, PruneDeleteKeeps
     DEF Retention, PrunePlan, RunPrunePlan

\* Every step of anyone.
LEMMA KeepsNext == KeepsInv /\ [FleetNext]_<<vars, fleet>> => KeepsInv'
<1> SUFFICES ASSUME KeepsInv, [FleetNext]_<<vars, fleet>> PROVE KeepsInv'
  BY Zenon
<1>1. CASE UNCHANGED <<vars, fleet>>
  BY Zenon, <1>1, NothingChanged DEF vars, fleet
<1>2. CASE Next /\ UNCHANGED fleet
  BY Zenon, <1>2, WriterKeeps
<1> QED
  BY Zenon, <1>1, <1>2, RetentionKeeps, ReadersKeep DEF FleetNext

\* Whatever the numbers of transactions, files and faults, a transaction that was
\* published stays in a snapshot or in a file that decodes, until retention drops it
\* (run_level_compaction, converge_interrupted_delete, plan_legacy_prune).
THEOREM NothingIsLost == FleetSpec => []NothingLost
<1>1. KeepsInv => NothingLost
  BY Zenon DEF KeepsInv
<1> QED
  BY <1>1, KeepsInit, KeepsNext, PTL DEF FleetSpec

\* The numbers and the replica, step by step.
LEMMA FleetInvNext ==
  FleetInv /\ [FleetNext]_<<vars, fleet>> => FleetInv' /\ (ReplicaStep \/ UNCHANGED rep)
BY Zenon, KeepsNext, FleetStep DEF FleetInv

\* Whatever is published, merged, pruned or stopped beside it, the file of a replica
\* holds one state of the database after each of its steps, at or past its state file,
\* and none older than before, except as ReplicaExact says (replicate.rs).
THEOREM ReplicaStaysExact == FleetSpec => ReplicaExact
<1>1. FleetInit => FleetInv
  BY Zenon, KeepsInit, ReplicaInit DEF FleetInv
<1>2. ReplicaStep \/ UNCHANGED rep => [ReplicaStep]_rep
  BY Zenon
<1> QED
  BY <1>1, <1>2, FleetInvNext, PTL DEF FleetSpec, ReplicaExact, ReplicaStep

\* No transaction number is given to two transactions: whatever retention and
\* compaction have deleted by then, a process that starts finds the newest number ever
\* published and goes on behind it (discover_legacy_state, anchor_stream_on_startup).
THEOREM FindsNewestNumber == FleetSpec => [](DiscoveredHead = head)
<1>1. FleetInit => FleetInv
  BY Zenon, KeepsInit, ReplicaInit DEF FleetInv
<1>2. FleetInv => DiscoveredHead = head
  BY Zenon, DiscoversHead DEF FleetInv
<1> QED
  BY <1>1, <1>2, FleetInvNext, PTL DEF FleetSpec

=============================================================================
