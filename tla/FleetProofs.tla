---------------------------- MODULE FleetProofs -----------------------------
(***************************************************************************)
(* What the steps of LegacyFleet keep, one lemma per group of them.        *)
(*                                                                         *)
(* First what is stored: how a file comes to a level and goes from it, and *)
(* that KeepsInv of FleetInvariants, from which CompactionProofs derives   *)
(* that nothing is lost, is kept by publishing, by the steps of a merge    *)
(* once it has been selected, by a request that fails at any of them, and  *)
(* by retention.                                                           *)
(*                                                                         *)
(* Then the read replica beside a writer, compaction, retention and stops: *)
(* a poll never leaves pages of two states in the file, and the file does  *)
(* not fall behind its state file.  A poll works from three listings, each *)
(* older than the next, and a stop between the rename and the state file   *)
(* leaves the file ahead of the number from which the replica goes on.     *)
(***************************************************************************)
EXTENDS FleetInvariants, TLAPS


-----------------------------------------------------------------------------
\* What a level other than the top one has is stored in a sound file of some level.
LEMMA HeldIsSafe ==
  ASSUME StoreInv, NEW l \in {0, 1}, NEW t, Held(l, t)
  PROVE  t \in snaps \cup dropped \/ \E f \in Stored : f.sound /\ t \in f.parts
<1>1. \A k \in Levels : files[k] \subseteq Stored
  BY Zenon DEF Stored
<1>2. 0 \in Levels /\ 1 \in Levels
  BY DEF Levels
<1>3. Held(0, t) => t \in snaps \cup dropped \/ \E f \in Stored : f.sound /\ t \in f.parts
  BY Zenon, <1>1, <1>2 DEF Held, StoreInv
<1>4. Held(1, t) => Held(0, t) \/ \E f \in Stored : f.sound /\ t \in f.parts
  BY Zenon, <1>1, <1>2 DEF Held, StoreInv
<1> QED
  BY Zenon, <1>3, <1>4

\* Part of a finite set is finite: list one of its elements in place of the others.
LEMMA PartIsFinite ==
  ASSUME NEW S, IsFiniteSet(S), NEW T \in SUBSET S
  PROVE  IsFiniteSet(T)
<1>1. PICK s \in Seq(S) : \A x \in S : \E n \in 1 .. Len(s) : s[n] = x
  BY DEF IsFiniteSet
<1>2. CASE T = {}
  <2>1. << >> \in Seq(T)
    OBVIOUS
  <2> QED
    BY Zenon, <1>2, <2>1 DEF IsFiniteSet
<1>3. CASE T # {}
  <2>1. PICK a : a \in T
    BY Zenon, <1>3
  <2> DEFINE u == [n \in 1 .. Len(s) |-> IF s[n] \in T THEN s[n] ELSE a]
  <2>2. Len(s) \in Nat /\ u \in Seq(T) /\ Len(u) = Len(s)
    BY <2>1
  <2>3. \A x \in T : \E n \in 1 .. Len(u) : u[n] = x
    BY <1>1, <2>2
  <2> QED
    BY Zenon, <2>2, <2>3 DEF IsFiniteSet
<1> QED
  BY Zenon, <1>2, <1>3

\* And a finite set with one element more.
LEMMA OneMoreIsFinite ==
  ASSUME NEW S, IsFiniteSet(S), NEW a
  PROVE  IsFiniteSet(S \cup {a})
<1>1. PICK s \in Seq(S) : \A x \in S : \E n \in 1 .. Len(s) : s[n] = x
  BY DEF IsFiniteSet
<1> DEFINE u == Append(s, a)
<1>2. /\ Len(s) \in Nat /\ u \in Seq(S \cup {a}) /\ Len(u) = Len(s) + 1 /\ u[Len(s) + 1] = a
      /\ \A n \in 1 .. Len(s) : u[n] = s[n]
  OBVIOUS
<1> HIDE DEF u
<1>3. \A x \in S \cup {a} : \E n \in 1 .. Len(u) : u[n] = x
  BY <1>1, <1>2
<1> QED
  BY Zenon, <1>2, <1>3 DEF IsFiniteSet

\* No file is a level too.
LEMMA NoneIsFinite == IsFiniteSet({})
<1>1. << >> \in Seq({})
  OBVIOUS
<1> QED
  BY Zenon, <1>1 DEF IsFiniteSet

\* What is left of a level is one.
LEMMA PartOfLevel ==
  ASSUME NEW S, IsLevel(S), NEW T \in SUBSET S
  PROVE  IsLevel(T)
<1>1. IsFiniteSet(T)
  BY Zenon, PartIsFinite DEF IsLevel
<1> QED
  BY Zenon, <1>1 DEF IsLevel

\* And with a file that overlaps none of them.
LEMMA LevelAndFile ==
  ASSUME NEW S, IsLevel(S), NEW f, IsRange(f), \A g \in S : ~Overlaps(g, f)
  PROVE  IsLevel(S \cup {f})
<1>1. IsFiniteSet(S \cup {f})
  BY Zenon, OneMoreIsFinite DEF IsLevel
<1>2. \A g, h \in S \cup {f} : g # h => ~Overlaps(g, h)
  BY Zenon DEF IsLevel, Overlaps
<1> QED
  BY Zenon, <1>1, <1>2 DEF IsLevel

\* The jobs between two merges.
LEMMA JobTypes ==
  /\ NoJob \in Jobs /\ NoJob.level = 0
  /\ [NoJob EXCEPT !.produced = TRUE] \in Jobs
  /\ [NoJob EXCEPT !.level = 1] \in Jobs
<1>1. NoFile \in Files
  BY Zenon DEF NoFile, File, Files
<1>2. <<>> \in Seq(Files)
  OBVIOUS
<1> QED
  BY <1>1, <1>2, Zenon DEF NoJob, Job, Jobs

\* Retention goes on as before when others publish.
LEMMA PruneGoesOn ==
  ASSUME PruneInv, UNCHANGED prune, snaps \subseteq snaps'
  PROVE  PruneInv'
BY Zenon DEF PruneInv

\* A step that leaves what is stored alone, and the compaction between two merges.
LEMMA NothingStored ==
  ASSUME KeepsInv, UNCHANGED <<head, snaps, files, batch, dropped, prune>>,
         job' \in Jobs, pc' \notin Merging
  PROVE  KeepsInv'
<1>1. StoreInv'
  BY Zenon DEF KeepsInv, StoreInv, Held
<1>2. JobInv'
  BY Zenon DEF JobInv, Merging
<1>3. PruneInv'
  BY Zenon, PruneGoesOn DEF KeepsInv
<1>4. NothingLost'
  BY Zenon DEF KeepsInv, NothingLost, Stored
<1> QED
  BY Zenon, <1>1, <1>2, <1>3, <1>4 DEF KeepsInv

\* A step of those who read only.
LEMMA NothingChanged ==
  ASSUME KeepsInv, UNCHANGED <<head, snaps, files, batch, dropped, prune, pc, job>>
  PROVE  KeepsInv'
<1>1. StoreInv'
  BY Zenon DEF KeepsInv, StoreInv, Held
<1>2. JobInv'
  BY Zenon DEF KeepsInv, JobInv, Held, Covered, Targets
<1>3. PruneInv'
  BY Zenon, PruneGoesOn DEF KeepsInv
<1>4. NothingLost'
  BY Zenon DEF KeepsInv, NothingLost, Stored
<1> QED
  BY Zenon, <1>1, <1>2, <1>3, <1>4 DEF KeepsInv

-----------------------------------------------------------------------------
\* How a file comes to a level, and how one goes.

\* A merged file comes: a sound one, or a torn one over what it was merged from.
LEMMA FileComes ==
  ASSUME KeepsInv, NEW l \in {1, 2}, NEW f, IsRange(f), f.max <= head,
         \A g \in files[l] : ~Overlaps(g, f),
         l = 1 => f.sound \/ \A t \in f.parts : Held(0, t),
         files' = [files EXCEPT ![l] = @ \cup {f}],
         UNCHANGED <<head, snaps, batch, dropped>>
  PROVE  StoreInv' /\ NothingLost' /\ f \in files'[l] /\ files'[l - 1] = files[l - 1]
<1>1. l \in Levels /\ l - 1 \in Levels /\ l # l - 1 /\ DOMAIN files = Levels /\ l # 0
  BY DEF Levels, KeepsInv, StoreInv
<1>2. /\ DOMAIN files' = Levels
      /\ \A k \in Levels : files'[k] = IF k = l THEN files[k] \cup {f} ELSE files[k]
  BY Zenon, <1>1
<1>3. \A k \in Levels : IsLevel(files'[k]) /\ \A g \in files'[k] : g.max <= head
  <2> TAKE k \in Levels
  <2>1. IsLevel(files[k]) /\ \A g \in files[k] : g.max <= head
    BY Zenon DEF KeepsInv, StoreInv
  <2>2. CASE k = l
    <3>1. IsLevel(files[k] \cup {f})
      BY Zenon, <2>1, <2>2, LevelAndFile
    <3> QED
      BY Zenon, <1>2, <2>1, <2>2, <3>1
  <2>3. CASE k # l
    BY Zenon, <1>2, <2>1, <2>3
  <2> QED
    BY Zenon, <2>2, <2>3
<1>4. files'[0] = files[0]
  BY <1>1, <1>2 DEF Levels
<1>5. \A t : Held(0, t) => Held(0, t)'
  BY Zenon, <1>4 DEF Held
<1>6. \A g \in files'[1] : g.sound \/ \A t \in g.parts : Held(0, t)'
  <2> TAKE g \in files'[1]
  <2>1. g \in files[1] \/ (l = 1 /\ g = f)
    BY <1>2 DEF Levels
  <2>2. g.sound \/ \A t \in g.parts : Held(0, t)
    BY Zenon, <2>1 DEF KeepsInv, StoreInv
  <2> QED
    BY Zenon, <1>5, <2>2
<1>7. StoreInv'
  BY Zenon, <1>2, <1>3, <1>4, <1>6 DEF KeepsInv, StoreInv
<1>8. Stored \subseteq Stored'
  BY <1>2 DEF Stored
<1>9. NothingLost'
  BY Zenon, <1>8 DEF KeepsInv, NothingLost
<1> QED
  BY Zenon, <1>1, <1>2, <1>7, <1>9

\* A file goes: a torn merged one, one whose transactions are in sound files above,
\* or a merged one whose transactions are stored below.
LEMMA FileGoes ==
  ASSUME KeepsInv, NEW l \in Levels, NEW f,
         \/ l # 0 /\ ~f.sound
         \/ l # 2 /\ \A t \in f.parts : Covered(l + 1, t)
         \/ l # 0 /\ (f \in files[l] => \A t \in f.parts : Held(l - 1, t)),
         files' = [files EXCEPT ![l] = @ \ {f}],
         UNCHANGED <<head, snaps, batch, dropped>>
  PROVE  StoreInv' /\ NothingLost' /\ \A k \in Levels : k # l => files'[k] = files[k]
<1>1. l \in 0 .. 2 /\ Levels = 0 .. 2 /\ DOMAIN files = Levels
  BY Zenon DEF Levels, KeepsInv, StoreInv
<1>2. /\ DOMAIN files' = Levels
      /\ \A k \in Levels : files'[k] = IF k = l THEN files[k] \ {f} ELSE files[k]
  BY Zenon, <1>1
<1>3. \A k \in Levels : IsLevel(files'[k]) /\ \A g \in files'[k] : g.max <= head
  <2> TAKE k \in Levels
  <2>1. IsLevel(files[k]) /\ (\A g \in files[k] : g.max <= head) /\ files'[k] \in SUBSET files[k]
    BY Zenon, <1>2 DEF KeepsInv, StoreInv
  <2> QED
    BY Zenon, <2>1, PartOfLevel
<1>4. \A g \in files'[1] : g.sound \/ \A t \in g.parts : Held(0, t)'
  <2> SUFFICES ASSUME NEW g \in files'[1], ~g.sound, NEW t \in g.parts
               PROVE  Held(0, t)'
    BY Zenon
  <2>1. g \in files[1] /\ Held(0, t)
    BY <1>1, <1>2 DEF KeepsInv, StoreInv
  <2>2. CASE l # 0
    BY <1>1, <1>2, <2>1, <2>2 DEF Held
  <2>3. CASE l = 0
    <3>1. CASE t \in f.parts
      <4>1. Covered(1, t)
        BY <2>3, <3>1
      <4>2. \A m \in files[1] : m.sound /\ t \in m.parts => FALSE
        <5> SUFFICES ASSUME NEW m \in files[1], m.sound, t \in m.parts PROVE FALSE
          BY Zenon
        <5>1. IsLevel(files[1])
          BY <1>1 DEF KeepsInv, StoreInv
        <5>2. /\ g.min \in Nat /\ g.max \in Nat /\ t \in g.min .. g.max
              /\ m.min \in Nat /\ m.max \in Nat /\ t \in m.min .. m.max
          BY Zenon, <2>1, <5>1 DEF IsLevel, IsRange, Files
        <5>3. Overlaps(g, m)
          BY <5>2 DEF Overlaps
        <5> QED
          BY Zenon, <2>1, <5>1, <5>3 DEF IsLevel
      <4> QED
        BY Zenon, <4>1, <4>2 DEF Covered, Held
    <3>2. CASE t \notin f.parts
      BY <1>1, <1>2, <2>1, <3>2 DEF Held
    <3> QED
      BY Zenon, <3>1, <3>2
  <2> QED
    BY Zenon, <2>2, <2>3
<1>5. StoreInv'
  <2>1. files'[0] \subseteq files[0]
    BY <1>1, <1>2
  <2> QED
    BY Zenon, <1>2, <1>3, <1>4, <2>1 DEF KeepsInv, StoreInv
<1>6. \A k \in Levels : \A g \in files[k] : (g # f \/ k # l) => g \in Stored'
  BY <1>2 DEF Stored
<1>7. ASSUME NEW t \in f.parts, f \in files[l], f.sound
      PROVE  t \in snaps \cup dropped \/ \E g \in Stored' : g.sound /\ t \in g.parts
  <2>1. CASE l # 2 /\ Covered(l + 1, t)
    <3>1. l + 1 \in Levels /\ l + 1 # l
      BY <1>1, <2>1
    <3> QED
      BY Zenon, <1>6, <2>1, <3>1 DEF Covered
  <2>2. CASE l # 0 /\ Held(l - 1, t)
    <3>1. 0 \in Levels /\ 1 \in Levels /\ (l = 1 \/ l = 2)
      BY <1>1, <2>2
    <3>2. Held(0, t) => t \in snaps \cup dropped \/ \E g \in Stored' : g.sound /\ t \in g.parts
      BY Zenon, <1>6, <2>2, <3>1 DEF Held, KeepsInv, StoreInv
    <3>3. CASE l = 1
      BY <2>2, <3>2, <3>3
    <3>4. CASE l = 2
      <4>1. Held(1, t)
        BY <2>2, <3>4
      <4>2. Held(0, t) \/ t \in snaps \cup dropped \/ \E g \in files[1] : g.sound /\ t \in g.parts
        BY Zenon, <4>1 DEF Held, KeepsInv, StoreInv
      <4> QED
        BY <1>6, <3>1, <3>2, <3>4, <4>2
    <3> QED
      BY Zenon, <3>1, <3>3, <3>4
  <2> QED
    BY Zenon, <1>7, <2>1, <2>2
<1>8. NothingLost'
  <2> SUFFICES ASSUME NEW t \in 1 .. head
               PROVE  t \in snaps \cup dropped \/ \E g \in Stored' : g.sound /\ t \in g.parts
    BY Zenon DEF NothingLost
  <2>1. t \in snaps \cup dropped \/ \E k \in Levels : \E g \in files[k] : g.sound /\ t \in g.parts
    BY Zenon DEF KeepsInv, NothingLost, Stored
  <2> QED
    BY Zenon, <1>6, <1>7, <2>1
<1> QED
  BY Zenon, <1>2, <1>5, <1>8

-----------------------------------------------------------------------------
\* Publishing, and the start of a process.

\* A backup begins with its first snapshot.
LEMMA KeepsInit == FleetInit => KeepsInv
<1> SUFFICES ASSUME FleetInit PROVE KeepsInv
  BY Zenon
<1>1. /\ head = 1 /\ snaps = {1} /\ batch \in L1Batches /\ pc = "idle" /\ job = NoJob
      /\ files = [l \in Levels |-> {}] /\ prune = None
  BY Zenon DEF FleetInit, Init, Configured
<1>2. IsLevel({})
  BY Zenon, NoneIsFinite DEF IsLevel
<1>3. StoreInv
  BY <1>1, <1>2 DEF StoreInv, Levels
<1>4. JobInv
  BY Zenon, <1>1, JobTypes DEF JobInv
<1>5. PruneInv /\ NothingLost
  BY <1>1 DEF PruneInv, NothingLost
<1> QED
  BY Zenon, <1>3, <1>4, <1>5 DEF KeepsInv

\* A sync publishes a file behind all others.
LEMMA PublishL0Keeps ==
  ASSUME KeepsInv, PublishL0, UNCHANGED fleet
  PROVE  KeepsInv'
<1>1. PICK n \in Spans :
        /\ head' = head + n
        /\ files' = [files EXCEPT ![0] = @ \cup {File(head + 1, head + n, head + 1 .. head + n, TRUE)}]
  BY Zenon DEF PublishL0
<1> DEFINE f == File(head + 1, head + n, head + 1 .. head + n, TRUE)
<1>2. n \in Nat /\ n >= 1 /\ head \in Nat /\ head' \in Nat \ {0} /\ head' > head
  BY <1>1, BoundsAssumption DEF KeepsInv, StoreInv
<1>3. /\ f \in Files /\ f.min = head + 1 /\ f.max = head + n
      /\ f.parts = head + 1 .. head + n /\ f.sound
  <2>1. head + 1 .. head + n \in SUBSET Nat
    BY <1>2
  <2> QED
    BY <1>2, <2>1 DEF File, Files
<1> HIDE DEF f
<1>4. files' = [files EXCEPT ![0] = @ \cup {f}]
  BY Zenon, <1>1 DEF f
<1>5. 0 \in Levels /\ 1 \in Levels /\ DOMAIN files = Levels
  BY DEF Levels, KeepsInv, StoreInv
<1>6. /\ DOMAIN files' = Levels
      /\ \A k \in Levels : files'[k] = IF k = 0 THEN files[k] \cup {f} ELSE files[k]
  BY Zenon, <1>4, <1>5
<1>7. \A k \in Levels : IsLevel(files'[k]) /\ \A g \in files'[k] : g.max <= head'
  <2> TAKE k \in Levels
  <2>1. IsLevel(files[k]) /\ \A g \in files[k] : g.max <= head
    BY Zenon DEF KeepsInv, StoreInv
  <2>2. \A g \in files[k] : g.min \in Nat /\ g.max \in Nat
    BY Zenon, <2>1 DEF IsLevel, IsRange, Files
  <2>3. IsLevel(files[k] \cup {f})
    <3>1. IsRange(f)
      BY <1>2, <1>3 DEF IsRange
    <3>2. \A g \in files[k] : ~Overlaps(g, f)
      BY <1>2, <1>3, <2>1, <2>2 DEF Overlaps
    <3> QED
      BY Zenon, <2>1, <3>1, <3>2, LevelAndFile
  <2>4. \A g \in files[k] \cup {f} : g.max <= head'
    BY <1>1, <1>2, <1>3, <2>1, <2>2
  <2> QED
    BY Zenon, <1>6, <2>1, <2>3, <2>4
<1>8. snaps' = snaps /\ dropped' = dropped /\ batch' = batch /\ prune' = prune
  BY Zenon DEF PublishL0, fleet
<1>9. StoreInv'
  <2>1. \A t : Held(0, t) => Held(0, t)'
    BY Zenon, <1>5, <1>6, <1>8 DEF Held
  <2>2. snaps' \subseteq 1 .. head'
    BY <1>2, <1>8 DEF KeepsInv, StoreInv
  <2>3. files'[1] = files[1] /\ files'[0] = files[0] \cup {f}
    BY <1>5, <1>6
  <2>4. \A g \in files'[1] : g.sound \/ \A t \in g.parts : Held(0, t)'
    BY Zenon, <2>1, <2>3 DEF KeepsInv, StoreInv
  <2> QED
    BY Zenon, <1>2, <1>3, <1>6, <1>7, <1>8, <2>2, <2>3, <2>4 DEF KeepsInv, StoreInv
<1>10. JobInv'
  BY Zenon, JobTypes DEF PublishL0, JobInv
<1>11. PruneInv'
  BY Zenon, <1>8, PruneGoesOn DEF KeepsInv
<1>12. NothingLost'
  <2>1. Stored \subseteq Stored' /\ f \in Stored'
    BY Zenon, <1>5, <1>6 DEF Stored
  <2> SUFFICES ASSUME NEW t \in 1 .. head'
               PROVE  t \in snaps \cup dropped \/ \E g \in Stored' : g.sound /\ t \in g.parts
    BY Zenon, <1>8 DEF NothingLost
  <2>2. t \in 1 .. head \/ t \in f.parts
    BY <1>1, <1>2, <1>3
  <2> QED
    BY <1>3, <2>1, <2>2, Zenon DEF KeepsInv, NothingLost
<1> QED
  BY Zenon, <1>9, <1>10, <1>11, <1>12 DEF KeepsInv

\* A snapshot with the next number, be it the one after the newest published or the
\* one after the newest found.
LEMMA SnapshotKeeps ==
  ASSUME KeepsInv, NEW h \in Nat,
         h <= head, \A l \in Levels : \A f \in files[l] : f.max <= h, \A s \in snaps : s <= h,
         head' = h + 1, snaps' = snaps \cup {h + 1}, batch' \in L1Batches,
         UNCHANGED <<files, dropped, prune>>, job' \in Jobs, pc' \notin Merging
  PROVE  KeepsInv'
<1>1. head \in Nat /\ snaps \subseteq 1 .. head
  BY Zenon DEF KeepsInv, StoreInv
<1>2. \A l \in Levels : \A f \in files[l] : f.max \in Nat /\ f.max <= head'
  <2> TAKE l \in Levels
  <2> TAKE f \in files[l]
  <2>1. f.max \in Nat
    BY Zenon DEF KeepsInv, StoreInv, IsLevel, IsRange, Files
  <2> QED
    BY <2>1
<1>3. snaps' \subseteq 1 .. head'
  BY <1>1
<1>4. \A t : Held(0, t) => Held(0, t)'
  BY Zenon DEF Held
<1>5. StoreInv'
  BY <1>2, <1>3, <1>4 DEF KeepsInv, StoreInv
<1>6. JobInv'
  BY Zenon DEF JobInv, Merging
<1>7. PruneInv'
  BY Zenon, PruneGoesOn DEF KeepsInv
<1>8. NothingLost'
  <2> SUFFICES ASSUME NEW t \in 1 .. head'
               PROVE  t \in snaps' \cup dropped \/ \E g \in Stored : g.sound /\ t \in g.parts
    BY Zenon DEF NothingLost, Stored
  <2>1. t \in 1 .. head \/ t = h + 1
    BY <1>1
  <2> QED
    BY Zenon, <2>1 DEF KeepsInv, NothingLost
<1> QED
  BY Zenon, <1>5, <1>6, <1>7, <1>8 DEF KeepsInv

\* A rollover publishes a snapshot (PublishRollover).
LEMMA PublishRolloverKeeps ==
  ASSUME KeepsInv, PublishRollover, UNCHANGED fleet
  PROVE  KeepsInv'
<1>1. /\ head \in Nat /\ batch \in L1Batches /\ \A s \in snaps : s <= head
      /\ \A l \in Levels : \A f \in files[l] : f.max <= head
  BY DEF KeepsInv, StoreInv
<1>2. /\ head' = head + 1 /\ snaps' = snaps \cup {head + 1} /\ batch' = batch
      /\ UNCHANGED <<files, dropped, prune>> /\ job' \in Jobs /\ pc' \notin Merging
  BY Zenon, JobTypes DEF PublishRollover, fleet, Merging
<1> QED
  BY <1>1, <1>2, SnapshotKeeps

-----------------------------------------------------------------------------
\* The steps of a merge that has been selected: run_level_compaction of
\* compaction/engine.rs.

\* The file in place goes: what it has is stored below.
LEMMA DropUnsoundKeeps ==
  ASSUME KeepsInv, DropUnsound, UNCHANGED fleet
  PROVE  KeepsInv'
<1> DEFINE l == job.level + 1
<1>1. /\ pc = "drop" /\ job \in Jobs /\ job.level \in {0, 1} /\ l \in Levels /\ l # 0
      /\ l - 1 = job.level /\ job.level \in Levels /\ job.level # l
  BY DEF DropUnsound, KeepsInv, JobInv, Jobs, Levels
<1>2. /\ files' = [files EXCEPT ![l] = @ \ {job.old}] /\ pc' = "write"
      /\ job' = [job EXCEPT !.old = NoFile]
      /\ UNCHANGED <<head, snaps, batch, dropped, prune>>
  BY Zenon DEF DropUnsound, fleet
<1>3. job.old \in files[l] => \A t \in job.old.parts : Held(l - 1, t)
  <2>1. job.old.min = job.out.min /\ job.old.max = job.out.max /\ IsRange(job.out)
    BY Zenon, <1>1 DEF KeepsInv, JobInv
  <2>2. job.old \in files[l] => IsRange(job.old)
    BY Zenon, <1>1 DEF KeepsInv, StoreInv, IsLevel
  <2>3. job.old \in files[l] => job.old.parts = job.out.parts
    BY Zenon, <2>1, <2>2 DEF IsRange
  <2> QED
    BY Zenon, <1>1, <2>3 DEF KeepsInv, JobInv
<1> HIDE DEF l
<1>4. StoreInv' /\ NothingLost' /\ \A k \in Levels : k # l => files'[k] = files[k]
  BY <1>1, <1>2, <1>3, FileGoes, Zenon
<1>5. /\ job' \in Jobs /\ job'.level = job.level /\ job'.out = job.out /\ job'.del = job.del
  <2>1. NoFile \in Files
    BY Zenon DEF NoFile, File, Files
  <2> QED
    BY Zenon, <1>1, <1>2, <2>1 DEF Jobs
<1>6. Targets = files[l] /\ Targets' = files[l] \ {job.old}
  <2>1. DOMAIN files = Levels
    BY Zenon DEF KeepsInv, StoreInv
  <2> QED
    BY Zenon, <1>1, <1>2, <1>5, <2>1 DEF Targets, l
<1>7. \A t \in job.out.parts : Held(job.level, t)'
  BY Zenon, <1>1, <1>2, <1>4, <1>5 DEF KeepsInv, JobInv, Held
<1>8. JobInv'
  <2>1. /\ Len(job.del) >= 1 /\ IsRange(job.out) /\ job.out.max <= head
        /\ \A i \in 1 .. Len(job.del) : job.del[i].parts \subseteq job.out.parts
        /\ \A g \in Targets : Overlaps(g, job.out) => g = job.old
    BY Zenon, <1>1 DEF KeepsInv, JobInv
  <2> QED
    BY Zenon, <1>2, <1>5, <1>6, <1>7, <2>1 DEF JobInv
<1>9. PruneInv'
  BY Zenon, <1>2, PruneGoesOn DEF KeepsInv
<1> QED
  BY Zenon, <1>4, <1>8, <1>9 DEF KeepsInv

\* The merged file is written, sound or torn.
LEMMA WrittenKeeps ==
  ASSUME KeepsInv, pc = "write", NEW f, f = job.out \/ f = [job.out EXCEPT !.sound = FALSE],
         files' = [files EXCEPT ![job.level + 1] = @ \cup {f}],
         UNCHANGED <<head, snaps, batch, dropped, prune>>
  PROVE  /\ StoreInv' /\ NothingLost' /\ PruneInv'
         /\ IsRange(f) /\ f.max = job.out.max /\ f.parts = job.out.parts
         /\ f \in files'[job.level + 1]
<1> DEFINE l == job.level + 1
<1>1. /\ job \in Jobs /\ job.level \in {0, 1} /\ l \in {1, 2} /\ l - 1 = job.level
  BY DEF KeepsInv, JobInv, Jobs
<1>2. /\ IsRange(job.out) /\ job.out.max <= head
      /\ \A g \in files[l] : ~Overlaps(g, job.out)
      /\ \A t \in job.out.parts : Held(job.level, t)
  BY Zenon DEF KeepsInv, JobInv, Targets
<1>3. /\ f \in Files /\ f.min = job.out.min /\ f.max = job.out.max /\ f.parts = job.out.parts
  BY <1>2, Zenon DEF IsRange, Files
<1>4. IsRange(f)
  BY Zenon, <1>2, <1>3 DEF IsRange
<1>5. \A g \in files[l] : ~Overlaps(g, f)
  BY Zenon, <1>2, <1>3 DEF Overlaps
<1>6. l = 1 => f.sound \/ \A t \in f.parts : Held(0, t)
  BY <1>1, <1>2, <1>3
<1>7. StoreInv' /\ NothingLost' /\ f \in files'[l]
  <2>1. f.max <= head /\ files' = [files EXCEPT ![l] = @ \cup {f}]
    BY Zenon, <1>2, <1>3
  <2> HIDE DEF l
  <2> QED
    BY <1>1, <1>4, <1>5, <1>6, <2>1, FileComes, Zenon
<1>8. PruneInv'
  BY Zenon, PruneGoesOn DEF KeepsInv
<1> QED
  BY Zenon, <1>3, <1>4, <1>7, <1>8

\* The merged file is written, and is then to be read back.
LEMMA WriteMergedKeeps ==
  ASSUME KeepsInv, WriteMerged, UNCHANGED fleet
  PROVE  KeepsInv'
<1>1. /\ pc = "write" /\ pc' = "readback"
      /\ UNCHANGED <<head, snaps, batch, dropped, prune>>
  BY Zenon DEF WriteMerged, fleet
<1>2. job \in Jobs /\ IsRange(job.out)
  BY Zenon, <1>1 DEF KeepsInv, JobInv
<1>3. PICK f : /\ f = job.out \/ f = [job.out EXCEPT !.sound = FALSE]
               /\ files' = [files EXCEPT ![job.level + 1] = @ \cup {f}]
               /\ job' = [job EXCEPT !.out = f]
  <2>1. job = [job EXCEPT !.out = job.out]
    BY Zenon, <1>2 DEF Jobs
  <2> QED
    BY <2>1, Zenon DEF WriteMerged
<1>4. /\ StoreInv' /\ NothingLost' /\ PruneInv'
      /\ IsRange(f) /\ f.max = job.out.max /\ f.parts = job.out.parts
      /\ f \in files'[job.level + 1]
  BY <1>1, <1>3, WrittenKeeps, Zenon
<1>5. job' \in Jobs /\ job'.level = job.level /\ job'.del = job.del /\ job'.out = f
  BY Zenon, <1>2, <1>3, <1>4 DEF Jobs, IsRange
<1>6. f.sound => \A t \in f.parts : Covered(job.level + 1, t)'
  BY Zenon, <1>4, <1>5 DEF Covered
<1>7. /\ Len(job.del) >= 1 /\ job.out.max <= head
      /\ \A i \in 1 .. Len(job.del) : job.del[i].parts \subseteq job.out.parts
  BY Zenon, <1>1 DEF KeepsInv, JobInv
<1>8. JobInv'
  BY Zenon, <1>1, <1>4, <1>5, <1>6, <1>7 DEF JobInv
<1> QED
  BY Zenon, <1>4, <1>8 DEF KeepsInv

\* A file that goes leaves the compaction idle, and retention as it was.
LEMMA GoneKeeps ==
  ASSUME KeepsInv, StoreInv', NothingLost', UNCHANGED <<snaps, prune>>,
         job' \in Jobs, pc' \notin Merging
  PROVE  KeepsInv'
<1>1. JobInv'
  BY Zenon DEF JobInv, Merging
<1>2. PruneInv'
  BY Zenon, PruneGoesOn DEF KeepsInv
<1> QED
  BY Zenon, <1>1, <1>2 DEF KeepsInv

\* A merged file that reads back stands for its sources; a torn one goes.
LEMMA ReadBackKeeps ==
  ASSUME KeepsInv, ReadBack, UNCHANGED fleet
  PROVE  KeepsInv'
<1>1. /\ pc = "readback" /\ job \in Jobs /\ job.level \in {0, 1}
      /\ job.level + 1 \in Levels /\ job.level + 1 # 0
      /\ UNCHANGED <<head, snaps, batch, dropped, prune>>
  BY DEF ReadBack, KeepsInv, JobInv, Jobs, fleet, Levels
<1>2. CASE job.out.sound
  <2>1. /\ pc' = "delete" /\ files' = files
        /\ job' = Job(job.level, NoFile, NoFile, job.del, Len(job.del), FALSE)
    BY Zenon, <1>2 DEF ReadBack, StartDelete
  <2>2. job' \in Jobs /\ job'.level = job.level /\ job'.del = job.del
    <3>1. NoFile \in Files
      BY Zenon DEF NoFile, File, Files
    <3>2. job.del \in Seq(Files) /\ Len(job.del) \in Nat
      BY <1>1 DEF Jobs
    <3> QED
      BY Zenon, <1>1, <2>1, <3>1, <3>2 DEF Job, Jobs
  <2>3. /\ Len(job.del) >= 1
        /\ \A i \in 1 .. Len(job.del) : job.del[i].parts \subseteq job.out.parts
        /\ \A t \in job.out.parts : Covered(job.level + 1, t)
    BY Zenon, <1>1, <1>2 DEF KeepsInv, JobInv
  <2>4. \A t : Covered(job.level + 1, t) => Covered(job.level + 1, t)'
    BY <1>1, <2>1, <2>2, Zenon DEF Covered
  <2>5. JobInv'
    BY <2>1, <2>2, <2>3, <2>4, Zenon DEF JobInv
  <2>6. PruneInv'
    BY Zenon, <1>1, PruneGoesOn DEF KeepsInv
  <2> QED
    BY <1>1, <2>1, <2>5, <2>6 DEF KeepsInv, StoreInv, Held, NothingLost, Stored
<1>3. CASE ~job.out.sound
  <2>1. /\ files' = [files EXCEPT ![job.level + 1] = @ \ {job.out}]
        /\ pc' = "idle" /\ job' = NoJob
    BY Zenon, <1>3 DEF ReadBack
  <2>2. StoreInv' /\ NothingLost'
    BY <1>1, <1>3, <2>1, FileGoes, Zenon
  <2> QED
    BY Zenon, <1>1, <2>1, <2>2, JobTypes, GoneKeeps DEF Merging
<1> QED
  BY Zenon, <1>2, <1>3

\* A source goes, whose transactions are in sound files above.
LEMMA SourceGoes ==
  ASSUME KeepsInv, pc = "delete", files' = [files EXCEPT ![job.level] = @ \ {Head(job.del)}],
         UNCHANGED <<head, snaps, batch, dropped>>
  PROVE  StoreInv' /\ NothingLost' /\ files'[job.level + 1] = files[job.level + 1]
<1> DEFINE l == job.level
           f == Head(job.del)
<1>1. job \in Jobs /\ l \in Levels /\ l # 2 /\ l + 1 \in Levels /\ l + 1 # l
  BY DEF KeepsInv, JobInv, Jobs, Levels
<1>2. \A t \in f.parts : Covered(l + 1, t)
  <2>1. job.del \in Seq(Files) /\ Len(job.del) >= 1
    BY Zenon, <1>1 DEF KeepsInv, JobInv, Jobs
  <2>2. f = job.del[1] /\ 1 \in 1 .. Len(job.del)
    BY <2>1
  <2> QED
    BY Zenon, <2>2 DEF KeepsInv, JobInv
<1>3. files' = [files EXCEPT ![l] = @ \ {f}]
  BY Zenon
<1> HIDE DEF l, f
<1>4. StoreInv' /\ NothingLost' /\ \A k \in Levels : k # l => files'[k] = files[k]
  BY <1>1, <1>2, <1>3, FileGoes, Zenon
<1> QED
  BY Zenon, <1>1, <1>4 DEF l

\* The sources go one by one.
LEMMA DeleteSourceKeeps ==
  ASSUME KeepsInv, DeleteSource, UNCHANGED fleet
  PROVE  KeepsInv'
<1>1. /\ pc = "delete" /\ files' = [files EXCEPT ![job.level] = @ \ {Head(job.del)}]
      /\ UNCHANGED <<head, snaps, batch, dropped, prune>>
  BY Zenon DEF DeleteSource, fleet
<1>2. StoreInv' /\ NothingLost' /\ files'[job.level + 1] = files[job.level + 1]
  BY Zenon, <1>1, SourceGoes
<1>3. CASE Len(job.del) > 1
  <2>1. job' = [job EXCEPT !.del = Tail(@)] /\ pc' = "delete"
    BY Zenon, <1>1, <1>3 DEF DeleteSource
  <2>2. job \in Jobs /\ job.del \in Seq(Files) /\ Len(job.del) \in Nat
    BY DEF KeepsInv, JobInv, Jobs
  <2>3. /\ Tail(job.del) \in Seq(Files) /\ Len(Tail(job.del)) = Len(job.del) - 1
        /\ \A i \in 1 .. Len(job.del) - 1 : Tail(job.del)[i] = job.del[i + 1]
    BY <1>3, <2>2
  <2>4. job' \in Jobs /\ job'.level = job.level /\ job'.del = Tail(job.del)
    BY Zenon, <2>1, <2>2, <2>3 DEF Jobs
  <2>5. \A i \in 1 .. Len(job.del) : \A t \in job.del[i].parts : Covered(job.level + 1, t)
    BY Zenon, <1>1 DEF KeepsInv, JobInv
  <2>6. \A t : Covered(job.level + 1, t) => Covered(job.level + 1, t)'
    BY Zenon, <1>1, <1>2, <2>4 DEF Covered
  <2>7. \A i \in 1 .. Len(Tail(job.del)) : \A t \in Tail(job.del)[i].parts : Covered(job.level + 1, t)'
    <3> TAKE i \in 1 .. Len(Tail(job.del))
    <3>1. i + 1 \in 1 .. Len(job.del) /\ Tail(job.del)[i] = job.del[i + 1]
      BY <2>2, <2>3
    <3> QED
      BY Zenon, <2>5, <2>6, <3>1
  <2>8. Len(job'.del) >= 1
    BY <1>3, <2>2, <2>3, <2>4
  <2>9. JobInv'
    BY Zenon, <2>1, <2>4, <2>7, <2>8 DEF JobInv
  <2>10. PruneInv'
    BY Zenon, <1>1, PruneGoesOn DEF KeepsInv
  <2> QED
    BY Zenon, <1>2, <2>9, <2>10 DEF KeepsInv
<1>4. CASE ~(Len(job.del) > 1)
  <2>1. job' \in Jobs /\ pc' \in {"list", "idle"}
    BY Zenon, <1>4, JobTypes DEF DeleteSource, Proceed
  <2> QED
    BY Zenon, <1>1, <1>2, <2>1, GoneKeeps DEF Merging
<1> QED
  BY Zenon, <1>3, <1>4

\* A request that fails, or whose answer is lost, ends the compaction.
LEMMA RequestFailsKeeps ==
  ASSUME KeepsInv, RequestFails, UNCHANGED fleet
  PROVE  KeepsInv'
<1>1. /\ pc' = "idle" /\ job' = NoJob /\ pc' \notin Merging /\ job' \in Jobs
      /\ UNCHANGED <<head, snaps, batch, dropped, prune>>
  BY Zenon, JobTypes DEF RequestFails, fleet, Merging
<1>2. CASE UNCHANGED files
  BY Zenon, <1>1, <1>2, NothingStored
<1>3. CASE pc = "write" /\ files' = [files EXCEPT ![job.level + 1] = @ \cup {job.out}]
  BY <1>1, <1>3, WrittenKeeps, GoneKeeps, Zenon
<1>4. CASE pc = "delete" /\ files' = [files EXCEPT ![job.level] = @ \ {Head(job.del)}]
  BY Zenon, <1>1, <1>4, SourceGoes, GoneKeeps
<1> QED
  BY Zenon, <1>2, <1>3, <1>4 DEF RequestFails

-----------------------------------------------------------------------------
\* The steps of retention.

\* What is stored and the compaction stay as they are.
LEMMA PlanKeeps ==
  ASSUME KeepsInv, UNCHANGED <<head, snaps, files, batch, dropped, pc, job>>, PruneInv'
  PROVE  KeepsInv'
<1>1. StoreInv'
  BY Zenon DEF KeepsInv, StoreInv, Held
<1>2. JobInv'
  BY Zenon DEF KeepsInv, JobInv, Held, Covered, Targets
<1> QED
  BY Zenon, <1>1, <1>2 DEF KeepsInv, NothingLost, Stored

\* plan_level_prune adds merged files to what is to be deleted.
LEMMA PruneLevelsKeeps ==
  ASSUME KeepsInv, PruneLevels
  PROVE  KeepsInv'
<1> DEFINE more == UNION {{l} \X LevelPrune(l, Min(prune.keep)) : l \in {1, 2}}
<1>1. /\ UNCHANGED <<head, snaps, files, batch, dropped, pc, job>>
      /\ prune # None /\ prune.pc = "levels"
      /\ prune' = [prune EXCEPT !.pc = "delete", !.del = @ \cup more]
  BY Zenon DEF PruneLevels, vars
<1>2. \A d \in more : d[1] # 0
  OBVIOUS
<1> HIDE DEF more
<1>3. /\ DOMAIN prune = {"pc", "snaps", "keep", "del"}
      /\ \E s \in snaps : \A d \in prune.del : d[1] = 0 => s \notin d[2].parts
  BY Zenon, <1>1 DEF KeepsInv, PruneInv
<1>4. /\ DOMAIN prune' = {"pc", "snaps", "keep", "del"}
      /\ prune'.pc = "delete" /\ prune'.del = prune.del \cup more
  BY Zenon, <1>1, <1>3
<1>5. PruneInv'
  BY Zenon, <1>1, <1>2, <1>3, <1>4 DEF PruneInv
<1> QED
  BY Zenon, <1>1, <1>5, PlanKeeps

\* delete_objects: what goes counts as dropped.
LEMMA PruneDeleteKeeps ==
  ASSUME KeepsInv, PruneDelete
  PROVE  KeepsInv'
<1>1. PICK d \in prune.del :
        /\ prune' = [prune EXCEPT !.del = @ \ {d}]
        /\ dropped' = dropped \cup d[2].parts
        /\ snaps' = IF d[1] = 0 THEN snaps \ d[2].parts ELSE snaps
        /\ files' = IF d[1] = 0 THEN files ELSE [files EXCEPT ![d[1]] = @ \ {d[2]}]
  BY Zenon DEF PruneDelete
<1>2. UNCHANGED <<head, batch, pc, job>> /\ prune # None /\ prune.pc = "delete"
  BY Zenon DEF PruneDelete
<1>3. /\ DOMAIN prune = {"pc", "snaps", "keep", "del"}
      /\ \E s \in snaps : \A e \in prune.del : e[1] = 0 => s \notin e[2].parts
  BY Zenon, <1>2 DEF KeepsInv, PruneInv
<1>4. /\ DOMAIN prune' = {"pc", "snaps", "keep", "del"}
      /\ prune'.pc = "delete" /\ prune'.del = prune.del \ {d}
  BY Zenon, <1>1, <1>2, <1>3
<1>5. snaps' # {} /\ snaps' \subseteq snaps /\ PruneInv'
  <2>1. PICK s \in snaps : \A e \in prune.del : e[1] = 0 => s \notin e[2].parts
    BY Zenon, <1>3
  <2>2. s \in snaps'
    BY Zenon, <1>1, <2>1
  <2>3. snaps' \subseteq snaps
    BY Zenon, <1>1
  <2> QED
    BY Zenon, <1>4, <2>1, <2>2, <2>3 DEF PruneInv
<1>6. /\ DOMAIN files' = Levels
      /\ \A k \in Levels : /\ files'[k] \in SUBSET files[k]
                           /\ \A f \in files[k] : f \in files'[k] \/ f = d[2]
      /\ files'[0] = files[0]
  <2>1. DOMAIN files = Levels /\ 0 \in Levels
    BY DEF KeepsInv, StoreInv, Levels
  <2>2. CASE d[1] = 0
    BY Zenon, <1>1, <2>1, <2>2
  <2>3. CASE d[1] # 0
    BY Zenon, <1>1, <2>1, <2>3
  <2> QED
    BY <2>2, <2>3, Zenon
<1>7. \A t : t \in snaps \cup dropped => t \in snaps' \cup dropped'
  BY Zenon, <1>1
<1>8. \A k \in Levels : \A t : (Held(k, t) => Held(k, t)') /\ (Covered(k, t) => Covered(k, t)')
  BY Zenon, <1>1, <1>6, <1>7 DEF Held, Covered
<1>9. StoreInv'
  <2>1. \A k \in Levels : IsLevel(files'[k]) /\ \A f \in files'[k] : f.max <= head
    <3> TAKE k \in Levels
    <3>1. IsLevel(files[k]) /\ (\A f \in files[k] : f.max <= head) /\ files'[k] \in SUBSET files[k]
      BY Zenon, <1>6 DEF KeepsInv, StoreInv
    <3> QED
      BY Zenon, <3>1, PartOfLevel
  <2>2. \A f \in files'[1] : f.sound \/ \A t \in f.parts : Held(0, t)'
    <3> TAKE f \in files'[1]
    <3>1. 0 \in Levels /\ 1 \in Levels
      BY DEF Levels
    <3>2. f \in files[1]
      BY Zenon, <1>6, <3>1
    <3>3. f.sound \/ \A t \in f.parts : Held(0, t)
      BY Zenon, <3>2 DEF KeepsInv, StoreInv
    <3> QED
      BY Zenon, <1>8, <3>1, <3>3
  <2> QED
    BY Zenon, <1>2, <1>5, <1>6, <2>1, <2>2 DEF KeepsInv, StoreInv
<1>10. JobInv'
  <2>1. job \in Jobs /\ job.level \in Levels /\ job.level + 1 \in Levels
    BY DEF KeepsInv, JobInv, Jobs, Levels
  <2>2. /\ \A t : Held(job.level, t) => Held(job.level, t)'
        /\ \A t : Covered(job.level + 1, t) => Covered(job.level + 1, t)'
    BY Zenon, <1>2, <1>8, <2>1 DEF Held, Covered
  <2>3. Targets' \subseteq Targets
    BY Zenon, <1>2, <1>6, <2>1 DEF Targets
  <2>4. JobInv
    BY Zenon DEF KeepsInv
  <2> QED
    BY Zenon, <1>2, <2>2, <2>3, <2>4 DEF JobInv
<1>11. NothingLost'
  <2> SUFFICES ASSUME NEW t \in 1 .. head
               PROVE  t \in snaps' \cup dropped' \/ \E f \in Stored' : f.sound /\ t \in f.parts
    BY Zenon, <1>2 DEF NothingLost
  <2>1. t \in snaps \cup dropped \/ \E k \in Levels : \E f \in files[k] : f.sound /\ t \in f.parts
    BY Zenon DEF KeepsInv, NothingLost, Stored
  <2>2. ASSUME NEW k \in Levels, NEW f \in files[k], f.sound, t \in f.parts
        PROVE  t \in dropped' \/ \E g \in Stored' : g.sound /\ t \in g.parts
    BY <1>1, <1>6, <2>2 DEF Stored
  <2> QED
    BY Zenon, <1>7, <2>1, <2>2
<1> QED
  BY Zenon, <1>5, <1>9, <1>10, <1>11 DEF KeepsInv

-----------------------------------------------------------------------------
\* A restore, a verification and a replica change nothing of it.
LEMMA ReadersKeep ==
  ASSUME KeepsInv, Restore \/ Verify \/ Poll \/ ReplicaStop
  PROVE  KeepsInv'
<1>1. UNCHANGED <<head, snaps, files, batch, dropped, prune, pc, job>>
  BY Zenon DEF Restore, RestoreBegin, Gather, RestorePlan, RestoreBase, RestoreApply, RestorePublish,
         Verify, VerifyState, VerifyListing, VerifyFiles, VerifyListLevel, VerifyHeaders,
         VerifyListFails, VerifyLevels, ValidateLevels, VerifyDone,
         Poll, PollState, PollListing, PollBootstrap, PollApply, PollEnds, PollSave,
         ReplicaStop, vars
<1> QED
  BY Zenon, <1>1, NothingChanged
-----------------------------------------------------------------------------
(* Least and greatest numbers, and what discover_max_txid finds.            *)

INSTANCE WellFoundedInduction

-----------------------------------------------------------------------------
\* A set of naturals has a least element, and that is Min.
LEMMA MinIsLeast ==
  ASSUME NEW S \in SUBSET Nat, S # {}
  PROVE  Min(S) \in S /\ \A y \in S : Min(S) <= y
<1>1. \E x \in S : \A y \in S : ~(<<y, x>> \in OpToRel(<, Nat))
  BY Zenon, NatLessThanWellFounded, WFMin
<1>2. PICK x \in S : \A y \in S : ~(<<y, x>> \in OpToRel(<, Nat))
  BY Zenon, <1>1
<1>3. \A y \in S : x <= y
  <2> SUFFICES ASSUME NEW y \in S, y < x PROVE FALSE
    OBVIOUS
  <2>1. <<y, x>>[1] < <<y, x>>[2] /\ <<y, x>> \in Nat \X Nat
    BY Zenon
  <2>2. <<y, x>> \in OpToRel(<, Nat)
    BY <2>1, Zenon DEF OpToRel
  <2> QED
    BY <1>2, <2>2, Zenon
<1> QED
  BY Zenon, <1>3 DEF Min

\* A bounded set of naturals has a greatest element, and that is Max.
LEMMA MaxIsGreatest ==
  ASSUME NEW S \in SUBSET Nat, S # {}, NEW n \in Nat, \A s \in S : s <= n
  PROVE  Max(S) \in S /\ \A y \in S : y <= Max(S)
<1> DEFINE T == {k \in 0 .. n : n - k \in S}
<1>1. T \in SUBSET Nat /\ T # {}
  <2>1. PICK s \in S : TRUE
    BY Zenon
  <2>2. n - s \in T
    BY <2>1
  <2> QED
    BY <2>2
<1>2. Min(T) \in T /\ \A y \in T : Min(T) <= y
  BY Zenon, <1>1, MinIsLeast
<1>3. \A y \in S : n - y \in T
  OBVIOUS
<1>4. n - Min(T) \in S /\ \A y \in S : y <= n - Min(T)
  <2> HIDE DEF T
  <2>1. Min(T) \in Nat /\ n - Min(T) \in S
    BY <1>2 DEF T
  <2> QED
    BY <1>2, <1>3, <2>1
<1> HIDE DEF T
<1> QED
  BY Zenon, <1>4 DEF Max

\* discover_legacy_state finds the newest transaction that is stored.
LEMMA DiscoversNewest ==
  ASSUME KeepsInv
  PROVE  /\ DiscoveredHead \in Nat /\ DiscoveredHead <= head
         /\ \A s \in snaps : s <= DiscoveredHead
         /\ \A l \in Levels : \A f \in files[l] : f.max <= DiscoveredHead
<1> DEFINE D == snaps \cup {f.max : f \in UNION {files[l] : l \in Levels}}
<1>1. \A l \in Levels : \A f \in files[l] : f.max \in Nat /\ f.max <= head
  BY Zenon DEF KeepsInv, StoreInv, IsLevel, IsRange, Files
<1>2. head \in Nat /\ snaps \subseteq 1 .. head /\ snaps # {}
  BY Zenon DEF KeepsInv, StoreInv
<1>3. D \in SUBSET Nat /\ D # {} /\ \A d \in D : d <= head
  <2>1. \A d \in D : d \in snaps \/ \E l \in Levels : \E f \in files[l] : d = f.max
    BY Zenon
  <2>2. D # {}
    BY Zenon, <1>2
  <2> HIDE DEF D
  <2>3. \A d \in D : d \in Nat /\ d <= head
    <3> TAKE d \in D
    <3>1. CASE d \in snaps
      BY <1>2, <3>1
    <3>2. CASE \E l \in Levels : \E f \in files[l] : d = f.max
      BY Zenon, <1>1, <3>2
    <3> QED
      BY Zenon, <2>1, <3>1, <3>2
  <2> QED
    BY Zenon, <2>2, <2>3
<1>4. \A s \in snaps : s \in D
  BY Zenon
<1>5. \A l \in Levels : \A f \in files[l] : f.max \in D
  BY Zenon
<1>6. DiscoveredHead = Max(D)
  BY Zenon DEF DiscoveredHead
<1> HIDE DEF D
<1>7. DiscoveredHead \in D /\ \A d \in D : d <= DiscoveredHead
  BY <1>2, <1>3, <1>6, MaxIsGreatest, Zenon
<1>8. DiscoveredHead \in Nat /\ DiscoveredHead <= head
  BY Zenon, <1>3, <1>7
<1>9. /\ \A s \in snaps : s <= DiscoveredHead
      /\ \A l \in Levels : \A f \in files[l] : f.max <= DiscoveredHead
  BY Zenon, <1>4, <1>5, <1>7
<1> QED
  BY Zenon, <1>8, <1>9


-----------------------------------------------------------------------------
(* The numbers.                                                             *)

\* Types of what is stored.
LEMMA StoredNumbers ==
  ASSUME KeepsInv
  PROVE  /\ head \in Nat /\ 1 <= head
         /\ \A s \in snaps : s \in Nat /\ 1 <= s /\ s <= head
         /\ \A f \in files[0] : IsRange(f) /\ f.min \in Nat /\ f.max \in Nat /\ f.min <= f.max /\ f.max <= head
<1>1. head \in Nat \ {0} /\ snaps \subseteq 1 .. head
  BY Zenon DEF KeepsInv, StoreInv
<1>2. 0 \in Levels
  BY DEF Levels
<1>3. \A f \in files[0] : IsRange(f) /\ f.max <= head
  BY Zenon, <1>2 DEF KeepsInv, StoreInv, IsLevel
<1> QED
  BY <1>1, <1>3 DEF IsRange, Files

\* discover_legacy_state finds the newest transaction ever published: retention has
\* not deleted it.
LEMMA DiscoversHead ==
  ASSUME KeepsInv, NumbersInv
  PROVE  DiscoveredHead = head
<1>1. head \in Nat /\ 1 <= head
  BY Zenon, StoredNumbers
<1>2. head \in 1 .. head
  BY <1>1
<1>3. head \notin dropped
  BY <1>1 DEF NumbersInv
<1>4. head \in snaps \/ \E l \in Levels : \E f \in files[l] : head \in f.parts
  BY Zenon, <1>2, <1>3 DEF KeepsInv, NothingLost, Stored
<1>5. \A l \in Levels : \A f \in files[l] : f.max \in Nat /\ (head \in f.parts => head <= f.max)
  <2> TAKE l \in Levels
  <2> TAKE f \in files[l]
  <2>1. IsRange(f)
    BY Zenon DEF KeepsInv, StoreInv, IsLevel
  <2> QED
    BY <2>1 DEF IsRange, Files
<1>6. /\ DiscoveredHead \in Nat /\ DiscoveredHead <= head
      /\ \A s \in snaps : s <= DiscoveredHead
      /\ \A l \in Levels : \A f \in files[l] : f.max <= DiscoveredHead
  BY Zenon, DiscoversNewest
<1>7. CASE head \in snaps
  BY <1>1, <1>6, <1>7
<1>8. CASE \E l \in Levels : \E f \in files[l] : head \in f.parts
  <2>0. PICK l \in Levels : \E f \in files[l] : head \in f.parts
    BY Zenon, <1>8
  <2>1. PICK f \in files[l] : head \in f.parts
    BY Zenon, <2>0
  <2>2. f.max \in Nat /\ head <= f.max /\ f.max <= DiscoveredHead
    BY Zenon, <1>5, <1>6, <2>1
  <2> QED
    BY <1>1, <1>6, <2>2
<1> QED
  BY Zenon, <1>4, <1>7, <1>8

\* Steps of the writer: a live file or a snapshot comes with the next numbers, and a
\* merge takes live files away.
LEMMA WriterMoves ==
  ASSUME KeepsInv, NumbersInv, Next, UNCHANGED fleet
  PROVE  /\ Moves /\ UNCHANGED <<prune, dropped>>
         /\ \A s \in snaps' : s \in snaps \/ files'[0] \subseteq files[0]
<1>0. DOMAIN files = Levels /\ 0 \in Levels
  BY DEF KeepsInv, StoreInv, Levels
<1>1. head \in Nat /\ UNCHANGED <<prune, dropped>>
  BY Zenon, StoredNumbers DEF fleet
<1>2. CASE PublishL0
  <2>1. PICK n \in Spans :
          /\ head' = head + n
          /\ files' = [files EXCEPT ![0] = @ \cup {File(head + 1, head + n, head + 1 .. head + n, TRUE)}]
    BY Zenon, <1>2 DEF PublishL0
  <2>2. n \in Nat /\ 1 <= n /\ snaps' = snaps
    BY <1>2, BoundsAssumption DEF PublishL0
  <2> DEFINE new == File(head + 1, head + n, head + 1 .. head + n, TRUE)
  <2>3. files'[0] = files[0] \cup {new}
    BY Zenon, <1>0, <2>1
  <2>4. new.min = head + 1 /\ new.max = head + n
    BY Zenon DEF File
  <2> HIDE DEF new
  <2>5. /\ head' \in Nat /\ head <= head'
        /\ new.min \in Nat /\ new.max \in Nat /\ head < new.min /\ new.min <= new.max
    BY <1>1, <2>1, <2>2, <2>4
  <2> QED
    BY Zenon, <1>1, <2>2, <2>3, <2>5 DEF Moves
<1>3. CASE PublishRollover \/ Restart
  <2>1. head' = head + 1 /\ snaps' = snaps \cup {head + 1} /\ files' = files
    BY Zenon, <1>3, DiscoversHead DEF PublishRollover, Restart
  <2> QED
    BY <1>1, <2>1 DEF Moves
<1>4. CASE UNCHANGED <<head, snaps, files>>
  BY <1>1, <1>4 DEF Moves
<1>5. ASSUME UNCHANGED <<head, snaps>>, files'[0] \subseteq files[0]
      PROVE  Moves /\ \A s \in snaps' : s \in snaps
  BY <1>1, <1>5 DEF Moves
<1>6. job.level \in {0, 1} /\ job.level + 1 # 0
  BY DEF KeepsInv, JobInv, Jobs
<1>7. CASE DropUnsound \/ WriteMerged \/ ReadBack \/ DeleteSource \/ RequestFails
  <2>1. UNCHANGED <<head, snaps>>
    BY Zenon, <1>7 DEF DropUnsound, WriteMerged, ReadBack, DeleteSource, RequestFails
  <2>2. CASE files' = files
    BY Zenon, <1>1, <1>5, <2>1, <2>2
  <2>3. CASE \E S : files' = [files EXCEPT ![job.level + 1] = S]
    <3>1. files'[0] = files[0]
      BY Zenon, <1>0, <1>6, <2>3
    <3> QED
      BY Zenon, <1>1, <1>5, <2>1, <3>1
  <2>4. CASE \E f : files' = [files EXCEPT ![job.level] = @ \ {f}]
    <3>1. files'[0] \subseteq files[0]
      BY Zenon, <1>0, <2>4
    <3> QED
      BY Zenon, <1>1, <1>5, <2>1, <3>1
  <2> QED
    BY Zenon, <1>7, <2>2, <2>3, <2>4 DEF DropUnsound, WriteMerged, ReadBack, DeleteSource, RequestFails
<1> QED
  BY Zenon, <1>2, <1>3, <1>4, <1>7
     DEF Next, Compact, SyncIdle, Age, Tick, FinishDeletion, NothingToMerge, SelectRun,
         SourceFails, VerifyFails, Crash

\* ... and the numbers stay apart.
LEMMA WriterNumbers ==
  ASSUME KeepsInv, NumbersInv, Moves, UNCHANGED <<prune, dropped>>,
         \A s \in snaps' : s \in snaps \/ files'[0] \subseteq files[0]
  PROVE  NumbersInv'
<1>1. head \in Nat /\ head' \in Nat /\ 1 <= head /\ head <= head'
  BY Zenon, StoredNumbers DEF Moves
<1>2. \A f \in files[0] : f.min \in Nat /\ f.max \in Nat /\ f.max <= head
  BY Zenon, StoredNumbers
<1>3. \A s \in snaps : s \in Nat /\ s <= head
  BY Zenon, StoredNumbers
<1>4. \A t \in dropped' : t \in Nat /\ t < head'
  BY <1>1 DEF NumbersInv
<1>5. prune' # None =>
        /\ \A s \in prune'.snaps : s \in Nat /\ s <= head'
        /\ prune'.keep \subseteq prune'.snaps /\ (prune'.pc # "plan" => prune'.keep # {})
        /\ \A d \in prune'.del : \A t \in d[2].parts : t \in Nat /\ t < head'
  BY <1>1 DEF NumbersInv
<1>6. \A f \in files'[0] : f.min >= 2 /\ \A s \in snaps' : s < f.min \/ f.max < s
  <2> TAKE f \in files'[0]
  <2>1. CASE f \in files[0]
    <3>1. f.min >= 2 /\ (\A s \in snaps : s < f.min \/ f.max < s) /\ f.max \in Nat /\ f.max <= head
      BY Zenon, <1>2, <2>1 DEF NumbersInv
    <3>2. \A s \in snaps' : s \in snaps \/ (s \in Nat /\ head < s)
      BY Zenon DEF Moves
    <3> QED
      BY <1>1, <3>1, <3>2
  <2>2. CASE f \notin files[0]
    <3>1. snaps' \subseteq snaps
      BY Zenon, <2>2
    <3>2. f.min \in Nat /\ head < f.min
      BY Zenon, <2>2 DEF Moves
    <3> QED
      BY <1>1, <1>3, <3>1, <3>2
  <2> QED
    BY Zenon, <2>1, <2>2
<1> QED
  BY Zenon, <1>4, <1>5, <1>6 DEF NumbersInv

\* The steps of retention: it lists, plans and deletes below the newest snapshot it has
\* listed (plan_legacy_prune, plan_level_prune).
LEMMA RetentionMoves ==
  ASSUME KeepsInv, NumbersInv, Retention
  PROVE  Moves /\ NumbersInv'
<1>1. /\ head \in Nat /\ 1 <= head
      /\ \A s \in snaps : s \in Nat /\ 1 <= s /\ s <= head
  BY Zenon, StoredNumbers
<1>2. ASSUME UNCHANGED <<head, snaps, files, dropped>> PROVE Moves
  BY <1>1, <1>2 DEF Moves
<1>3. CASE PruneList
  <2>1. UNCHANGED <<head, snaps, files, dropped>>
    BY Zenon, <1>3 DEF PruneList
  <2>2. prune' = [pc |-> "plan", snaps |-> snaps, keep |-> {}, del |-> {}]
    BY Zenon, <1>3 DEF PruneList
  <2>3. prune'.pc = "plan" /\ prune'.snaps = snaps /\ prune'.keep = {} /\ prune'.del = {}
    BY Zenon, <2>2
  <2> QED
    BY Zenon, <1>1, <1>2, <2>1, <2>3 DEF NumbersInv
<1>4. ASSUME NEW next \in {"levels", "delete"}, PlanDeletions(next)
      PROVE  Moves /\ NumbersInv'
  <2>1. UNCHANGED <<head, snaps, files, dropped>> /\ prune # None /\ prune.pc = "plan"
    BY Zenon, <1>4 DEF PlanDeletions, vars
  <2>2. DOMAIN prune = {"pc", "snaps", "keep", "del"} /\ prune.snaps # {}
    BY Zenon, <2>1 DEF KeepsInv, PruneInv
  <2>3. PICK doomed \in SUBSET prune.snaps :
          LET keep == Kept(prune.snaps, doomed, files[0])
          IN  prune' = [prune EXCEPT !.pc = next, !.keep = keep,
                                     !.del = {<<0, File(s, s, {s}, TRUE)>> : s \in prune.snaps \ keep}]
    BY Zenon, <1>4 DEF PlanDeletions
  <2> DEFINE keep == Kept(prune.snaps, doomed, files[0])
             del  == {<<0, File(s, s, {s}, TRUE)>> : s \in prune.snaps \ keep}
             top  == Max(prune.snaps)
  <2>4. top \in prune.snaps /\ \A s \in prune.snaps : s <= top
    <3>1. prune.snaps \in SUBSET Nat /\ \A s \in prune.snaps : s <= head
      BY Zenon, <2>1 DEF NumbersInv
    <3> QED
      BY Zenon, <1>1, <2>2, <3>1, MaxIsGreatest
  <2>5. top \in keep /\ keep # {} /\ keep \subseteq prune.snaps
    BY Zenon, <2>4 DEF Kept
  <2>6. prune' = [prune EXCEPT !.pc = next, !.keep = keep, !.del = del]
    BY Zenon, <2>3
  <2>7. \A d \in del : d[2].parts \subseteq prune.snaps \ keep
    <3> HIDE DEF keep
    <3> SUFFICES ASSUME NEW s \in prune.snaps \ keep
                 PROVE  <<0, File(s, s, {s}, TRUE)>>[2].parts \subseteq prune.snaps \ keep
      BY Zenon
    <3>1. <<0, File(s, s, {s}, TRUE)>>[2].parts = {s}
      BY Zenon DEF File
    <3> QED
      BY Zenon, <3>1
  <2> HIDE DEF keep, del, top
  <2>8. prune'.snaps = prune.snaps /\ prune'.keep = keep /\ prune'.del = del
    BY Zenon, <2>2, <2>6
  <2>9. \A s \in prune.snaps : s \in Nat /\ s <= head
    BY Zenon, <2>1 DEF NumbersInv
  <2>10. \A s \in prune.snaps \ keep : s \in Nat /\ s < head
    BY <1>1, <2>4, <2>5, <2>9
  <2>11. \A d \in del : \A t \in d[2].parts : t \in Nat /\ t < head
    BY Zenon, <2>7, <2>10
  <2> QED
    BY Zenon, <1>2, <2>1, <2>5, <2>8, <2>9, <2>11 DEF NumbersInv
<1>5. CASE PruneLevels
  <2> DEFINE mark == Min(prune.keep)
             more == UNION {{l} \X LevelPrune(l, mark) : l \in {1, 2}}
  <2>1. /\ UNCHANGED <<head, snaps, files, dropped>> /\ prune # None /\ prune.pc = "levels"
        /\ prune' = [prune EXCEPT !.pc = "delete", !.del = @ \cup more]
    BY Zenon, <1>5 DEF PruneLevels, vars
  <2>2. DOMAIN prune = {"pc", "snaps", "keep", "del"}
    BY Zenon, <2>1 DEF KeepsInv, PruneInv
  <2>3. /\ \A s \in prune.snaps : s \in Nat /\ s <= head
        /\ prune.keep \subseteq prune.snaps /\ prune.keep # {}
        /\ \A d \in prune.del : \A t \in d[2].parts : t \in Nat /\ t < head
    BY Zenon, <2>1 DEF NumbersInv
  <2>4. mark \in Nat /\ mark <= head
    <3>1. prune.keep \in SUBSET Nat
      BY Zenon, <2>3
    <3> QED
      BY Zenon, <2>3, <3>1, MinIsLeast
  <2> HIDE DEF mark
  <2>5. ASSUME NEW l \in {1, 2}, NEW f \in LevelPrune(l, mark), NEW t \in f.parts
        PROVE  t \in Nat /\ t < head
    <3>1. l \in Levels /\ f \in files[l] /\ f.max < mark
      BY DEF LevelPrune, Levels
    <3>2. IsRange(f)
      BY Zenon, <3>1 DEF KeepsInv, StoreInv, IsLevel
    <3> QED
      BY <1>1, <2>4, <3>1, <3>2 DEF IsRange, Files
  <2>6. \A d \in more : \A t \in d[2].parts : t \in Nat /\ t < head
    <3> SUFFICES ASSUME NEW l \in {1, 2}, NEW d \in {l} \X LevelPrune(l, mark), NEW t \in d[2].parts
                 PROVE  t \in Nat /\ t < head
      BY Zenon
    <3>1. d[2] \in LevelPrune(l, mark)
      OBVIOUS
    <3> QED
      BY Zenon, <2>5, <3>1
  <2> HIDE DEF more
  <2>7. prune'.snaps = prune.snaps /\ prune'.keep = prune.keep /\ prune'.del = prune.del \cup more
    BY Zenon, <2>1, <2>2
  <2> QED
    BY Zenon, <1>2, <2>1, <2>3, <2>6, <2>7 DEF NumbersInv
<1>6. CASE PruneDelete
  <2>1. PICK d \in prune.del :
          /\ prune' = [prune EXCEPT !.del = @ \ {d}]
          /\ dropped' = dropped \cup d[2].parts
          /\ snaps' = IF d[1] = 0 THEN snaps \ d[2].parts ELSE snaps
          /\ files' = IF d[1] = 0 THEN files ELSE [files EXCEPT ![d[1]] = @ \ {d[2]}]
    BY Zenon, <1>6 DEF PruneDelete
  <2>2. head' = head /\ prune # None
    BY Zenon, <1>6 DEF PruneDelete
  <2>3. DOMAIN prune = {"pc", "snaps", "keep", "del"} /\ DOMAIN files = Levels /\ 0 \in Levels
    BY <2>2 DEF KeepsInv, PruneInv, StoreInv, Levels
  <2>4. files'[0] = files[0]
    <3>1. CASE d[1] = 0
      BY Zenon, <2>1, <3>1
    <3>2. CASE d[1] # 0
      BY Zenon, <2>1, <2>3, <3>2
    <3> QED
      BY Zenon, <3>1, <3>2
  <2>5. snaps' \subseteq snaps /\ \A s \in snaps : s \in snaps' \cup dropped'
    BY Zenon, <2>1
  <2>6. Moves
    BY <1>1, <2>1, <2>2, <2>4, <2>5 DEF Moves
  <2>7. /\ prune'.pc = prune.pc /\ prune'.snaps = prune.snaps /\ prune'.keep = prune.keep
        /\ prune'.del \subseteq prune.del
    BY Zenon, <2>1, <2>3
  <2>8. \A t \in dropped' : t \in Nat /\ t < head
    BY Zenon, <2>1, <2>2 DEF NumbersInv
  <2> QED
    BY Zenon, <2>2, <2>4, <2>5, <2>6, <2>7, <2>8 DEF NumbersInv
<1> QED
  BY Zenon, <1>3, <1>4, <1>5, <1>6 DEF Retention, PrunePlan, RunPrunePlan

-----------------------------------------------------------------------------
(* The replica.                                                             *)

\* Others move on while the replica does nothing.
LEMMA ReplicaWaits ==
  ASSUME KeepsInv, ReplicaInv, Moves, UNCHANGED rep
  PROVE  ReplicaInv'
<1>1. head \in Nat /\ head' \in Nat /\ 1 <= head /\ head <= head' /\ rep \in Replicas
  BY Zenon, StoredNumbers DEF Moves, ReplicaInv
<1>2. rep.saved \in Nat /\ (rep.db # None => rep.db \in Nat /\ 1 <= rep.db /\ rep.db <= head)
  BY <1>1 DEF ReplicaInv, Replicas
<1>3. \A s \in rep.snaps : s \in Nat /\ 1 <= s /\ s <= head
  BY <1>1 DEF ReplicaInv, Replicas
<1>4. rep.db # None => rep.db \in 1 .. head'
  BY <1>1, <1>2
<1>5. ASSUME rep.db # None, NEW f \in files'[0], f.min = rep.saved + 1
      PROVE  rep.db <= f.max
  <2>1. CASE f \in files[0]
    BY Zenon, <1>5, <2>1 DEF ReplicaInv
  <2>2. CASE f \notin files[0]
    <3>1. f.min \in Nat /\ f.max \in Nat /\ head < f.min /\ f.min <= f.max
      BY Zenon, <2>2 DEF Moves
    <3> QED
      BY <1>1, <1>2, <1>5, <3>1
  <2> QED
    BY Zenon, <2>1, <2>2
<1>6. ASSUME rep.db # None, rep.saved < rep.db
      PROVE  FileAmong(snaps)' /\ (rep.pc \in {"list", "poll"} => FileAmong(rep.snaps)')
  <2>1. FileAmong(snaps) /\ (rep.pc \in {"list", "poll"} => FileAmong(rep.snaps))
    BY Zenon, <1>6 DEF ReplicaInv
  <2>2. \A s \in snaps' : s \in snaps \/ rep.db < s
    <3>1. \A s \in snaps' : s \in snaps \/ (s \in Nat /\ head < s)
      BY Zenon DEF Moves
    <3> QED
      BY <1>1, <1>2, <1>6, <3>1
  <2>3. dropped \subseteq dropped' /\ \A s \in snaps : s \in snaps' \cup dropped'
    BY Zenon DEF Moves
  <2>4. FileAmong(snaps)'
    BY Zenon, <2>1, <2>2, <2>3 DEF FileAmong
  <2> QED
    BY Zenon, <2>1, <2>3, <2>4 DEF FileAmong
<1>7. \A s \in rep.snaps : 1 <= s /\ s <= head'
  BY <1>1, <1>3
<1>8. ASSUME rep.pc \in {"poll", "save"}, NEW f \in files'[0]
      PROVE  f \in rep.l0 \/ \A s \in rep.snaps : s < f.min
  <2>1. CASE f \in files[0]
    BY Zenon, <1>8, <2>1 DEF ReplicaInv
  <2>2. CASE f \notin files[0]
    <3>1. f.min \in Nat /\ head < f.min
      BY Zenon, <2>2 DEF Moves
    <3> QED
      BY <1>1, <1>3, <3>1
  <2> QED
    BY Zenon, <2>1, <2>2
<1> QED
  BY Zenon, <1>1, <1>4, <1>5, <1>6, <1>7, <1>8 DEF ReplicaInv

\* A step that leaves the file alone.
LEMMA SameFile ==
  ASSUME KeepsInv, ReplicaInv', UNCHANGED head, rep'.db = rep.db, ReplicaInv
  PROVE  ReplicaStep
<1>1. head \in Nat /\ rep \in Replicas /\ rep' \in Replicas
  BY Zenon, StoredNumbers DEF ReplicaInv
<1>2. rep.db # None => rep.db \in Nat /\ rep.db # 0
  BY <1>1 DEF ReplicaInv, Replicas
<1>3. rep.db # Mixed
  <2>1. None # 0
    BY FleetAssumption
  <2> QED
    BY Zenon, <1>2, <2>1 DEF Mixed
<1>4. rep'.saved > 0 => rep'.db # None /\ rep'.db >= rep'.saved
  <2>1. rep'.saved \in Nat /\ rep'.db \in Nat \cup {None}
    BY Zenon, <1>1 DEF Replicas
  <2>2. rep'.saved > 0 => rep'.db # None /\ rep'.saved <= rep'.db
    BY Zenon DEF ReplicaInv
  <2> QED
    BY <2>1, <2>2
<1>5. rep.db # None => rep'.db >= rep.db
  BY <1>2
<1> QED
  BY Zenon, <1>3, <1>4, <1>5 DEF ReplicaStep

\* The generations are listed (discover_all_legacy_ltx).
LEMMA PollStateKeeps ==
  ASSUME KeepsInv, ReplicaInv, PollState
  PROVE  ReplicaInv' /\ ReplicaStep
<1>1. UNCHANGED <<head, snaps, files, dropped>>
  BY Zenon DEF PollState, vars
<1>2. rep \in Replicas /\ rep.pc = "idle" /\ rep' = [rep EXCEPT !.pc = "list", !.snaps = snaps]
  BY Zenon DEF PollState, ReplicaInv
<1>3. \A s \in snaps : s \in Nat /\ 1 <= s /\ s <= head
  BY Zenon, StoredNumbers
<1>4. /\ rep'.txid = rep.txid /\ rep'.saved = rep.saved /\ rep'.db = rep.db /\ rep'.l0 = rep.l0
      /\ rep'.pc = "list" /\ rep'.snaps = snaps
  BY Zenon, <1>2 DEF Replicas
<1>5. rep' \in Replicas
  BY Zenon, <1>2, <1>3 DEF Replicas
<1>6. rep.txid = rep.saved
  BY Zenon, <1>2 DEF ReplicaInv
<1>7. ReplicaInv'
  BY Zenon, <1>1, <1>3, <1>4, <1>5, <1>6 DEF ReplicaInv, FileAmong
<1> QED
  BY Zenon, <1>1, <1>4, <1>7, SameFile

\* The live files are listed, and the snapshots of those generations.
LEMMA PollListingKeeps ==
  ASSUME KeepsInv, ReplicaInv, PollListing
  PROVE  ReplicaInv' /\ ReplicaStep
<1>1. UNCHANGED <<head, snaps, files, dropped>>
  BY Zenon DEF PollListing, vars
<1>2. /\ rep \in Replicas /\ rep.pc = "list"
      /\ rep' = [rep EXCEPT !.pc = "poll", !.l0 = files[0], !.snaps = @ \cap snaps]
  BY Zenon DEF PollListing, ReplicaInv
<1>3. files[0] \in SUBSET Files /\ \A f \in files[0] : IsRange(f)
  BY Zenon, StoredNumbers DEF IsRange
<1>4. /\ rep'.txid = rep.txid /\ rep'.saved = rep.saved /\ rep'.db = rep.db /\ rep'.l0 = files[0]
      /\ rep'.pc = "poll" /\ rep'.snaps = rep.snaps \cap snaps
  BY Zenon, <1>2 DEF Replicas
<1>5. rep' \in Replicas
  BY Zenon, <1>2, <1>3 DEF Replicas
<1>6. rep.txid = rep.saved
  BY Zenon, <1>2 DEF ReplicaInv
<1>7. ASSUME rep.db # None, rep.saved < rep.db
      PROVE  FileAmong(rep.snaps \cap snaps)
  BY Zenon, <1>2, <1>7 DEF ReplicaInv, FileAmong
<1>8. ReplicaInv'
  BY Zenon, <1>1, <1>3, <1>4, <1>5, <1>6, <1>7 DEF ReplicaInv, FileAmong
<1> QED
  BY Zenon, <1>1, <1>4, <1>8, SameFile

\* The poll is over, and forgets what it has listed.
LEMMA IdleKeeps ==
  ASSUME KeepsInv, ReplicaInv, NEW r \in Replicas, rep' = Idle(r),
         r.db = rep.db, r.saved = rep.saved, r.txid = rep.saved,
         UNCHANGED <<head, snaps, files, dropped>>
  PROVE  ReplicaInv' /\ ReplicaStep
<1>1. /\ rep'.txid = rep.saved /\ rep'.saved = rep.saved /\ rep'.db = rep.db /\ rep'.l0 = {}
      /\ rep'.pc = "idle" /\ rep'.snaps = {}
  BY Zenon DEF Idle, Replicas
<1>2. rep' \in Replicas
  BY Zenon DEF Idle, Replicas
<1>3. ReplicaInv'
  BY Zenon, <1>1, <1>2 DEF ReplicaInv, FileAmong
<1> QED
  BY Zenon, <1>1, <1>3, SameFile

\* The next file of a poll is one that it has listed, the first behind the replica.
LEMMA NextIsFirst ==
  ASSUME ReplicaInv, Incrementals # {}
  PROVE  /\ NextFile \in rep.l0 /\ IsRange(NextFile) /\ NextFile.min \in Nat /\ rep.txid < NextFile.min
         /\ \A f \in rep.l0 : f.min > rep.txid => NextFile.min <= f.min
<1> DEFINE mins == {f.min : f \in Incrementals}
<1>1. Incrementals \subseteq rep.l0 /\ \A f \in rep.l0 : f \in Incrementals <=> f.min > rep.txid
  BY Zenon DEF Incrementals
<1>2. rep.txid \in Nat /\ \A f \in rep.l0 : IsRange(f) /\ f.min \in Nat
  BY Zenon DEF ReplicaInv, Replicas, IsRange, Files
<1> HIDE DEF Incrementals
<1>3. mins \in SUBSET Nat /\ mins # {}
  BY Zenon, <1>1, <1>2
<1>4. Min(mins) \in mins /\ \A y \in mins : Min(mins) <= y
  BY Zenon, <1>3, MinIsLeast
<1>5. \E f \in Incrementals : \A g \in Incrementals : f.min <= g.min
  BY Zenon, <1>4
<1>6. NextFile \in Incrementals /\ \A g \in Incrementals : NextFile.min <= g.min
  BY Zenon, <1>5 DEF NextFile
<1> QED
  BY <1>1, <1>2, <1>6

\* The snapshot a poll starts over from is not behind the file, unless retention has
\* deleted the one the file is from; and no live file leads from the state file to a
\* place in front of it.
LEMMA StartsOver ==
  ASSUME KeepsInv, NumbersInv, ReplicaInv, rep.pc = "poll", NEW s \in Rebootstrap
  PROVE  /\ s \in Nat /\ 1 <= s /\ s <= head
         /\ rep.db # None => rep.db <= s \/ (rep.saved < rep.db /\ rep.db \in dropped)
         /\ rep.saved > 0 => rep.saved <= s
         /\ \A f \in files[0] : f.min = rep.saved + 1 => s <= f.max
<1>1. /\ rep \in Replicas /\ rep.saved \in Nat /\ rep.txid = rep.saved
      /\ rep.db # None => rep.db \in Nat /\ 1 <= rep.db
      /\ rep.saved > 0 => rep.db # None /\ rep.saved <= rep.db
  <2>1. rep \in Replicas /\ rep.txid = rep.saved
    BY Zenon DEF ReplicaInv
  <2>2. head \in Nat
    BY Zenon, StoredNumbers
  <2> QED
    BY <2>1, <2>2 DEF ReplicaInv, Replicas
<1>2. \A t \in rep.snaps : t \in Nat /\ 1 <= t /\ t <= head
  BY Zenon, <1>1 DEF ReplicaInv, Replicas
<1>3. \A f \in files[0] : f.min \in Nat /\ f.max \in Nat /\ 2 <= f.min /\ f.min <= f.max
  <2>1. \A f \in files[0] : f.min \in Nat /\ f.max \in Nat /\ f.min >= 2 /\ f.min <= f.max
    BY Zenon, StoredNumbers DEF NumbersInv
  <2> QED
    BY <2>1
<1>4. /\ s \in rep.snaps /\ \A t \in rep.snaps : t <= s
      /\ rep.saved = 0 \/ (rep.saved < s /\ \A f \in rep.l0 : f.min # rep.saved + 1)
  <2>1. CASE rep.txid = 0 \/ rep.db = None
    <3>1. s \in rep.snaps /\ \A t \in rep.snaps : t <= s
      BY Zenon, <2>1 DEF Rebootstrap, Newest
    <3> QED
      BY <1>1, <2>1, <3>1
  <2>2. CASE ~(rep.txid = 0 \/ rep.db = None) /\ Incrementals = {}
    <3>1. s \in rep.snaps /\ (\A t \in rep.snaps : t <= s) /\ s > rep.txid
      BY Zenon, <2>2 DEF Rebootstrap, Newest
    <3>2. \A f \in rep.l0 : ~(f.min > rep.txid)
      BY Zenon, <2>2 DEF Incrementals
    <3> QED
      BY <1>1, <1>2, <3>1, <3>2
  <2>3. CASE ~(rep.txid = 0 \/ rep.db = None) /\ Incrementals # {}
    <3>1. /\ s \in rep.snaps /\ s >= NextFile.min /\ NextFile.min # rep.txid + 1
          /\ \A t \in rep.snaps : t >= NextFile.min => t <= s
      BY Zenon, <2>3 DEF Rebootstrap, Newest
    <3>2. /\ NextFile.min \in Nat /\ rep.txid < NextFile.min
          /\ \A f \in rep.l0 : f.min > rep.txid => NextFile.min <= f.min
      BY Zenon, <2>3, NextIsFirst
    <3> QED
      BY <1>1, <1>2, <3>1, <3>2
  <2> QED
    BY Zenon, <2>1, <2>2, <2>3
<1>5. rep.db # None => rep.db <= s \/ (rep.saved < rep.db /\ rep.db \in dropped)
  <2>1. rep.db # None /\ rep.saved < rep.db => FileAmong(rep.snaps)
    BY Zenon DEF ReplicaInv
  <2> QED
    BY <1>1, <1>2, <1>4, <2>1 DEF FileAmong
<1>6. \A f \in files[0] : f.min = rep.saved + 1 => s <= f.max
  <2>1. \A f \in files[0] : f \in rep.l0 \/ s < f.min
    BY Zenon, <1>4 DEF ReplicaInv
  <2> QED
    BY <1>1, <1>2, <1>3, <1>4, <2>1
<1> QED
  BY <1>1, <1>2, <1>4, <1>5, <1>6

\* The snapshot is decoded beside the replica and renamed over it.
LEMMA PollBootstrapKeeps ==
  ASSUME KeepsInv, NumbersInv, ReplicaInv, PollBootstrap
  PROVE  ReplicaInv' /\ ReplicaStep
<1>1. UNCHANGED <<head, snaps, files, dropped>> /\ rep.pc = "poll" /\ rep \in Replicas
  BY Zenon DEF PollBootstrap, vars, ReplicaInv
<1>2. rep.txid = rep.saved /\ head \in Nat
  BY Zenon, <1>1, StoredNumbers DEF ReplicaInv
<1>3. PICK s \in Rebootstrap :
        rep' = IF s \in snaps THEN [rep EXCEPT !.db = s, !.txid = s, !.pc = "save", !.more = FALSE]
                              ELSE Idle(rep)
  BY Zenon DEF PollBootstrap
<1>4. /\ s \in Nat /\ 1 <= s /\ s <= head
      /\ rep.db # None => rep.db <= s \/ (rep.saved < rep.db /\ rep.db \in dropped)
      /\ rep.saved > 0 => rep.saved <= s
      /\ \A f \in files[0] : f.min = rep.saved + 1 => s <= f.max
  BY Zenon, <1>1, StartsOver
<1>5. CASE s \notin snaps
  BY Zenon, <1>1, <1>2, <1>3, <1>5, IdleKeeps
<1>6. CASE s \in snaps
  <2>1. rep' = [rep EXCEPT !.db = s, !.txid = s, !.pc = "save", !.more = FALSE]
    BY Zenon, <1>3, <1>6
  <2>2. /\ rep'.txid = s /\ rep'.saved = rep.saved /\ rep'.db = s /\ rep'.l0 = rep.l0
        /\ rep'.pc = "save" /\ rep'.snaps = rep.snaps
    BY Zenon, <1>1, <2>1 DEF Replicas
  <2>3. rep' \in Replicas
    BY Zenon, <1>1, <1>4, <2>1 DEF Replicas
  <2>4. s # None /\ s # Mixed /\ s \in 1 .. head
    BY <1>2, <1>4, FleetAssumption DEF Mixed
  <2>5. FileAmong(snaps)'
    BY Zenon, <1>1, <1>6, <2>2 DEF FileAmong
  <2>6. ReplicaInv'
    BY Zenon, <1>1, <1>4, <2>2, <2>3, <2>4, <2>5 DEF ReplicaInv
  <2>7. rep.saved \in Nat /\ (rep.db # None => rep.db \in Nat)
    BY <1>1 DEF Replicas
  <2>8. /\ rep.saved > 0 => s >= rep.saved
        /\ rep.db # None => s >= rep.db \/ (rep.saved < rep.db /\ rep.db \in dropped)
    BY <1>4, <2>7
  <2> QED
    BY Zenon, <2>2, <2>4, <2>6, <2>8 DEF ReplicaStep
<1> QED
  BY Zenon, <1>5, <1>6

\* A live file that goes on from the state file is applied: the file is inside its
\* range, and then at its end (apply_incremental_atomically).
LEMMA PollApplyKeeps ==
  ASSUME KeepsInv, NumbersInv, ReplicaInv, PollApply
  PROVE  ReplicaInv' /\ ReplicaStep
<1> DEFINE f == NextFile
<1>1. UNCHANGED <<head, snaps, files, dropped>> /\ rep.pc = "poll" /\ rep \in Replicas /\ rep.db # None
  BY Zenon DEF PollApply, vars, ReplicaInv
<1>2. rep.txid = rep.saved /\ head \in Nat
  BY Zenon, <1>1, StoredNumbers DEF ReplicaInv
<1>3. f.min = rep.txid + 1
  BY Zenon DEF PollApply, Follows
<1>4. rep' = IF f \in files[0]
             THEN [rep EXCEPT !.db = Applied(@, f), !.txid = f.max, !.pc = "save", !.more = TRUE]
             ELSE Idle(rep)
  BY Zenon DEF PollApply
<1> HIDE DEF f
<1>5. CASE f \notin files[0]
  BY Zenon, <1>1, <1>2, <1>4, <1>5, IdleKeeps
<1>6. CASE f \in files[0]
  <2>1. f.min \in Nat /\ f.max \in Nat /\ f.min <= f.max /\ f.max <= head
    BY Zenon, <1>6, StoredNumbers
  <2>2. /\ rep.saved \in Nat /\ rep.db \in Nat /\ rep.db <= f.max
        /\ f.min >= 2 /\ \A s \in snaps : s \in Nat /\ (s < f.min \/ f.max < s)
    <3>1. rep.db <= f.max
      BY Zenon, <1>1, <1>2, <1>3, <1>6 DEF ReplicaInv
    <3>2. f.min >= 2 /\ \A s \in snaps : s \in Nat /\ (s < f.min \/ f.max < s)
      BY Zenon, <1>6, StoredNumbers DEF NumbersInv
    <3> QED
      BY <1>1, <3>1, <3>2 DEF Replicas
  <2>3. rep.saved > 0 /\ rep.saved <= rep.db
    <3>1. rep.saved > 0
      BY <1>2, <1>3, <2>2
    <3> QED
      BY Zenon, <3>1 DEF ReplicaInv
  <2>4. Applied(rep.db, f) = f.max
    BY <1>2, <1>3, <2>1, <2>2, <2>3 DEF Applied
  <2>5. rep' = [rep EXCEPT !.db = f.max, !.txid = f.max, !.pc = "save", !.more = TRUE]
    BY Zenon, <1>4, <1>6, <2>4
  <2>6. /\ rep'.txid = f.max /\ rep'.saved = rep.saved /\ rep'.db = f.max /\ rep'.l0 = rep.l0
        /\ rep'.pc = "save" /\ rep'.snaps = rep.snaps
    BY Zenon, <1>1, <2>5 DEF Replicas
  <2>7. rep' \in Replicas
    BY Zenon, <1>1, <2>1, <2>5 DEF Replicas
  <2>8. /\ f.max # None /\ f.max # Mixed /\ f.max \in 1 .. head
        /\ f.max >= rep.saved /\ rep.saved <= f.max /\ f.max >= rep.db
    BY <1>2, <2>1, <2>2, <2>3, FleetAssumption DEF Mixed
  <2>9. FileAmong(snaps)'
    <3>1. \A s \in snaps : s <= rep.saved \/ f.max < s
      BY <1>2, <1>3, <2>1, <2>2
    <3> QED
      BY Zenon, <1>1, <2>3, <2>6, <3>1 DEF FileAmong
  <2>10. \A g \in files[0] : g.min = rep.saved + 1 => f.max <= g.max
    <3> SUFFICES ASSUME NEW g \in files[0], g.min = f.min PROVE f.max <= g.max
      BY Zenon, <1>2, <1>3
    <3>1. g.min \in Nat /\ g.max \in Nat /\ g.min <= g.max
      BY Zenon, StoredNumbers
    <3>2. f = g \/ ~Overlaps(f, g)
      <4>1. 0 \in Levels
        BY DEF Levels
      <4> QED
        BY Zenon, <1>6, <4>1 DEF KeepsInv, StoreInv, IsLevel
    <3> QED
      BY <2>1, <3>1, <3>2 DEF Overlaps
  <2>11. ReplicaInv'
    BY Zenon, <1>1, <2>6, <2>7, <2>8, <2>9, <2>10 DEF ReplicaInv
  <2> QED
    BY Zenon, <2>6, <2>8, <2>11 DEF ReplicaStep
<1> QED
  BY Zenon, <1>5, <1>6

\* save_replica_state: from here on the replica goes on behind the file.
LEMMA PollSaveKeeps ==
  ASSUME KeepsInv, ReplicaInv, PollSave
  PROVE  ReplicaInv' /\ ReplicaStep
<1> DEFINE r == [rep EXCEPT !.saved = rep.txid]
<1>1. UNCHANGED <<head, snaps, files, dropped>> /\ rep.pc = "save" /\ rep \in Replicas
  BY Zenon DEF PollSave, vars, ReplicaInv
<1>2. rep.db # None /\ rep.txid = rep.db /\ rep.txid \in Nat
  BY Zenon, <1>1 DEF ReplicaInv, Replicas
<1>3. rep' = IF rep.more THEN [r EXCEPT !.pc = "poll"] ELSE Idle(r)
  BY Zenon DEF PollSave
<1>4. /\ rep'.txid = rep.db /\ rep'.saved = rep.db /\ rep'.db = rep.db
      /\ \/ rep'.pc = "idle" /\ rep'.l0 = {} /\ rep'.snaps = {}
         \/ rep'.pc = "poll" /\ rep'.l0 = rep.l0 /\ rep'.snaps = rep.snaps
  BY <1>1, <1>2, <1>3 DEF Replicas, Idle
<1>5. rep' \in Replicas
  BY Zenon, <1>1, <1>2, <1>3 DEF Replicas, Idle
<1>6. rep.db <= rep.db /\ ~(rep.db < rep.db)
  BY <1>2
<1>7. \A f \in files[0] : f.min = rep.db + 1 => rep.db <= f.max
  <2>1. \A f \in files[0] : f.min \in Nat /\ f.max \in Nat /\ f.min <= f.max
    BY Zenon, StoredNumbers
  <2> QED
    BY <1>2, <2>1
<1>8. ReplicaInv'
  BY Zenon, <1>1, <1>2, <1>4, <1>5, <1>6, <1>7 DEF ReplicaInv
<1> QED
  BY Zenon, <1>1, <1>4, <1>8, SameFile

\* A stop forgets all but the file and the state file.
LEMMA ReplicaStopKeeps ==
  ASSUME KeepsInv, ReplicaInv, ReplicaStop
  PROVE  ReplicaInv' /\ ReplicaStep
<1>1. UNCHANGED <<head, snaps, files, dropped>> /\ rep \in Replicas
  BY Zenon DEF ReplicaStop, ReplicaInv
<1>2. rep' = [NewReplica EXCEPT !.txid = rep.saved, !.saved = rep.saved, !.db = rep.db]
  BY Zenon DEF ReplicaStop
<1>3. /\ rep'.txid = rep.saved /\ rep'.saved = rep.saved /\ rep'.db = rep.db /\ rep'.l0 = {}
      /\ rep'.pc = "idle" /\ rep'.snaps = {}
  BY Zenon, <1>2 DEF NewReplica
<1>4. rep' \in Replicas
  BY Zenon, <1>1, <1>2 DEF Replicas, NewReplica
<1>5. ReplicaInv'
  BY Zenon, <1>1, <1>3, <1>4 DEF ReplicaInv, FileAmong
<1> QED
  BY Zenon, <1>1, <1>3, <1>5, SameFile

-----------------------------------------------------------------------------
(* All steps.                                                               *)

\* A backup and its replica begin with one snapshot and no file.
LEMMA ReplicaInit == ASSUME FleetInit PROVE NumbersInv /\ ReplicaInv
<1>1. head = 1 /\ snaps = {1} /\ files[0] = {} /\ prune = None /\ dropped = {} /\ rep = NewReplica
  BY DEF FleetInit, Init, Levels
<1>2. NumbersInv
  BY Zenon, <1>1 DEF NumbersInv
<1>3. /\ rep.txid = 0 /\ rep.saved = 0 /\ rep.db = None /\ rep.l0 = {}
      /\ rep.pc = "idle" /\ rep.snaps = {}
  BY Zenon, <1>1 DEF NewReplica
<1>4. rep \in Replicas /\ ~(0 > 0)
  BY <1>1 DEF NewReplica, Replicas
<1>5. ReplicaInv
  BY Zenon, <1>1, <1>3, <1>4 DEF ReplicaInv
<1> QED
  BY Zenon, <1>2, <1>5

\* Every step of anyone.
LEMMA FleetStep ==
  ASSUME FleetInv, [FleetNext]_<<vars, fleet>>, KeepsInv'
  PROVE  FleetInv' /\ (ReplicaStep \/ UNCHANGED rep)
<1>1. KeepsInv /\ NumbersInv /\ ReplicaInv /\ KeepsInv'
  BY Zenon DEF FleetInv
<1>2. ASSUME Moves, NumbersInv', UNCHANGED rep
      PROVE  FleetInv' /\ (ReplicaStep \/ UNCHANGED rep)
  BY Zenon, <1>1, <1>2, ReplicaWaits DEF FleetInv, Moves
<1>3. ASSUME UNCHANGED <<head, snaps, files, dropped, prune>>
      PROVE  Moves /\ NumbersInv'
  <2>1. head \in Nat
    BY Zenon, <1>1, StoredNumbers
  <2>2. head <= head' /\ head' \in Nat
    BY <1>3, <2>1
  <2> QED
    BY Zenon, <1>1, <1>3, <2>2 DEF Moves, NumbersInv
<1>4. CASE UNCHANGED <<vars, fleet>> \/ Restore \/ Verify
  <2>1. UNCHANGED <<head, snaps, files, dropped, prune, rep>>
    BY Zenon, <1>4
       DEF Restore, RestoreBegin, Gather, RestorePlan, RestoreBase, RestoreApply, RestorePublish,
           Verify, VerifyState, VerifyListing, VerifyFiles, VerifyListLevel, VerifyHeaders,
           VerifyListFails, VerifyLevels, ValidateLevels, VerifyDone,
           vars, fleet
  <2> QED
    BY Zenon, <1>2, <1>3, <2>1
<1>5. CASE Next /\ UNCHANGED fleet
  <2>1. /\ Moves /\ UNCHANGED <<prune, dropped>>
        /\ \A s \in snaps' : s \in snaps \/ files'[0] \subseteq files[0]
    BY Zenon, <1>1, <1>5, WriterMoves
  <2>2. NumbersInv' /\ UNCHANGED rep
    BY Zenon, <1>1, <1>5, <2>1, WriterNumbers DEF fleet
  <2> QED
    BY Zenon, <1>2, <2>1, <2>2
<1>6. CASE Retention
  <2>1. UNCHANGED rep
    BY Zenon, <1>6
       DEF Retention, PruneList, PrunePlan, RunPrunePlan, PlanDeletions, PruneLevels, PruneDelete
  <2> QED
    BY Zenon, <1>1, <1>2, <1>6, <2>1, RetentionMoves
<1>7. CASE Poll \/ ReplicaStop
  <2>1. UNCHANGED <<head, snaps, files, dropped, prune>>
    BY Zenon, <1>7
       DEF Poll, PollState, PollListing, PollBootstrap, PollApply, PollEnds, PollSave, ReplicaStop, vars
  <2>2. ASSUME PollEnds PROVE ReplicaInv' /\ ReplicaStep
    <3>1. rep \in Replicas /\ rep' = Idle(rep) /\ rep.txid = rep.saved
      BY Zenon, <1>1, <2>2 DEF PollEnds, ReplicaInv
    <3> QED
      BY Zenon, <1>1, <2>1, <3>1, IdleKeeps
  <2>3. ReplicaInv' /\ ReplicaStep
    BY Zenon, <1>1, <1>7, <2>1, <2>2, PollStateKeeps, PollListingKeeps, PollBootstrapKeeps,
       PollApplyKeeps, PollSaveKeeps, ReplicaStopKeeps DEF Poll
  <2> QED
    BY Zenon, <1>1, <1>3, <2>1, <2>3 DEF FleetInv
<1> QED
  BY Zenon, <1>4, <1>5, <1>6, <1>7 DEF FleetNext

=============================================================================
