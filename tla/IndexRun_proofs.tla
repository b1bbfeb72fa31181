-------------------------- MODULE IndexRun_proofs ---------------------------
(***************************************************************************)
(* Theorems about IndexRun, for every number of files, contents, batch     *)
(* size and number of slots.  The invariant IInv says which files are      *)
(* where: the batches are disjoint, a result waits either in its goroutine *)
(* or in the channel and nowhere twice, and what the run holds is what it  *)
(* read.                                                                   *)
(***************************************************************************)
EXTENDS IndexRun, SequenceTheorems, FiniteSetTheorems, TLAPS

\* The batches of a run exist from Split on, and resultCh is closed last.
Shape ==
  /\ pc \in {"exited", "walk", "prune", "read"} => trivial = {} /\ batches = << >>
  /\ pc = "trivial" => launched = 0
  /\ pc = "launch" => launched < Len(batches)
  /\ \A b \in DOMAIN batches : b > launched => worker[b].phase = "queued"
  /\ closed => /\ pc \in {"drain", "manifests", "dirs"}
               /\ \A b \in DOMAIN batches : worker[b].phase \in Over

\* What is about to be written was read, and is of the right kind.
Meaning ==
  /\ SummaryMatchesHash
  /\ \A f \in trivial : read[f] \in Trivial
  /\ \A b \in DOMAIN batches : \A f \in batches[b] : read[f] \in Contents \ Trivial

\* No file is in two batches, and no result is in two places.
Distinct ==
  /\ \A a, b \in DOMAIN batches : a # b => batches[a] \intersect batches[b] = {}
  /\ \A b \in DOMAIN batches :
       /\ worker[b].left \subseteq batches[b]
       /\ worker[b].phase = "sending" <=> worker[b].left # {}
  /\ \A i \in DOMAIN channel : \E b \in DOMAIN batches :
       /\ channel[i] \in batches[b] \ worker[b].left
       /\ worker[b].phase \in {"sending", "finished"}
  /\ \A i, j \in DOMAIN channel : channel[i] = channel[j] => i = j

IInv == TypeOK /\ Shape /\ Meaning /\ Distinct

-----------------------------------------------------------------------------
(* Batches *)

LEMMA FilesFinite == IsFiniteSet(Files)
PROOF BY FS_Interval, SizesAssumption DEF Files

LEMMA CardType ==
  ASSUME NEW S \in SUBSET Files
  PROVE  IsFiniteSet(S) /\ Cardinality(S) \in Nat
PROOF BY FilesFinite, FS_Subset, FS_CardinalityType

\* The batches of S: one for each large file, then the groups of the others.
SmallOf(S) == S \ LargeOf(S)
NumGroups(S) == (Cardinality(SmallOf(S)) + BatchSize - 1) \div BatchSize
GroupOf(S, k) == {f \in SmallOf(S) : (Rank(SmallOf(S), f) - 1) \div BatchSize = k - 1}
BatchOf(S, b) ==
  IF b <= Cardinality(LargeOf(S))
  THEN {f \in LargeOf(S) : Rank(LargeOf(S), f) = b}
  ELSE GroupOf(S, b - Cardinality(LargeOf(S)))

LEMMA BatchLayout ==
  ASSUME NEW S \in SUBSET Files
  PROVE  /\ Cardinality(LargeOf(S)) \in Nat /\ NumGroups(S) \in Nat
         /\ BuildBatches(S) \in Seq(SUBSET S)
         /\ DOMAIN BuildBatches(S) = 1..(Cardinality(LargeOf(S)) + NumGroups(S))
         /\ \A b \in DOMAIN BuildBatches(S) : BuildBatches(S)[b] = BatchOf(S, b)
PROOF
  <1> DEFINE n == Cardinality(LargeOf(S))
             groups == NumGroups(S)
             first == [i \in 1..n |-> {f \in LargeOf(S) : Rank(LargeOf(S), f) = i}]
             second == [k \in 1..groups |-> GroupOf(S, k)]
             both == first \o second
  <1>1. LargeOf(S) \in SUBSET Files /\ SmallOf(S) \in SUBSET Files
    BY DEF LargeOf, SmallOf
  <1>2. n \in Nat /\ Cardinality(SmallOf(S)) \in Nat
    BY <1>1, CardType
  <1>3. Cardinality(SmallOf(S)) + BatchSize - 1 \in Nat
    BY <1>2, SizesAssumption
  <1>4. groups \in Nat
    <2> DEFINE m == Cardinality(SmallOf(S)) + BatchSize - 1
    <2>1. m \in Nat /\ BatchSize \in Nat \ {0}
      BY <1>3, SizesAssumption
    <2> HIDE DEF m
    <2>2. m \div BatchSize \in Nat
      BY <2>1
    <2>3. QED
      BY <2>2 DEF m, NumGroups
  <1>5. BuildBatches(S) = both
    BY DEF BuildBatches, SmallOf, GroupOf, NumGroups
  <1> HIDE DEF n, groups
  <1>6. first \in Seq(SUBSET S) /\ Len(first) = n
    BY <1>2 DEF LargeOf
  <1>7. second \in Seq(SUBSET S) /\ Len(second) = groups
    BY <1>4 DEF GroupOf, SmallOf
  <1>8. /\ both \in Seq(SUBSET S)
        /\ Len(both) = n + groups
        /\ \A b \in 1..(n + groups) :
             both[b] = IF b <= n THEN first[b] ELSE second[b - n]
    <2> HIDE DEF first, second
    <2> QED
      BY <1>6, <1>7, ConcatProperties
  <1>9. ASSUME NEW b \in 1..(n + groups) PROVE both[b] = BatchOf(S, b)
    <2>1. CASE b <= n
      BY <1>2, <1>8, <2>1 DEF BatchOf, n
    <2>2. CASE ~(b <= n)
      <3>1. b - n \in 1..groups
        BY <1>2, <1>4, <2>2
      <3>2. both[b] = GroupOf(S, b - n)
        BY <1>8, <2>2, <3>1
      <3> QED
        BY <2>2, <3>2 DEF BatchOf, n
    <2> QED BY <2>1, <2>2
  <1>10. DOMAIN both = 1..(n + groups)
    <2> HIDE DEF both
    <2> QED BY <1>8
  <1> HIDE DEF both
  <1> QED
    BY <1>2, <1>4, <1>5, <1>8, <1>9, <1>10 DEF n, groups

\* buildBatches puts no file in two batches.
LEMMA BatchesBuilt ==
  ASSUME NEW S \in SUBSET Files
  PROVE  /\ BuildBatches(S) \in Seq(SUBSET S)
         /\ \A a, b \in DOMAIN BuildBatches(S) :
              a # b => BuildBatches(S)[a] \intersect BuildBatches(S)[b] = {}
PROOF
  <1> DEFINE n == Cardinality(LargeOf(S))
             groups == NumGroups(S)
  <1>1. n \in Nat /\ groups \in Nat
    BY BatchLayout
  <1> SUFFICES ASSUME NEW a \in 1..(n + groups), NEW b \in 1..(n + groups), a # b
               PROVE  BatchOf(S, a) \intersect BatchOf(S, b) = {}
    BY BatchLayout
  <1>2. \A c \in 1..(n + groups) :
          BatchOf(S, c) \subseteq IF c <= n THEN LargeOf(S) ELSE SmallOf(S)
    BY DEF BatchOf, GroupOf
  <1>3. LargeOf(S) \intersect SmallOf(S) = {}
    BY DEF SmallOf
  <1>4. CASE a <= n /\ b <= n
    BY <1>4 DEF BatchOf
  <1>5. CASE (a <= n) # (b <= n)
    BY <1>2, <1>3, <1>5
  <1>6. CASE ~(a <= n) /\ ~(b <= n)
    <2>1. a - n - 1 # b - n - 1
      BY <1>1
    <2>2. BatchOf(S, a) = GroupOf(S, a - n) /\ BatchOf(S, b) = GroupOf(S, b - n)
      BY <1>6 DEF BatchOf
    <2> QED
      BY <2>1, <2>2 DEF GroupOf
  <1> QED
    BY <1>4, <1>5, <1>6

LEMMA RankBounds ==
  ASSUME NEW S \in SUBSET Files, NEW f \in S
  PROVE  Rank(S, f) \in 1..Cardinality(S)
PROOF
  <1> DEFINE below == {g \in S : g <= f}
  <1>1. IsFiniteSet(S) /\ Cardinality(S) \in Nat
    BY CardType
  <1>2. below \subseteq S /\ f \in below
    BY SizesAssumption DEF Files
  <1> HIDE DEF below
  <1>3. Cardinality(below) <= Cardinality(S) /\ IsFiniteSet(below)
    BY <1>1, <1>2, FS_Subset
  <1>4. Cardinality(below) \in Nat
    BY <1>3, FS_CardinalityType
  <1>5. Cardinality(below) # 0
    BY <1>2, <1>3, FS_EmptySet
  <1>6. Rank(S, f) = Cardinality(below)
    BY DEF Rank, below
  <1> QED
    BY <1>1, <1>3, <1>4, <1>5, <1>6

LEMMA DivBounds ==
  ASSUME NEW x \in Nat, NEW k \in Nat \ {0}
  PROVE  x \div k \in Nat /\ k * (x \div k) <= x /\ x < k * (x \div k) + k
PROOF OBVIOUS

LEMMA TimesMonotone ==
  ASSUME NEW x \in Nat, NEW y \in Nat, NEW k \in Nat, x <= y
  PROVE  k * x <= k * y
PROOF OBVIOUS

\* The r-th of c items, k to a group, is in one of the ceil(c / k) groups.
LEMMA InSomeGroup ==
  ASSUME NEW c \in Nat, NEW r \in 1..c, NEW k \in Nat \ {0}
  PROVE  (r - 1) \div k + 1 \in 1..((c + k - 1) \div k)
PROOF
  <1> DEFINE x == r - 1
             y == c + k - 1
             q == x \div k
             g == y \div k
  <1>1. x \in Nat /\ y \in Nat /\ x <= c - 1
    OBVIOUS
  <1> HIDE DEF x, y
  <1>2. q \in Nat /\ k * q <= x
    BY <1>1, DivBounds
  <1>3. g \in Nat /\ y < k * g + k
    BY <1>1, DivBounds
  <1> HIDE DEF q, g
  <1>4. k * q \in Int /\ k * g \in Int
    BY <1>2, <1>3
  <1>5. k * q < k * g
    <2> DEFINE kq == k * q
               kg == k * g
    <2>1. kq \in Int /\ kg \in Int /\ kq <= x /\ y < kg + k
      BY <1>2, <1>3, <1>4
    <2>2. x <= c - 1 /\ y = c + k - 1 /\ x \in Int
      BY <1>1 DEF y
    <2> HIDE DEF kq, kg
    <2>3. kq < kg
      BY <2>1, <2>2
    <2> QED BY <2>3 DEF kq, kg
  <1>6. ~(g <= q)
    <2> SUFFICES ASSUME g <= q PROVE FALSE
      OBVIOUS
    <2>1. k * g <= k * q
      BY <1>2, <1>3, TimesMonotone
    <2> QED BY <1>4, <1>5, <2>1
  <1>7. q + 1 \in 1..g
    BY <1>2, <1>3, <1>6
  <1> QED
    BY <1>7 DEF q, g, x, y

\* buildBatches leaves no file out.
LEMMA BatchesCover ==
  ASSUME NEW S \in SUBSET Files, NEW f \in S
  PROVE  \E b \in DOMAIN BuildBatches(S) : f \in BuildBatches(S)[b]
PROOF
  <1> DEFINE n == Cardinality(LargeOf(S))
             groups == NumGroups(S)
  <1>1. n \in Nat /\ groups \in Nat
    BY BatchLayout
  <1>2. LargeOf(S) \in SUBSET Files /\ SmallOf(S) \in SUBSET Files
    BY DEF LargeOf, SmallOf
  <1> SUFFICES \E b \in 1..(n + groups) : f \in BatchOf(S, b)
    BY BatchLayout
  <1>3. CASE f \in LargeOf(S)
    <2>1. Rank(LargeOf(S), f) \in 1..n
      BY <1>2, <1>3, RankBounds
    <2>2. f \in BatchOf(S, Rank(LargeOf(S), f))
      BY <1>3, <2>1 DEF BatchOf
    <2> QED BY <1>1, <2>1, <2>2
  <1>4. CASE f \in SmallOf(S)
    <2> DEFINE r == Rank(SmallOf(S), f)
               k == (r - 1) \div BatchSize + 1
    <2>1. r \in 1..Cardinality(SmallOf(S)) /\ Cardinality(SmallOf(S)) \in Nat
      BY <1>2, <1>4, RankBounds, CardType
    <2> HIDE DEF r
    <2>2. k \in 1..groups
      BY <2>1, InSomeGroup, SizesAssumption DEF NumGroups
    <2>3. k - 1 = (r - 1) \div BatchSize
      <3> DEFINE q == (r - 1) \div BatchSize
      <3>1. q + 1 \in Int
        BY <2>2
      <3>2. r - 1 \in Nat /\ BatchSize \in Nat \ {0}
        BY <2>1, SizesAssumption
      <3>3. q \in Nat
        <4> DEFINE x == r - 1
        <4> HIDE DEF x
        <4>1. x \in Nat => x \div BatchSize \in Nat
          BY <3>2, DivBounds
        <4> QED BY <3>2, <4>1 DEF x
      <3>4. k = q + 1
        OBVIOUS
      <3> HIDE DEF q, k
      <3>5. k - 1 = q
        BY <3>3, <3>4
      <3> QED BY <3>5 DEF q
    <2> HIDE DEF k
    <2>4. f \in GroupOf(S, k)
      BY <1>4, <2>3 DEF GroupOf, r
    <2>5. n + k \in 1..(n + groups) /\ ~(n + k <= n) /\ (n + k) - n = k
      BY <1>1, <2>2
    <2>6. BatchOf(S, n + k) = GroupOf(S, k)
      BY <2>5 DEF BatchOf
    <2> QED BY <2>4, <2>5, <2>6
  <1> QED
    BY <1>3, <1>4 DEF SmallOf

-----------------------------------------------------------------------------
(* The invariant *)

LEMMA NothingHeld ==
  /\ << >> \in Seq(SUBSET Files) /\ << >> \in Seq(Files) /\ Len(<< >>) = 0
  /\ << >> \in [DOMAIN << >> -> [phase : Phases, left : SUBSET Files]]
PROOF
  <1>1. << >> \in Seq([phase : Phases, left : SUBSET Files]) /\ Len(<< >>) = 0
    OBVIOUS
  <1>2. DOMAIN << >> = 1..0
    BY <1>1
  <1>3. << >> \in [1..0 -> [phase : Phases, left : SUBSET Files]]
    BY <1>1
  <1>4. QED
    BY <1>1, <1>2, <1>3

LEMMA InitHolds == Init => IInv
PROOF
  <1> SUFFICES ASSUME Init PROVE IInv
    OBVIOUS
  <1>1. TypeOK
    <2>1. /\ rows \in [Files -> Row \union {NoRow}]
          /\ tree \in [Files -> Contents \union {None}]
          /\ pkgRows \in [Files -> Contents \union {None}]
          /\ read \in [Files -> Contents \union {None, "unread"}]
      BY DEF Init, Idle, NoRow
    <2>2. /\ batches \in Seq(SUBSET Files) /\ launched \in 0..Len(batches)
          /\ worker \in [DOMAIN batches -> [phase : Phases, left : SUBSET Files]]
          /\ channel \in Seq(Files)
      BY NothingHeld DEF Init, Idle
    <2>3. /\ dirRows \subseteq Dirs /\ pc = "exited" /\ mode = "repo"
          /\ walked \subseteq Files /\ targets \subseteq Indexable /\ trivial \subseteq Files
          /\ indexed \in Nat /\ runs \in 0..MaxRuns /\ edits \in 0..MaxEdits
      BY SizesAssumption DEF Init, Idle
    <2>4. /\ closed \in BOOLEAN /\ groupGone \in BOOLEAN /\ ctxDone \in BOOLEAN
          /\ clean \in BOOLEAN /\ fresh \in BOOLEAN /\ called \in BOOLEAN
      BY DEF Init, Idle
    <2>5. QED
      BY <2>1, <2>2, <2>3, <2>4 DEF TypeOK
  <1>2. Shape
    BY DEF Init, Idle, Shape
  <1>3. Meaning
    BY DEF Init, Idle, Meaning, SummaryMatchesHash, HasRow
  <1>4. Distinct
    BY DEF Init, Idle, Distinct
  <1>5. QED
    BY <1>1, <1>2, <1>3, <1>4 DEF IInv

LEMMA MeaningFrame ==
  ASSUME Meaning, UNCHANGED <<rows, trivial, batches, read>>
  PROVE  Meaning'
PROOF BY DEF Meaning, SummaryMatchesHash, HasRow

LEMMA DistinctFrame ==
  ASSUME Distinct, UNCHANGED <<batches, worker, channel>>
  PROVE  Distinct'
PROOF BY DEF Distinct

\* A run that is over holds nothing.
LEMMA ExitHolds ==
  ASSUME IInv, Exit, UNCHANGED rows,
         TypeOK => /\ tree' \in [Files -> Contents \union {None}]
                   /\ dirRows' \subseteq Dirs
                   /\ pkgRows' \in [Files -> Contents \union {None}]
                   /\ clean' \in BOOLEAN /\ fresh' \in BOOLEAN /\ called' \in BOOLEAN
                   /\ runs' \in 0..MaxRuns /\ edits' \in 0..MaxEdits
  PROVE  IInv'
PROOF
  <1>1. TypeOK'
    <2>1. /\ batches' \in Seq(SUBSET Files) /\ launched' \in 0..Len(batches')
          /\ worker' \in [DOMAIN batches' -> [phase : Phases, left : SUBSET Files]]
          /\ channel' \in Seq(Files)
      BY NothingHeld DEF Exit
    <2>2. read' \in [Files -> Contents \union {None, "unread"}]
      BY DEF Exit
    <2>3. QED
      BY <2>1, <2>2 DEF IInv, TypeOK, Exit
  <1>2. Shape'
    BY DEF Exit, Shape
  <1>3. Meaning'
    BY DEF IInv, Meaning, SummaryMatchesHash, HasRow, Exit
  <1>4. Distinct'
    BY DEF Exit, Distinct
  <1>5. QED
    BY <1>1, <1>2, <1>3, <1>4 DEF IInv

LEMMA StartHolds ==
  ASSUME IInv, NEW m, NEW paths, Start(m, paths)
  PROVE  IInv'
PROOF
  <1>1. TypeOK'
    <2>1. fresh' \in BOOLEAN
      BY DEF Start
    <2>2. runs' \in 0..MaxRuns
      BY SizesAssumption DEF IInv, TypeOK, Start
    <2>3. mode' \in {"repo", "full", "diff"} /\ targets' \subseteq Indexable
      BY FilesAssumption DEF IInv, TypeOK, Start
    <2>4. QED
      BY <2>1, <2>2, <2>3 DEF IInv, TypeOK, Start, storeVars, poolVars
  <1>2. Shape'
    BY DEF IInv, Shape, Start, poolVars
  <1>3. Meaning'
    BY MeaningFrame DEF IInv, Start, storeVars, poolVars
  <1>4. Distinct'
    BY DistinctFrame DEF IInv, Start, poolVars
  <1>5. QED
    BY <1>1, <1>2, <1>3, <1>4 DEF IInv

LEMMA WalkHolds ==
  ASSUME IInv, Walk
  PROVE  IInv'
PROOF
  <1>1. TypeOK'
    BY DEF IInv, TypeOK, Walk, Present, storeVars, poolVars
  <1>2. Shape'
    BY DEF IInv, Shape, Walk, poolVars
  <1>3. Meaning'
    BY MeaningFrame DEF IInv, Walk, storeVars, poolVars
  <1>4. Distinct'
    BY DistinctFrame DEF IInv, Walk, poolVars
  <1>5. QED
    BY <1>1, <1>2, <1>3, <1>4 DEF IInv

LEMMA PruneHolds ==
  ASSUME IInv, Prune
  PROVE  IInv'
PROOF
  <1>1. TypeOK'
    BY DEF IInv, TypeOK, Prune, storeVars, poolVars, localVars
  <1>2. Shape'
    BY DEF IInv, Shape, Prune, poolVars, localVars
  <1>3. Meaning'
    <2>1. SummaryMatchesHash'
      BY DEF IInv, Meaning, SummaryMatchesHash, HasRow, Prune
    <2>2. QED
      BY <2>1 DEF IInv, Meaning, Prune, poolVars, localVars
  <1>4. Distinct'
    BY DistinctFrame DEF IInv, Prune, poolVars, localVars
  <1>5. QED
    BY <1>1, <1>2, <1>3, <1>4 DEF IInv

LEMMA ReadFileHolds ==
  ASSUME IInv, NEW f \in Files, ReadFile(f)
  PROVE  IInv'
PROOF
  <1>1. TypeOK'
    BY DEF IInv, TypeOK, ReadFile, storeVars, poolVars
  <1>2. Shape'
    BY DEF IInv, Shape, ReadFile, poolVars
  <1>3. Meaning'
    BY DEF IInv, Shape, Meaning, SummaryMatchesHash, HasRow, ReadFile, storeVars, poolVars
  <1>4. Distinct'
    BY DistinctFrame DEF IInv, ReadFile, poolVars
  <1>5. QED
    BY <1>1, <1>2, <1>3, <1>4 DEF IInv

LEMMA ReadAbortsHolds ==
  ASSUME IInv, ReadAborts
  PROVE  IInv'
PROOF BY ExitHolds DEF ReadAborts, storeVars, TypeOK

LEMMA SplitHolds ==
  ASSUME IInv, Split
  PROVE  IInv'
PROOF
  <1> DEFINE got == {f \in targets : read[f] # None}
             changed == {f \in got : mode = "full" \/ ctxDone \/ ~UpToDate(f, read[f])}
             small == {f \in changed : read[f] \in Trivial}
             B == BuildBatches(changed \ small)
  <1>1. TypeOK /\ Shape /\ Meaning /\ Distinct
    BY DEF IInv
  <1>2. /\ trivial' = small /\ batches' = B /\ pc = "read" /\ pc' = "trivial"
        /\ worker' = [b \in DOMAIN B |-> [phase |-> "queued", left |-> {}]]
        /\ \A f \in targets : read[f] # "unread"
        /\ UNCHANGED <<rows, read, launched, channel, closed, targets>>
    BY DEF Split, storeVars
  <1>3. /\ targets \subseteq Files /\ small \subseteq Files
        /\ changed \ small \in SUBSET Files
        /\ \A f \in changed : read[f] \in Contents
        /\ \A f \in small : read[f] \in Trivial
        /\ \A f \in changed \ small : read[f] \in Contents \ Trivial
    BY <1>1, <1>2, FilesAssumption DEF TypeOK
  <1>4. /\ B \in Seq(SUBSET (changed \ small))
        /\ \A a, b \in DOMAIN B : a # b => B[a] \intersect B[b] = {}
    BY <1>3, BatchesBuilt
  <1> HIDE DEF B, small, changed
  <1>5. B \in Seq(SUBSET Files) /\ \A b \in DOMAIN B : B[b] \subseteq changed \ small
    BY <1>3, <1>4
  <1>6. launched = 0 /\ channel = << >> /\ closed = FALSE
    <2>1. batches = << >>
      BY <1>1, <1>2 DEF Shape
    <2>2. launched = 0
      BY <1>1, <2>1 DEF TypeOK
    <2>3. DOMAIN batches = {}
      BY <2>1
    <2>4. channel \in Seq(Files) /\ DOMAIN channel = {}
      BY <1>1, <2>3 DEF TypeOK, Distinct
    <2>5. channel = << >>
      BY <2>4
    <2>6. QED
      BY <1>1, <1>2, <2>2, <2>5 DEF TypeOK, Shape
  <1>7. TypeOK'
    <2>1. worker' \in [DOMAIN B -> [phase : Phases, left : SUBSET Files]]
      BY <1>2 DEF Phases
    <2>2. launched' \in 0..Len(B)
      BY <1>2, <1>5, <1>6
    <2>3. QED
      BY <1>1, <1>2, <1>3, <1>5, <2>1, <2>2 DEF TypeOK, Split, storeVars
  <1>8. Shape'
    BY <1>2, <1>6 DEF Shape
  <1>9. Meaning'
    BY <1>1, <1>2, <1>3, <1>5 DEF Meaning, SummaryMatchesHash, HasRow
  <1>10. Distinct'
    <2>1. DOMAIN channel' = {}
      BY <1>2, <1>6
    <2>2. QED
      BY <1>2, <1>4, <2>1 DEF Distinct
  <1>11. QED
    BY <1>7, <1>8, <1>9, <1>10 DEF IInv

\* Upserting a file that was read keeps every row truthful.
LEMMA UpsertHolds ==
  ASSUME TypeOK, Meaning, NEW f \in Files, NEW s,
         read[f] \in Contents, s = (IF read[f] \in Trivial THEN None ELSE read[f]),
         Upsert(f, s)
  PROVE  /\ rows' \in [Files -> Row \union {NoRow}]
         /\ indexed' \in Nat
         /\ clean' \in BOOLEAN
         /\ SummaryMatchesHash'
         /\ HasRow \subseteq HasRow'
PROOF
  <1>1. rows \in [Files -> Row \union {NoRow}] /\ indexed \in Nat /\ clean \in BOOLEAN
    BY DEF TypeOK
  <1>2. SummaryMatchesHash
    BY DEF Meaning
  <1>3. [hash |-> read[f], summary |-> s] \in Row
    BY DEF Row
  <1>4. [hash |-> read[f], summary |-> s] # NoRow
    BY ContentsAssumption DEF NoRow
  <1>5. CASE rows' = [rows EXCEPT ![f] = [hash |-> read[f], summary |-> s]]
                /\ indexed' = indexed + 1 /\ clean' = clean
    <2>1. HasRow' = HasRow \union {f}
      BY <1>1, <1>4, <1>5 DEF HasRow
    <2>2. SummaryMatchesHash'
      BY <1>1, <1>2, <1>5, <2>1 DEF SummaryMatchesHash, HasRow
    <2>3. QED
      BY <1>1, <1>3, <1>5, <2>1, <2>2
  <1>6. CASE clean' = FALSE /\ UNCHANGED <<rows, indexed>>
    BY <1>1, <1>2, <1>6 DEF SummaryMatchesHash, HasRow
  <1>7. QED
    BY <1>5, <1>6 DEF Upsert

LEMMA UpsertTrivialHolds ==
  ASSUME IInv, UpsertTrivial
  PROVE  IInv' /\ HasRow \subseteq HasRow'
PROOF
  <1>1. PICK f \in trivial : Upsert(f, None) /\ trivial' = trivial \ {f}
    BY DEF UpsertTrivial, Lowest
  <1>2. f \in Files /\ read[f] \in Trivial /\ read[f] \in Contents
    BY ContentsAssumption DEF IInv, TypeOK, Meaning
  <1>3. /\ rows' \in [Files -> Row \union {NoRow}] /\ indexed' \in Nat /\ clean' \in BOOLEAN
        /\ SummaryMatchesHash' /\ HasRow \subseteq HasRow'
    BY <1>1, <1>2, UpsertHolds DEF IInv
  <1>4. TypeOK'
    BY <1>1, <1>3 DEF IInv, TypeOK, UpsertTrivial, poolVars
  <1>5. Shape'
    BY <1>1 DEF IInv, Shape, UpsertTrivial, poolVars
  <1>6. Meaning'
    BY <1>1, <1>3 DEF IInv, Meaning, UpsertTrivial, poolVars
  <1>7. Distinct'
    BY DistinctFrame DEF IInv, UpsertTrivial, poolVars
  <1>8. QED
    BY <1>3, <1>4, <1>5, <1>6, <1>7 DEF IInv

LEMMA PathsIndexedHolds ==
  ASSUME IInv, PathsIndexed, UNCHANGED <<tree, storeVars, clean, fresh, called, runs, edits>>,
         pc \in {"trivial", "drain"}
  PROVE  IInv'
PROOF
  <1>1. CASE Exit
    BY <1>1, ExitHolds DEF storeVars, TypeOK
  <1>2. CASE pc' = "manifests" /\ UNCHANGED localVars
    <2>1. TypeOK'
      BY <1>2 DEF IInv, TypeOK, localVars, poolVars, storeVars
    <2>2. Shape'
      BY <1>2 DEF IInv, Shape, localVars, poolVars
    <2>3. Meaning'
      BY <1>2, MeaningFrame DEF IInv, localVars, poolVars, storeVars
    <2>4. Distinct'
      BY <1>2, DistinctFrame DEF IInv, localVars, poolVars
    <2>5. QED
      BY <2>1, <2>2, <2>3, <2>4 DEF IInv
  <1>3. QED
    BY <1>1, <1>2 DEF PathsIndexed

LEMMA TrivialDoneHolds ==
  ASSUME IInv, TrivialDone
  PROVE  IInv'
PROOF
  <1>1. CASE PathsIndexed
    BY <1>1, PathsIndexedHolds DEF TrivialDone
  <1>2. CASE batches # << >> /\ pc' = "launch" /\ UNCHANGED localVars
    <2>1. TypeOK'
      BY <1>2 DEF IInv, TypeOK, TrivialDone, localVars, poolVars, storeVars
    <2>2. Len(batches) > 0 /\ launched = 0
      BY <1>2 DEF IInv, TypeOK, Shape, TrivialDone
    <2>3. Shape'
      BY <1>2, <2>2 DEF IInv, Shape, TrivialDone, localVars, poolVars
    <2>4. Meaning'
      BY <1>2, MeaningFrame DEF IInv, TrivialDone, localVars, poolVars, storeVars
    <2>5. Distinct'
      BY <1>2, DistinctFrame DEF IInv, localVars, poolVars
    <2>6. QED
      BY <2>1, <2>3, <2>4, <2>5 DEF IInv
  <1>3. QED
    BY <1>1, <1>2 DEF TrivialDone

LEMMA LaunchHolds ==
  ASSUME IInv, Launch
  PROVE  IInv'
PROOF
  <1>1. /\ launched \in Nat /\ Len(batches) \in Nat /\ launched < Len(batches)
        /\ launched + 1 \in DOMAIN batches
    <2>1. batches \in Seq(SUBSET Files) /\ launched \in 0..Len(batches)
      BY DEF IInv, TypeOK
    <2>2. launched < Len(batches)
      BY DEF IInv, Shape, Launch
    <2>3. QED
      BY <2>1, <2>2
  <1> DEFINE l == launched + 1
  <1>2. /\ l \in DOMAIN batches /\ UNCHANGED <<batches, channel, closed>>
        /\ worker' = [worker EXCEPT ![l].phase = "started"]
    BY <1>1 DEF Launch
  <1>3. worker \in [DOMAIN batches -> [phase : Phases, left : SUBSET Files]]
    BY DEF IInv, TypeOK
  <1>4. /\ worker'[l].phase = "started" /\ worker'[l].left = worker[l].left
        /\ \A b \in DOMAIN batches : b # l => worker'[b] = worker[b]
    BY <1>2, <1>3
  <1>5. TypeOK'
    <2>1. launched' \in 0..Len(batches')
      BY <1>1 DEF Launch
    <2>2. worker' \in [DOMAIN batches' -> [phase : Phases, left : SUBSET Files]]
      BY <1>2, <1>3 DEF Phases
    <2>3. QED
      BY <2>1, <2>2 DEF IInv, TypeOK, Launch, storeVars
  <1>6. Shape'
    <2>1. /\ Shape /\ launched' = l
          /\ pc = "launch" /\ pc' = IF l = Len(batches) THEN "drain" ELSE "launch"
      BY <1>2 DEF IInv, Launch
    <2>2. closed = FALSE
      BY <2>1 DEF IInv, TypeOK, Shape
    <2>3. DOMAIN batches \subseteq Nat
      BY DEF IInv, TypeOK
    <2>4. \A b \in DOMAIN batches' : b > launched' => worker'[b].phase = "queued"
      BY <1>1, <1>2, <1>4, <2>1, <2>3 DEF Shape
    <2>5. QED
      BY <1>1, <1>2, <2>1, <2>2, <2>4 DEF Shape
  <1>7. Meaning'
    BY MeaningFrame DEF IInv, Launch, storeVars
  <1>8. worker[l].phase = "queued" /\ worker[l].left = {}
    BY <1>1, <1>2 DEF IInv, Shape, Distinct
  <1>9. Distinct'
    <2>1. Distinct
      BY DEF IInv
    <2> HIDE DEF l
    <2>2. QED
      BY <1>2, <1>4, <1>8, <2>1 DEF Distinct
  <1>10. QED
    BY <1>5, <1>6, <1>7, <1>9 DEF IInv

LEMMA DrainHolds ==
  ASSUME IInv, Drain
  PROVE  IInv' /\ HasRow \subseteq HasRow'
PROOF
  <1> DEFINE f == Head(channel)
  <1>1. channel \in Seq(Files) /\ channel # << >>
    BY DEF IInv, TypeOK, Drain
  <1>2. /\ f \in Files /\ channel' = Tail(channel) /\ channel' \in Seq(Files)
        /\ f = channel[1] /\ 1 \in DOMAIN channel
        /\ \A i \in DOMAIN channel' : i + 1 \in DOMAIN channel /\ channel'[i] = channel[i + 1]
        /\ DOMAIN channel' \subseteq Nat
    BY <1>1, HeadTailProperties DEF Drain
  <1>3. read[f] \in Contents \ Trivial
    BY <1>2 DEF IInv, Distinct, Meaning
  <1>4. Upsert(f, read[f])
    BY DEF Drain
  <1> HIDE DEF f
  <1>5. /\ rows' \in [Files -> Row \union {NoRow}] /\ indexed' \in Nat /\ clean' \in BOOLEAN
        /\ SummaryMatchesHash' /\ HasRow \subseteq HasRow'
    BY <1>2, <1>3, <1>4, UpsertHolds DEF IInv
  <1>6. TypeOK'
    BY <1>2, <1>5 DEF IInv, TypeOK, Drain
  <1>7. Shape'
    BY DEF IInv, Shape, Drain
  <1>8. Meaning'
    BY <1>5 DEF IInv, Meaning, Drain
  <1>9. Distinct'
    BY <1>2 DEF IInv, Distinct, Drain
  <1>10. QED
    BY <1>5, <1>6, <1>7, <1>8, <1>9 DEF IInv

LEMMA DrainEndsHolds ==
  ASSUME IInv, DrainEnds
  PROVE  IInv'
PROOF
  <1>1. CASE Exit
    BY <1>1, ExitHolds DEF DrainEnds, storeVars, TypeOK
  <1>2. CASE PathsIndexed
    BY <1>2, PathsIndexedHolds DEF DrainEnds
  <1>3. QED
    BY <1>1, <1>2 DEF DrainEnds

LEMMA ManifestPassHolds ==
  ASSUME IInv, ManifestPass
  PROVE  IInv'
PROOF
  <1>1. pkgRows' \in [Files -> Contents \union {None}] /\ clean' \in BOOLEAN
    <2>1. PICK bad \in SUBSET (Manifests \intersect walked), upserted, cleared \in BOOLEAN :
            LET parsed == {f \in (Manifests \intersect walked) \ bad :
                             f \in Present /\ tree[f] \notin NoDeps}
                ok == upserted /\ (ctxDone => parsed = {})
            IN  /\ pkgRows' = [f \in Files |->
                     CASE ok /\ f \in parsed -> tree[f]
                       [] ok /\ cleared /\ ~ctxDone /\ f \notin walked -> None
                       [] OTHER -> pkgRows[f]]
                /\ clean' = (clean /\ bad = {} /\ upserted /\ cleared)
      BY DEF ManifestPass
    <2> DEFINE parsed == {f \in (Manifests \intersect walked) \ bad :
                            f \in Present /\ tree[f] \notin NoDeps}
               ok == upserted /\ (ctxDone => parsed = {})
               kept(f) == CASE ok /\ f \in parsed -> tree[f]
                            [] ok /\ cleared /\ ~ctxDone /\ f \notin walked -> None
                            [] OTHER -> pkgRows[f]
    <2>2. pkgRows' = [f \in Files |-> kept(f)]
      BY <2>1
    <2>3. clean' \in BOOLEAN
      BY <2>1
    <2>4. ASSUME NEW f \in Files
          PROVE  kept(f) \in Contents \union {None}
      <3>1. tree[f] \in Contents \union {None} /\ pkgRows[f] \in Contents \union {None}
        BY DEF IInv, TypeOK
      <3> HIDE DEF ok, parsed
      <3>2. CASE ok /\ f \in parsed
        <4>1. f \in walked
          BY <3>2 DEF parsed
        <4>2. QED
          BY <3>1, <3>2, <4>1
      <3>3. CASE ~(ok /\ f \in parsed)
        BY <3>1, <3>3
      <3>4. QED
        BY <3>2, <3>3
    <2> HIDE DEF kept
    <2>5. QED
      BY <2>2, <2>3, <2>4
  <1>2. pc = "manifests" /\ pc' = "dirs"
        /\ UNCHANGED <<tree, rows, dirRows, localVars, fresh, called, runs, edits>>
    BY DEF ManifestPass
  <1>3. TypeOK'
    BY <1>1, <1>2 DEF IInv, TypeOK, localVars, poolVars
  <1>4. Shape'
    BY <1>2 DEF IInv, Shape, localVars, poolVars
  <1>5. Meaning'
    BY <1>2, MeaningFrame DEF IInv, localVars, poolVars
  <1>6. Distinct'
    BY <1>2, DistinctFrame DEF IInv, localVars, poolVars
  <1>7. QED
    BY <1>3, <1>4, <1>5, <1>6 DEF IInv

LEMMA DirectoryPassHolds ==
  ASSUME IInv, DirectoryPass
  PROVE  IInv'
PROOF
  <1> DEFINE asked == IF indexed = 0 \/ ctxDone THEN {}
                      ELSE {DirOf[f] : f \in {g \in HasRow : rows[g].summary # None}}
  <1>1. asked \subseteq Dirs
    BY FilesAssumption DEF HasRow
  <1>2. /\ called' = (called \/ asked # {})
        /\ \E answered \in SUBSET asked :
             /\ dirRows' = dirRows \union answered
             /\ clean' = (clean /\ answered = asked)
    BY DEF DirectoryPass
  <1> HIDE DEF asked
  <1>3. TypeOK => dirRows' \subseteq Dirs
    BY <1>1, <1>2 DEF TypeOK
  <1>4. clean' \in BOOLEAN /\ called' \in BOOLEAN
    BY <1>2
  <1>5. Exit /\ UNCHANGED <<tree, rows, pkgRows, fresh, runs, edits>>
    BY DEF DirectoryPass
  <1>6. TypeOK => /\ tree' \in [Files -> Contents \union {None}]
                  /\ pkgRows' \in [Files -> Contents \union {None}]
                  /\ fresh' \in BOOLEAN
                  /\ runs' \in 0..MaxRuns /\ edits' \in 0..MaxEdits
    BY <1>5 DEF TypeOK
  <1>7. QED
    BY <1>3, <1>4, <1>5, <1>6, ExitHolds

LEMMA CloseResultsHolds ==
  ASSUME IInv, CloseResults
  PROVE  IInv'
PROOF
  <1>1. TypeOK'
    BY DEF IInv, TypeOK, CloseResults, storeVars
  <1>2. Shape'
    BY DEF IInv, Shape, CloseResults
  <1>3. Meaning'
    BY MeaningFrame DEF IInv, CloseResults, storeVars
  <1>4. Distinct'
    BY DistinctFrame DEF IInv, CloseResults
  <1>5. QED
    BY <1>1, <1>2, <1>3, <1>4 DEF IInv

LEMMA CancelContextHolds ==
  ASSUME IInv, CancelContext
  PROVE  IInv'
PROOF
  <1>1. TypeOK'
    BY DEF IInv, TypeOK, CancelContext, storeVars, poolVars
  <1>2. Shape'
    BY DEF IInv, Shape, CancelContext, poolVars
  <1>3. Meaning'
    BY MeaningFrame DEF IInv, CancelContext, storeVars, poolVars
  <1>4. Distinct'
    BY DistinctFrame DEF IInv, CancelContext, poolVars
  <1>5. QED
    BY <1>1, <1>2, <1>3, <1>4 DEF IInv

LEMMA CrashHolds ==
  ASSUME IInv, Crash
  PROVE  IInv'
PROOF BY ExitHolds DEF Crash, storeVars, TypeOK

LEMMA EditHolds ==
  ASSUME IInv, NEW f \in Files, NEW c \in Contents \union {None}, Edit(f, c)
  PROVE  IInv'
PROOF
  <1>1. TypeOK'
    <2>1. /\ tree' \in [Files -> Contents \union {None}]
          /\ clean' \in BOOLEAN /\ fresh' \in BOOLEAN
      BY DEF IInv, TypeOK, Edit
    <2>2. edits' \in 0..MaxEdits
      BY SizesAssumption DEF IInv, TypeOK, Edit
    <2>3. QED
      BY <2>1, <2>2 DEF IInv, TypeOK, Edit, storeVars, localVars, poolVars
  <1>2. Shape'
    BY DEF IInv, Shape, Edit, localVars, poolVars
  <1>3. Meaning'
    BY MeaningFrame DEF IInv, Edit, storeVars, localVars, poolVars
  <1>4. Distinct'
    BY DistinctFrame DEF IInv, Edit, localVars, poolVars
  <1>5. QED
    BY <1>1, <1>2, <1>3, <1>4 DEF IInv

\* What a batch goroutine may change: its own phase and results, and never
\* what another one holds.
LEMMA CallModelHolds ==
  ASSUME IInv, NEW b \in DOMAIN batches, CallModel(b)
  PROVE  IInv'
PROOF
  <1>1. /\ worker[b].phase = "started" /\ worker[b].left = {}
        /\ worker \in [DOMAIN batches -> [phase : Phases, left : SUBSET Files]]
    BY DEF IInv, TypeOK, Distinct, CallModel
  <1>2. PICK p \in {"dropped", "calling"} :
          worker' = [worker EXCEPT ![b] = [phase |-> p, left |-> {}]]
    BY DEF CallModel, SetWorker
  <1>3. /\ worker'[b].phase = p /\ worker'[b].left = {}
        /\ \A a \in DOMAIN batches : a # b => worker'[a] = worker[a]
        /\ UNCHANGED <<batches, channel, closed, launched, pc, trivial>>
    BY <1>1, <1>2 DEF CallModel
  <1>4. TypeOK'
    <2>1. worker' \in [DOMAIN batches' -> [phase : Phases, left : SUBSET Files]]
      BY <1>1, <1>2, <1>3 DEF Phases
    <2>2. groupGone' \in BOOLEAN /\ called' \in BOOLEAN
      BY DEF IInv, TypeOK, CallModel
    <2>3. QED
      BY <1>3, <2>1, <2>2 DEF IInv, TypeOK, CallModel, storeVars
  <1>5. Shape'
    BY <1>1, <1>3 DEF IInv, Shape, Over
  <1>6. Meaning'
    BY MeaningFrame DEF IInv, CallModel, storeVars
  <1>7. Distinct'
    BY <1>1, <1>3 DEF IInv, Distinct
  <1>8. QED
    BY <1>4, <1>5, <1>6, <1>7 DEF IInv

LEMMA ModelFailsHolds ==
  ASSUME IInv, NEW b \in DOMAIN batches, ModelFails(b)
  PROVE  IInv'
PROOF
  <1>1. /\ worker[b].phase = "calling" /\ worker[b].left = {}
        /\ worker \in [DOMAIN batches -> [phase : Phases, left : SUBSET Files]]
    BY DEF IInv, TypeOK, Distinct, ModelFails
  <1>2. PICK p \in {"dropped", "failed"} :
          worker' = [worker EXCEPT ![b] = [phase |-> p, left |-> {}]]
    BY DEF ModelFails, SetWorker
  <1>3. /\ worker'[b].phase = p /\ worker'[b].left = {}
        /\ \A a \in DOMAIN batches : a # b => worker'[a] = worker[a]
        /\ UNCHANGED <<batches, channel, closed, launched, pc, trivial>>
    BY <1>1, <1>2 DEF ModelFails
  <1>4. TypeOK'
    <2>1. worker' \in [DOMAIN batches' -> [phase : Phases, left : SUBSET Files]]
      BY <1>1, <1>2, <1>3 DEF Phases
    <2>2. groupGone' \in BOOLEAN /\ clean' \in BOOLEAN
      BY DEF IInv, TypeOK, ModelFails
    <2>3. QED
      BY <1>3, <2>1, <2>2 DEF IInv, TypeOK, ModelFails, storeVars
  <1>5. Shape'
    BY <1>1, <1>3 DEF IInv, Shape, Over
  <1>6. Meaning'
    BY MeaningFrame DEF IInv, ModelFails, storeVars
  <1>7. Distinct'
    BY <1>1, <1>3 DEF IInv, Distinct
  <1>8. QED
    BY <1>4, <1>5, <1>6, <1>7 DEF IInv

LEMMA ModelAnswersHolds ==
  ASSUME IInv, NEW b \in DOMAIN batches, ModelAnswers(b)
  PROVE  IInv'
PROOF
  <1>1. /\ worker[b].phase = "calling"
        /\ worker \in [DOMAIN batches -> [phase : Phases, left : SUBSET Files]]
        /\ batches \in Seq(SUBSET Files)
    BY DEF IInv, TypeOK, ModelAnswers
  <1>2. PICK S \in SUBSET batches[b] :
          worker' = [worker EXCEPT ![b] =
                       [phase |-> IF S = {} THEN "finished" ELSE "sending", left |-> S]]
    BY DEF ModelAnswers, SetWorker
  <1>3. /\ worker'[b].phase = (IF S = {} THEN "finished" ELSE "sending")
        /\ worker'[b].left = S
        /\ \A a \in DOMAIN batches : a # b => worker'[a] = worker[a]
        /\ UNCHANGED <<batches, channel, closed, launched, pc, trivial>>
    BY <1>1, <1>2 DEF ModelAnswers
  <1>4. TypeOK'
    <2>1. S \subseteq Files
      BY <1>1
    <2>2. worker' \in [DOMAIN batches' -> [phase : Phases, left : SUBSET Files]]
      BY <1>1, <1>2, <1>3, <2>1 DEF Phases
    <2>3. clean' \in BOOLEAN
      BY DEF IInv, TypeOK, ModelAnswers
    <2>4. QED
      BY <1>3, <2>2, <2>3 DEF IInv, TypeOK, ModelAnswers, storeVars
  <1>5. Shape'
    BY <1>1, <1>3 DEF IInv, Shape, Over
  <1>6. Meaning'
    BY MeaningFrame DEF IInv, ModelAnswers, storeVars
  <1>7. Distinct'
    <2>1. Distinct
      BY DEF IInv
    <2>2. \A a \in DOMAIN batches :
            /\ worker'[a].left \subseteq batches[a]
            /\ worker'[a].phase = "sending" <=> worker'[a].left # {}
      BY <1>3, <2>1 DEF Distinct
    <2>3. ASSUME NEW i \in DOMAIN channel
          PROVE  \E a \in DOMAIN batches :
                   /\ channel[i] \in batches[a] \ worker'[a].left
                   /\ worker'[a].phase \in {"sending", "finished"}
      <3>1. PICK a \in DOMAIN batches :
              /\ channel[i] \in batches[a] \ worker[a].left
              /\ worker[a].phase \in {"sending", "finished"}
        BY <2>1, <2>3 DEF Distinct
      <3>2. a # b
        BY <1>1, <3>1
      <3>3. QED
        BY <1>3, <3>1, <3>2
    <2>4. QED
      BY <1>3, <2>1, <2>2, <2>3 DEF Distinct
  <1>8. QED
    BY <1>4, <1>5, <1>6, <1>7 DEF IInv

LEMMA SendResultHolds ==
  ASSUME IInv, NEW b \in DOMAIN batches, SendResult(b)
  PROVE  IInv'
PROOF
  <1>1. /\ worker[b].phase = "sending"
        /\ worker \in [DOMAIN batches -> [phase : Phases, left : SUBSET Files]]
        /\ batches \in Seq(SUBSET Files) /\ channel \in Seq(Files)
    BY DEF IInv, TypeOK, SendResult
  <1>2. PICK f \in worker[b].left :
          /\ channel' = Append(channel, f)
          /\ worker' = [worker EXCEPT ![b] =
                [phase |-> IF worker[b].left \ {f} = {} THEN "finished" ELSE "sending",
                 left |-> worker[b].left \ {f}]]
    BY DEF SendResult, SetWorker, Lowest
  <1> DEFINE S == worker[b].left \ {f}
  <1>3. /\ worker'[b].phase = (IF S = {} THEN "finished" ELSE "sending")
        /\ worker'[b].left = S
        /\ \A a \in DOMAIN batches : a # b => worker'[a] = worker[a]
        /\ UNCHANGED <<batches, closed, launched, pc, trivial>>
    BY <1>1, <1>2 DEF SendResult
  <1>4. f \in Files /\ f \in batches[b] /\ S \subseteq Files /\ S \subseteq batches[b]
    BY <1>1, <1>2 DEF IInv, Distinct
  <1>5. TypeOK'
    <2>1. channel' \in Seq(Files)
      BY <1>1, <1>2, <1>4
    <2>2. worker' \in [DOMAIN batches' -> [phase : Phases, left : SUBSET Files]]
      BY <1>1, <1>2, <1>3, <1>4 DEF Phases
    <2>3. QED
      BY <1>3, <2>1, <2>2 DEF IInv, TypeOK, SendResult, storeVars
  <1>6. Shape'
    BY <1>1, <1>3 DEF IInv, Shape, Over
  <1>7. Meaning'
    BY MeaningFrame DEF IInv, SendResult, storeVars
  <1>8. Distinct'
    <2>1. Distinct
      BY DEF IInv
    <2>2. \A a \in DOMAIN batches :
            /\ worker'[a].left \subseteq batches[a]
            /\ worker'[a].phase = "sending" <=> worker'[a].left # {}
      BY <1>3, <1>4, <2>1 DEF Distinct
    <2>3. /\ DOMAIN channel = 1..Len(channel) /\ Len(channel) \in Nat
          /\ DOMAIN channel' = 1..(Len(channel) + 1)
          /\ channel'[Len(channel) + 1] = f
          /\ \A i \in DOMAIN channel : channel'[i] = channel[i]
      BY <1>1, <1>2, <1>4
    <2>4. \A i \in DOMAIN channel : channel[i] # f
      <3>1. SUFFICES ASSUME NEW i \in DOMAIN channel, channel[i] = f
                     PROVE  FALSE
        OBVIOUS
      <3>2. PICK a \in DOMAIN batches : channel[i] \in batches[a] \ worker[a].left
        BY <2>1 DEF Distinct
      <3>3. a = b
        BY <1>4, <2>1, <3>1, <3>2 DEF Distinct
      <3>4. QED
        BY <1>2, <3>1, <3>2, <3>3
    <2>5. ASSUME NEW i \in DOMAIN channel'
          PROVE  \E a \in DOMAIN batches :
                   /\ channel'[i] \in batches[a] \ worker'[a].left
                   /\ worker'[a].phase \in {"sending", "finished"}
      <3>1. CASE i \in DOMAIN channel
        <4>1. PICK a \in DOMAIN batches :
                /\ channel[i] \in batches[a] \ worker[a].left
                /\ worker[a].phase \in {"sending", "finished"}
          BY <2>1, <3>1 DEF Distinct
        <4>2. worker'[a].left \subseteq worker[a].left
          BY <1>3
        <4>3. worker'[a].phase \in {"sending", "finished"}
          BY <1>3, <4>1
        <4>4. QED
          BY <2>3, <3>1, <4>1, <4>2, <4>3
      <3>2. CASE i = Len(channel) + 1
        BY <1>3, <1>4, <2>3, <3>2
      <3>3. QED
        BY <2>3, <2>5, <3>1, <3>2
    <2>6. \A i, j \in DOMAIN channel' : channel'[i] = channel'[j] => i = j
      BY <2>1, <2>3, <2>4 DEF Distinct
    <2>7. QED
      BY <1>3, <2>1, <2>2, <2>5, <2>6 DEF Distinct
  <1>9. QED
    BY <1>5, <1>6, <1>7, <1>8 DEF IInv

\* One step per action of Next.
LEMMA NextHolds ==
  ASSUME IInv, [Next]_vars
  PROVE  IInv'
PROOF
  <1>1. CASE UNCHANGED vars
    <2>1. TypeOK'
      BY <1>1 DEF IInv, TypeOK, vars, storeVars, localVars, poolVars
    <2>2. Shape'
      BY <1>1 DEF IInv, Shape, vars, localVars, poolVars
    <2>3. Meaning'
      BY <1>1, MeaningFrame DEF IInv, vars, storeVars, localVars, poolVars
    <2>4. Distinct'
      BY <1>1, DistinctFrame DEF IInv, vars, localVars, poolVars
    <2>5. QED
      BY <2>1, <2>2, <2>3, <2>4 DEF IInv
  <1>2. CASE StartRepo
    BY <1>2, StartHolds DEF StartRepo
  <1>3. CASE StartDiff
    BY <1>3, StartHolds DEF StartDiff
  <1>4. CASE StartReview
    BY <1>4, StartHolds DEF StartReview
  <1>5. CASE Walk
    BY <1>5, WalkHolds
  <1>6. CASE Prune
    BY <1>6, PruneHolds
  <1>7. CASE \E f \in Files : ReadFile(f)
    BY <1>7, ReadFileHolds
  <1>8. CASE ReadAborts
    BY <1>8, ReadAbortsHolds
  <1>9. CASE Split
    BY <1>9, SplitHolds
  <1>10. CASE UpsertTrivial
    BY <1>10, UpsertTrivialHolds
  <1>11. CASE TrivialDone
    BY <1>11, TrivialDoneHolds
  <1>12. CASE Launch
    BY <1>12, LaunchHolds
  <1>13. CASE Drain
    BY <1>13, DrainHolds
  <1>14. CASE DrainEnds
    BY <1>14, DrainEndsHolds
  <1>15. CASE ManifestPass
    BY <1>15, ManifestPassHolds
  <1>16. CASE DirectoryPass
    BY <1>16, DirectoryPassHolds
  <1>17. CASE CloseResults
    BY <1>17, CloseResultsHolds
  <1>18. CASE CancelContext
    BY <1>18, CancelContextHolds
  <1>19. CASE Crash
    BY <1>19, CrashHolds
  <1>20. CASE \E b \in Files : WorkerStep(b)
    BY <1>20, CallModelHolds, ModelAnswersHolds, ModelFailsHolds, SendResultHolds
    DEF WorkerStep
  <1>21. CASE \E f \in Files, c \in Contents \union {None} : Edit(f, c)
    BY <1>21, EditHolds
  <1>22. QED
    BY <1>1, <1>2, <1>3, <1>4, <1>5, <1>6, <1>7, <1>8, <1>9, <1>10, <1>11, <1>12, <1>13,
       <1>14, <1>15, <1>16, <1>17, <1>18, <1>19, <1>20, <1>21
    DEF Next, MainStep

LEMMA Inductive == Spec => []IInv
PROOF
  <1>1. Init => IInv
    BY InitHolds
  <1>2. IInv /\ [Next]_vars => IInv'
    BY NextHolds
  <1>3. QED
    BY <1>1, <1>2, PTL DEF Spec

-----------------------------------------------------------------------------
(* Theorems *)

\* Every variable keeps its type, and so the index rows, the batches and the
\* goroutines' states are always what the code declares them to be.
THEOREM TypeCorrect == Spec => []TypeOK
PROOF
  <1>1. IInv => TypeOK
    BY DEF IInv
  <1>2. QED
    BY <1>1, Inductive, PTL

\* Whatever crashes, edits, failed batches and failed writes: a row of the
\* files table never carries the summary of a content other than the one its
\* hash names (indexPaths stores the hash readAndSplit took).
THEOREM SummariesMatch == Spec => []SummaryMatchesHash
PROOF
  <1>1. IInv => SummaryMatchesHash
    BY DEF IInv, Meaning
  <1>2. QED
    BY <1>1, Inductive, PTL

\* resultCh is closed after the last goroutine that sends on it is over, so
\* no indexing run dies of a send on a closed channel.
THEOREM NeverSendsAfterClose == Spec => []NoSendAfterClose
PROOF
  <1>1. IInv => NoSendAfterClose
    BY DEF IInv, Shape, NoSendAfterClose, Active, Over
  <1>2. QED
    BY <1>1, Inductive, PTL

LEMMA RoomForOneMore ==
  ASSUME IInv
  PROVE  SendersNeverBlock
PROOF
  <1>1. SUFFICES ASSUME NEW b \in DOMAIN batches, worker[b].phase = "sending"
                 PROVE  Len(channel) < Capacity
    BY DEF SendersNeverBlock
  <1> DEFINE all == UNION {batches[a] : a \in DOMAIN batches}
  <1>2. PICK f : f \in worker[b].left
    BY <1>1 DEF IInv, Distinct
  <1>3. f \in all
    BY <1>2 DEF IInv, Distinct
  <1>4. all \in SUBSET Files
    BY DEF IInv, TypeOK
  <1>5. IsFiniteSet(all) /\ Cardinality(all) \in Nat
    BY <1>4, CardType
  <1>6. channel \in Seq(Files) /\ Len(channel) \in Nat /\ DOMAIN channel = 1..Len(channel)
    BY DEF IInv, TypeOK
  <1>7. \A i \in DOMAIN channel : channel[i] \in all \ {f}
    <2>1. SUFFICES ASSUME NEW i \in DOMAIN channel
                   PROVE  channel[i] \in all \ {f}
      OBVIOUS
    <2>2. PICK a \in DOMAIN batches : channel[i] \in batches[a] \ worker[a].left
      BY DEF IInv, Distinct
    <2>3. channel[i] # f
      <3>1. CASE a = b
        BY <1>2, <2>2, <3>1
      <3>2. CASE a # b
        BY <1>2, <2>2, <3>2 DEF IInv, Distinct
      <3>3. QED
        BY <3>1, <3>2
    <2>4. QED
      BY <2>2, <2>3
  <1> HIDE DEF all
  <1>8. IsFiniteSet(all \ {f}) /\ Cardinality(all \ {f}) = Cardinality(all) - 1
    BY <1>3, <1>5, FS_RemoveElement
  <1> DEFINE k == Len(channel)
             rest == all \ {f}
  <1>9. k <= Cardinality(rest)
    <2>1. channel \in [1..k -> rest]
      BY <1>6, <1>7
    <2>2. \A i, j \in 1..k : channel[i] = channel[j] => i = j
      BY <1>6 DEF IInv, Distinct
    <2>3. channel \in Injection(1..k, rest)
      BY <2>1, <2>2 DEF Injection, IsInjective
    <2>4. k \in Nat /\ IsFiniteSet(rest)
      BY <1>6, <1>8
    <2> HIDE DEF k, rest
    <2>5. IsFiniteSet(1..k) /\ Cardinality(1..k) = k
      <3>1. 1 \in Int /\ k \in Int /\ (IF 1 > k THEN 0 ELSE k - 1 + 1) = k
        BY <2>4
      <3>2. QED
        BY <3>1, FS_Interval, Zenon
    <2>6. Cardinality(1..k) <= Cardinality(rest)
      BY <2>3, <2>4, FS_Injection
    <2>7. QED
      BY <2>5, <2>6
  <1>10. QED
    BY <1>5, <1>6, <1>8, <1>9 DEF Capacity, all

\* For every number of files, batch size and number of slots, a goroutine
\* with a result to send finds room in resultCh: g.Go, which drains nothing,
\* never waits on a slot whose holder waits on it.
THEOREM SendersHaveRoom == Spec => []SendersNeverBlock
PROOF
  <1>1. IInv => SendersNeverBlock
    BY RoomForOneMore
  <1>2. QED
    BY <1>1, Inductive, PTL

\* Only the pruning of an IndexRepo run removes a row, and only that of a path
\* its listing lacks: failures and partial runs never take a summary away.
THEOREM RowsSurvive == Spec => RowsOutliveFailures
PROOF
  <1> DEFINE Survive == \A f \in HasRow : rows'[f] = NoRow => pc = "prune" /\ f \notin walked
  <1>1. ASSUME IInv, Next
        PROVE  Survive
    <2>1. CASE Prune
      BY <2>1 DEF Prune, HasRow
    <2>2. CASE UpsertTrivial
      BY <1>1, <2>2, UpsertTrivialHolds DEF HasRow
    <2>3. CASE Drain
      BY <1>1, <2>3, DrainHolds DEF HasRow
    <2>4. CASE UNCHANGED rows
      BY <2>4 DEF HasRow
    <2>5. QED
      <3>1. Prune \/ UpsertTrivial \/ Drain \/ UNCHANGED rows
        BY <1>1
        DEF Next, StartRepo, StartDiff, StartReview, Start, MainStep, Walk, ReadFile, ReadAborts,
            Split, TrivialDone, Launch, DrainEnds, ManifestPass, DirectoryPass, CloseResults,
            CancelContext, Crash, WorkerStep, CallModel, ModelAnswers, ModelFails, SendResult,
            Edit, storeVars
      <3>2. QED
        BY <2>1, <2>2, <2>3, <2>4, <3>1
  <1>2. IInv /\ [Next]_vars => [Survive]_vars
    BY <1>1
  <1>3. QED
    BY <1>2, Inductive, PTL DEF Spec, RowsOutliveFailures
-----------------------------------------------------------------------------
(* A re-index of an unchanged tree *)

\* What a run holds are files it was given, and it starts with nothing.
Held ==
  /\ HasRow \subseteq Indexable
  /\ trivial \subseteq targets
  /\ \A b \in DOMAIN batches : batches[b] \subseteq targets
  /\ pc = "exited" => ~ctxDone /\ ~groupGone /\ indexed = 0
  /\ pc \in {"exited", "walk", "prune"} => \A f \in Files : read[f] = "unread"

LEMMA EmptySequence ==
  ASSUME NEW S, NEW s \in Seq(S), DOMAIN s = {}
  PROVE  s = << >>
PROOF
  <1>1. Len(s) \in Nat /\ DOMAIN s = 1..Len(s)
    OBVIOUS
  <1>2. Len(s) = 0
    BY <1>1
  <1> QED
    BY <1>2

\* What waits in the channel is a file of a batch.
LEMMA HeadOfChannel ==
  ASSUME IInv, channel # << >>
  PROVE  /\ Len(channel) >= 1 /\ 1 \in DOMAIN channel /\ Head(channel) = channel[1]
         /\ Head(channel) \in Files
         /\ \E b \in DOMAIN batches : Head(channel) \in batches[b]
PROOF
  <1>1. channel \in Seq(Files) /\ Len(channel) \in Nat /\ DOMAIN channel = 1..Len(channel)
    BY DEF IInv, TypeOK
  <1>2. Len(channel) >= 1 /\ 1 \in DOMAIN channel /\ Head(channel) = channel[1]
    BY <1>1
  <1> QED
    BY <1>1, <1>2 DEF IInv, Distinct

LEMMA HeldExit ==
  ASSUME Held, Exit, rows' = rows
  PROVE  Held'
PROOF BY DEF Held, Exit, HasRow

LEMMA HeldFrame ==
  ASSUME Held, UNCHANGED <<rows, targets, trivial, batches, read, ctxDone, groupGone, indexed>>,
         pc' \in {"exited", "walk", "prune"} => pc' = pc
  PROVE  Held'
PROOF BY DEF Held, HasRow

LEMMA HeldNext ==
  ASSUME IInv, Held, [Next]_vars
  PROVE  Held'
PROOF
  <1> USE DEF storeVars, localVars, poolVars
  <1>0. targets \subseteq Indexable /\ Indexable \subseteq Files /\ rows \in [Files -> Row \union {NoRow}]
    BY FilesAssumption DEF IInv, TypeOK
  <1>a. pc \in {"exited", "walk", "prune", "read"} => trivial = {} /\ batches = << >>
    BY DEF IInv, Shape
  <1>1. CASE UNCHANGED vars
    BY <1>1, HeldFrame DEF vars
  <1>2. ASSUME NEW m, NEW paths, Start(m, paths) PROVE Held'
    BY <1>a, <1>2 DEF Start, Held, HasRow
  <1>3. CASE Walk
    BY <1>a, <1>3 DEF Walk, Held, HasRow
  <1>4. CASE Prune
    <2>1. HasRow' \subseteq HasRow
      BY <1>4 DEF Prune, HasRow
    <2> QED
      BY <1>4, <2>1 DEF Prune, Held
  <1>5. ASSUME NEW f \in Files, ReadFile(f) PROVE Held'
    BY <1>a, <1>5 DEF ReadFile, Held, HasRow
  <1>6. CASE ReadAborts
    BY <1>6, HeldExit DEF ReadAborts
  <1>7. CASE Split
    <2> DEFINE changed == {f \in {g \in targets : read[g] # None} :
                             mode = "full" \/ ctxDone \/ ~UpToDate(f, read[f])}
               small == {f \in changed : read[f] \in Trivial}
               rest == changed \ small
    <2>1. trivial' = small /\ batches' = BuildBatches(rest)
      BY <1>7 DEF Split
    <2>2. small \subseteq targets /\ rest \subseteq targets /\ rest \in SUBSET Files
      BY <1>0
    <2> HIDE DEF small, rest
    <2>3. BuildBatches(rest) \in Seq(SUBSET rest)
      BY <2>2, BatchesBuilt
    <2>4. \A b \in DOMAIN batches' : batches'[b] \subseteq targets
      BY <2>1, <2>2, <2>3
    <2> QED
      BY <1>7, <2>1, <2>2, <2>4 DEF Split, Held, HasRow
  <1>8. CASE UpsertTrivial
    <2>1. PICK f \in trivial : Upsert(f, None) /\ trivial' = trivial \ {f}
      BY <1>8 DEF UpsertTrivial, Lowest
    <2>2. HasRow' \subseteq HasRow \union {f}
      BY <1>0, <2>1 DEF Upsert, HasRow
    <2> QED
      BY <1>0, <1>8, <2>1, <2>2 DEF UpsertTrivial, Held
  <1>9. CASE TrivialDone
    <2>1. CASE Exit
      BY <1>9, <2>1, HeldExit DEF TrivialDone
    <2>2. CASE pc' \in {"manifests", "launch"} /\ UNCHANGED localVars
      BY <1>9, <2>2, HeldFrame DEF TrivialDone
    <2> QED
      BY <1>9, <2>1, <2>2 DEF TrivialDone, PathsIndexed
  <1>10. CASE Launch
    BY <1>10, HeldFrame DEF Launch
  <1>11. CASE Drain
    <2>1. /\ Upsert(Head(channel), read[Head(channel)])
          /\ \E b \in DOMAIN batches : Head(channel) \in batches[b]
      BY <1>11, HeadOfChannel DEF Drain
    <2>2. HasRow' \subseteq HasRow \union {Head(channel)}
      BY <1>0, <2>1 DEF Upsert, HasRow
    <2>3. Head(channel) \in Indexable
      BY <1>0, <2>1 DEF Held
    <2> QED
      BY <1>11, <2>2, <2>3 DEF Drain, Held
  <1>12. CASE DrainEnds
    <2>1. CASE Exit
      BY <1>12, <2>1, HeldExit DEF DrainEnds
    <2>2. CASE pc' = "manifests" /\ UNCHANGED localVars
      BY <1>12, <2>2, HeldFrame DEF DrainEnds
    <2> QED
      BY <1>12, <2>1, <2>2 DEF DrainEnds, PathsIndexed
  <1>13. CASE ManifestPass
    BY <1>13, HeldFrame DEF ManifestPass
  <1>14. CASE DirectoryPass
    BY <1>14, HeldExit DEF DirectoryPass
  <1>15. CASE CloseResults
    BY <1>15, HeldFrame DEF CloseResults
  <1>16. CASE CancelContext
    BY <1>16 DEF CancelContext, Held, HasRow
  <1>17. CASE Crash
    BY <1>17, HeldExit DEF Crash
  <1>18. ASSUME NEW b \in Files, WorkerStep(b) PROVE Held'
    <2>1. pc # "exited"
      <3>1. b \in DOMAIN batches
        BY <1>18 DEF WorkerStep
      <3> QED
        BY <1>a, <3>1
    <2>2. UNCHANGED <<rows, targets, trivial, batches, read, ctxDone, indexed, pc>>
      BY <1>18 DEF WorkerStep, CallModel, ModelAnswers, ModelFails, SendResult
    <2> QED
      BY <2>1, <2>2 DEF Held, HasRow
  <1>19. ASSUME NEW f \in Files, NEW c, Edit(f, c) PROVE Held'
    BY <1>19, HeldFrame DEF Edit
  <1> QED
    BY <1>1, <1>2, <1>3, <1>4, <1>5, <1>6, <1>7, <1>8, <1>9, <1>10, <1>11, <1>12, <1>13,
       <1>14, <1>15, <1>16, <1>17, <1>18, <1>19
    DEF Next, MainStep, StartRepo, StartDiff, StartReview

LEMMA HeldAlways == Spec => [](IInv /\ Held)
PROOF
  <1>1. Init => Held
    BY DEF Init, Idle, Held, HasRow
  <1>2. IInv /\ Held /\ [Next]_vars => (IInv /\ Held)'
    BY NextHolds, HeldNext
  <1> QED
    BY <1>1, <1>2, InitHolds, PTL DEF Spec

LEMMA NoGroup == \A k \in Nat \ {0} : (0 + k - 1) \div k = 0
PROOF OBVIOUS

LEMMA NothingToBatch == BuildBatches({}) = << >>
PROOF
  <1>1. LargeOf({}) = {} /\ {} \ {} = {}
    BY DEF LargeOf
  <1>2. Cardinality({}) = 0
    BY FS_EmptySet
  <1> DEFINE first == [i \in 1..0 |-> {f \in {} : Rank({}, f) = i}]
             second == [k \in 1..0 |-> {f \in {} : (Rank({}, f) - 1) \div BatchSize = k - 1}]
  <1>3. (0 + BatchSize - 1) \div BatchSize = 0
    BY NoGroup, SizesAssumption
  <1>4. BuildBatches({}) = first \o second
    BY <1>1, <1>2, <1>3 DEF BuildBatches
  <1>5. first = << >> /\ second = << >>
    OBVIOUS
  <1>6. << >> \o << >> = << >>
    OBVIOUS
  <1> QED
    BY <1>4, <1>5, <1>6

\* An incremental run over rows that all match the tree finds nothing to do:
\* what it would write or send, it does only once it has been cancelled.
Unneeded ==
  fresh /\ mode = "repo" =>
    /\ ~called
    /\ pc # "exited" =>
         /\ \A f \in Indexable \intersect Present : UpToDate(f, tree[f])
         /\ indexed = 0
         /\ \A f \in Files : read[f] \in {tree[f], None, "unread"}
         /\ trivial # {} \/ batches # << >> => ctxDone
         /\ pc = "prune" => walked = Present

LEMMA UnneededExit ==
  ASSUME Unneeded, Exit, fresh' => fresh, called' => called
  PROVE  Unneeded'
PROOF BY DEF Unneeded, Exit

LEMMA UnneededFrame ==
  ASSUME Unneeded, fresh' => fresh, called' => called, pc # "exited", ctxDone => ctxDone',
         UNCHANGED <<tree, rows, mode, read, indexed, trivial, batches, walked>>,
         pc' = "prune" => pc = "prune"
  PROVE  Unneeded'
PROOF BY DEF Unneeded, UpToDate, Present

LEMMA UnneededNext ==
  ASSUME IInv, Held, Unneeded, [Next]_vars
  PROVE  Unneeded'
PROOF
  <1> USE DEF storeVars, localVars, poolVars
  <1>0. /\ targets \subseteq Indexable /\ Indexable \subseteq Files /\ walked \subseteq Files
        /\ rows \in [Files -> Row \union {NoRow}] /\ tree \in [Files -> Contents \union {None}]
        /\ read \in [Files -> Contents \union {None, "unread"}]
    BY FilesAssumption DEF IInv, TypeOK
  <1>a. pc \in {"exited", "walk", "prune", "read"} => trivial = {} /\ batches = << >>
    BY DEF IInv, Shape
  <1>1. CASE UNCHANGED vars
    BY <1>1 DEF vars, Unneeded, UpToDate, Present
  <1>2. ASSUME NEW m, NEW paths, Start(m, paths) PROVE Unneeded'
    <2>1. pc = "exited" /\ indexed = 0 /\ \A f \in Files : read[f] = "unread"
      BY <1>2 DEF Start, Held
    <2> QED
      BY <1>a, <1>2, <2>1 DEF Start, Unneeded, UpToDate, Present
  <1>3. CASE Walk
    BY <1>3 DEF Walk, Unneeded, UpToDate, Present
  <1>4. CASE Prune
    <2>1. fresh /\ mode = "repo" => \A f \in Indexable \intersect Present : rows'[f] = rows[f]
      BY <1>0, <1>4 DEF Prune, Unneeded, Present
    <2> QED
      BY <1>4, <2>1 DEF Prune, Unneeded, UpToDate, Present
  <1>5. ASSUME NEW f \in Files, ReadFile(f) PROVE Unneeded'
    <2>1. \A g \in Files : read'[g] = read[g] \/ read'[g] \in {tree[g], None}
      BY <1>0, <1>5 DEF ReadFile
    <2> QED
      BY <1>5, <2>1 DEF ReadFile, Unneeded, UpToDate, Present
  <1>6. CASE ReadAborts
    BY <1>6, UnneededExit DEF ReadAborts
  <1>7. CASE Split
    <2> DEFINE changed == {f \in {g \in targets : read[g] # None} :
                             mode = "full" \/ ctxDone \/ ~UpToDate(f, read[f])}
               small == {f \in changed : read[f] \in Trivial}
               rest == changed \ small
    <2>1. /\ trivial' = small /\ batches' = BuildBatches(rest)
          /\ pc = "read" /\ pc' = "trivial" /\ \A f \in targets : read[f] # "unread"
          /\ UNCHANGED <<tree, rows, mode, read, indexed, ctxDone, fresh, called>>
      BY <1>7 DEF Split
    <2>2. ASSUME fresh, mode = "repo", ~ctxDone PROVE changed = {}
      <3> SUFFICES ASSUME NEW f \in targets, read[f] # None, ~UpToDate(f, read[f]) PROVE FALSE
        BY <2>2
      <3>1. f \in Files /\ f \in Indexable /\ read[f] = tree[f]
        BY <1>0, <2>1, <2>2 DEF Unneeded
      <3> QED
        BY <2>1, <2>2, <3>1 DEF Unneeded, Present
    <2>3. ASSUME fresh, mode = "repo", ~ctxDone PROVE trivial' = {} /\ batches' = << >>
      <3>1. small = {} /\ rest = {}
        BY <2>2, <2>3
      <3> HIDE DEF small, rest
      <3> QED
        BY <2>1, <3>1, NothingToBatch
    <2> QED
      BY <2>1, <2>3 DEF Unneeded, UpToDate, Present
  <1>8. CASE UpsertTrivial
    <2>1. PICK f \in trivial : Upsert(f, None)
      BY <1>8 DEF UpsertTrivial, Lowest
    <2>2. ASSUME fresh, mode = "repo" PROVE ctxDone /\ UNCHANGED <<rows, indexed>>
      BY <1>8, <2>1, <2>2 DEF UpsertTrivial, Upsert, Unneeded
    <2> QED
      BY <1>8, <2>2 DEF UpsertTrivial, Unneeded, UpToDate, Present
  <1>9. CASE TrivialDone
    <2>1. CASE Exit
      BY <1>9, <2>1, UnneededExit DEF TrivialDone
    <2>2. CASE pc' \in {"manifests", "launch"} /\ UNCHANGED localVars
      BY <1>9, <2>2, UnneededFrame DEF TrivialDone
    <2> QED
      BY <1>9, <2>1, <2>2 DEF TrivialDone, PathsIndexed
  <1>10. CASE Launch
    BY <1>10, UnneededFrame DEF Launch
  <1>11. CASE Drain
    <2>1. pc = "drain" /\ channel # << >> /\ Upsert(Head(channel), read[Head(channel)])
      BY <1>11 DEF Drain
    <2>2. batches # << >>
      BY <2>1, HeadOfChannel
    <2>3. ASSUME fresh, mode = "repo" PROVE ctxDone /\ UNCHANGED <<rows, indexed>>
      BY <2>1, <2>2, <2>3 DEF Upsert, Unneeded
    <2> QED
      BY <1>11, <2>3 DEF Drain, Unneeded, UpToDate, Present
  <1>12. CASE DrainEnds
    <2>1. CASE Exit
      BY <1>12, <2>1, UnneededExit DEF DrainEnds
    <2>2. CASE pc' = "manifests" /\ UNCHANGED localVars
      BY <1>12, <2>2, UnneededFrame DEF DrainEnds
    <2> QED
      BY <1>12, <2>1, <2>2 DEF DrainEnds, PathsIndexed
  <1>13. CASE ManifestPass
    BY <1>13, UnneededFrame DEF ManifestPass
  <1>14. CASE DirectoryPass
    <2>1. fresh /\ mode = "repo" => indexed = 0
      BY <1>14 DEF DirectoryPass, Unneeded
    <2>2. fresh /\ mode = "repo" => called' = called
      BY <1>14, <2>1 DEF DirectoryPass, IInv, TypeOK
    <2> QED
      BY <1>14, <2>2 DEF DirectoryPass, Exit, Unneeded
  <1>15. CASE CloseResults
    BY <1>15, UnneededFrame DEF CloseResults
  <1>16. CASE CancelContext
    BY <1>16, UnneededFrame DEF CancelContext
  <1>17. CASE Crash
    BY <1>17, UnneededExit DEF Crash
  <1>18. ASSUME NEW b \in Files, WorkerStep(b) PROVE Unneeded'
    <2>1. batches # << >> /\ pc # "exited"
      <3>1. b \in DOMAIN batches
        BY <1>18 DEF WorkerStep
      <3> QED
        BY <1>a, <3>1
    <2>2. /\ UNCHANGED <<tree, rows, mode, read, indexed, trivial, batches, walked, pc, ctxDone, fresh>>
          /\ called' = called \/ (called' = TRUE /\ ~GroupDone)
      BY <1>18 DEF WorkerStep, CallModel, ModelAnswers, ModelFails, SendResult
    <2>3. fresh /\ mode = "repo" => GroupDone
      BY <2>1 DEF Unneeded, GroupDone
    <2> QED
      BY <2>1, <2>2, <2>3 DEF Unneeded, UpToDate, Present
  <1>19. ASSUME NEW f \in Files, NEW c, Edit(f, c) PROVE Unneeded'
    BY <1>19 DEF Edit, Unneeded
  <1> QED
    BY <1>1, <1>2, <1>3, <1>4, <1>5, <1>6, <1>7, <1>8, <1>9, <1>10, <1>11, <1>12, <1>13,
       <1>14, <1>15, <1>16, <1>17, <1>18, <1>19
    DEF Next, MainStep, StartRepo, StartDiff, StartReview

\* An incremental index of a tree that did not change since its rows were
\* written sends no request to the model, also when it is cancelled midway
\* and the content-hash guard no longer works.
THEOREM UnchangedIsFree == Spec => []NoChangeIsFree
PROOF
  <1>1. Init => Unneeded
    BY DEF Init, Unneeded
  <1>2. Unneeded => NoChangeIsFree
    BY DEF Unneeded, NoChangeIsFree
  <1> QED
    BY <1>1, <1>2, UnneededNext, HeldAlways, PTL DEF Spec

-----------------------------------------------------------------------------
(* An undisturbed run over whatever earlier runs left *)

\* A file the run still has to write: its row, or its summary, is on its way.
InBatch(f, b) ==
  /\ f \in batches[b]
  /\ \/ worker[b].phase \in {"queued", "started", "calling"}
     \/ f \in worker[b].left
     \/ \E i \in DOMAIN channel : channel[i] = f
Waiting(f) == f \in trivial \/ \E b \in DOMAIN batches : InBatch(f, b)

Exact == \A f \in Files : rows[f].hash = IF f \in Indexable THEN tree[f] ELSE None

\* As long as nothing went wrong, every target's row is right or on its way,
\* and no other row is left.
Undisturbed ==
  clean /\ mode # "diff" =>
    /\ ~ctxDone /\ ~groupGone
    /\ pc \notin {"exited", "walk"} => targets = Present \intersect Indexable
    /\ pc = "prune" => walked = Present
    /\ pc \notin {"exited", "walk", "prune"} => HasRow \subseteq Present
    /\ pc = "read" => \A f \in targets : read[f] \in {"unread", tree[f]}
    /\ pc \in {"trivial", "launch", "drain"} =>
         \A f \in targets : read[f] = tree[f] /\ (UpToDate(f, tree[f]) \/ Waiting(f))
    /\ pc \in {"launch", "drain"} => trivial = {}
    /\ pc \in {"manifests", "dirs"} => \A f \in targets : UpToDate(f, tree[f])
    /\ pc = "exited" => Exact

LEMMA UndisturbedFrame ==
  ASSUME Undisturbed, clean' => clean, pc' = pc,
         UNCHANGED <<tree, rows, mode, walked, targets, read, trivial, batches, worker, channel,
                     ctxDone, groupGone>>
  PROVE  Undisturbed'
PROOF BY DEF Undisturbed, UpToDate, Waiting, InBatch, Present, HasRow, Exact

\* A goroutine of the run takes a step: no target is forgotten.
LEMMA UndisturbedWorker ==
  ASSUME IInv, Held, Undisturbed, NEW b \in DOMAIN batches, WorkerStep(b)
  PROVE  Undisturbed'
PROOF
  <1>1. /\ worker \in [DOMAIN batches -> [phase : Phases, left : SUBSET Files]]
        /\ worker[b].left \subseteq batches[b] /\ channel \in Seq(Files)
    BY DEF IInv, TypeOK, Distinct
  <1>2. /\ UNCHANGED <<tree, rows, pc, mode, walked, targets, read, trivial, batches, ctxDone>>
        /\ clean' => clean
    <2>1. UNCHANGED <<tree, rows, pc, mode, walked, targets, read, trivial, batches, ctxDone>>
      BY DEF WorkerStep, CallModel, ModelAnswers, ModelFails, SendResult, storeVars
    <2>2. clean' = clean \/ clean' = FALSE \/ \E S \in SUBSET batches[b] : clean' = (clean /\ S = batches[b])
      BY DEF WorkerStep, CallModel, ModelAnswers, ModelFails, SendResult
    <2>3. clean \in BOOLEAN
      BY DEF IInv, TypeOK
    <2> QED BY <2>1, <2>2, <2>3
  <1>3. pc \notin {"exited", "walk", "prune", "read"}
    BY DEF IInv, Shape
  <1> SUFFICES ASSUME clean', clean, mode # "diff"
               PROVE  ~groupGone' /\ \A f \in Files : Waiting(f) => Waiting(f)'
    <2>1. targets \subseteq Files
      BY FilesAssumption DEF IInv, TypeOK
    <2> QED
      BY <1>2, <1>3, <2>1 DEF Undisturbed, UpToDate, Present, HasRow
  <1>4. ~GroupDone
    BY DEF Undisturbed, GroupDone
  <1>5. CASE CallModel(b)
    <2>1. /\ worker' = [worker EXCEPT ![b] = [phase |-> "calling", left |-> {}]]
          /\ worker[b].phase = "started"
          /\ UNCHANGED <<groupGone, channel, batches, trivial>>
      BY <1>4, <1>5 DEF CallModel, SetWorker
    <2>2. worker'[b].phase = "calling" /\ \A a \in DOMAIN batches : a # b => worker'[a] = worker[a]
      BY <1>1, <2>1
    <2> QED
      BY <1>4, <2>1, <2>2 DEF GroupDone, Waiting, InBatch
  <1>6. CASE ModelAnswers(b)
    <2>1. PICK S \in SUBSET batches[b] :
            /\ SetWorker(b, IF S = {} THEN "finished" ELSE "sending", S)
            /\ clean' = (clean /\ S = batches[b])
      BY <1>6 DEF ModelAnswers
    <2>2. UNCHANGED <<groupGone, channel, batches, trivial>>
      BY <1>6 DEF ModelAnswers
    <2>3. S = batches[b]
      BY <2>1
    <2>4. worker'[b].left = batches[b] /\ \A a \in DOMAIN batches : a # b => worker'[a] = worker[a]
      BY <1>1, <2>1, <2>3 DEF SetWorker
    <2> QED
      BY <1>4, <2>2, <2>4 DEF GroupDone, Waiting, InBatch
  <1>7. CASE ModelFails(b)
    BY <1>7 DEF ModelFails
  <1>8. CASE SendResult(b)
    <2>1. PICK f \in worker[b].left :
            /\ channel' = Append(channel, f)
            /\ worker' = [worker EXCEPT ![b] =
                 [phase |-> IF worker[b].left \ {f} = {} THEN "finished" ELSE "sending",
                  left |-> worker[b].left \ {f}]]
      BY <1>8 DEF SendResult, SetWorker, Lowest
    <2>2. UNCHANGED <<groupGone, batches, trivial>> /\ worker[b].phase = "sending"
      BY <1>8 DEF SendResult
    <2>3. /\ worker'[b].left = worker[b].left \ {f}
          /\ \A a \in DOMAIN batches : a # b => worker'[a] = worker[a]
      BY <1>1, <2>1
    <2>4. /\ \A i \in DOMAIN channel : i \in DOMAIN channel' /\ channel'[i] = channel[i]
          /\ \E i \in DOMAIN channel' : channel'[i] = f
      <3>1. f \in Files
        BY <1>1, <2>1
      <3>2. /\ DOMAIN channel = 1..Len(channel) /\ Len(channel) \in Nat
            /\ DOMAIN channel' = 1..(Len(channel) + 1)
            /\ channel'[Len(channel) + 1] = f
            /\ \A i \in DOMAIN channel : channel'[i] = channel[i]
        BY <1>1, <2>1, <3>1
      <3> QED BY <3>2
    <2>5. ASSUME NEW g, NEW a \in DOMAIN batches, InBatch(g, a)
          PROVE  InBatch(g, a)'
      <3>1. CASE a # b
        BY <2>2, <2>3, <2>4, <2>5, <3>1 DEF InBatch
      <3>2. CASE a = b
        BY <2>2, <2>3, <2>4, <2>5, <3>2 DEF InBatch
      <3> QED BY <3>1, <3>2
    <2> QED
      BY <1>4, <2>2, <2>5 DEF GroupDone, Waiting
  <1> QED
    BY <1>5, <1>6, <1>7, <1>8 DEF WorkerStep

\* A target is written: its row is right, and the others' are as they were.
LEMMA RowWritten ==
  ASSUME IInv, Undisturbed, clean, mode # "diff", clean',
         pc \in {"trivial", "launch", "drain"},
         NEW f \in targets, NEW summary, Upsert(f, summary), UNCHANGED <<tree, read>>
  PROVE  /\ UpToDate(f, tree[f])' /\ HasRow' \subseteq Present
         /\ \A g \in Files : UpToDate(g, tree[g]) => UpToDate(g, tree[g])'
PROOF
  <1>1. /\ rows' = [rows EXCEPT ![f] = [hash |-> read[f], summary |-> summary]]
        /\ rows \in [Files -> Row \union {NoRow}]
        /\ read[f] = tree[f] /\ f \in Files /\ f \in Present /\ HasRow \subseteq Present
    BY FilesAssumption DEF Upsert, Undisturbed, IInv, TypeOK
  <1> QED
    BY <1>1 DEF UpToDate, HasRow

LEMMA UndisturbedNext ==
  ASSUME IInv, Held, Undisturbed, [Next]_vars
  PROVE  Undisturbed'
PROOF
  <1> USE DEF storeVars, localVars, poolVars
  <1>0. /\ targets \subseteq Indexable /\ Indexable \subseteq Files /\ walked \subseteq Files
        /\ rows \in [Files -> Row \union {NoRow}] /\ tree \in [Files -> Contents \union {None}]
        /\ read \in [Files -> Contents \union {None, "unread"}]
    BY FilesAssumption DEF IInv, TypeOK
  <1>a. pc \in {"exited", "walk", "prune", "read"} => trivial = {} /\ batches = << >>
    BY DEF IInv, Shape
  <1>1. CASE UNCHANGED vars
    BY <1>1, UndisturbedFrame DEF vars
  <1>2. ASSUME NEW m, NEW paths, Start(m, paths) PROVE Undisturbed'
    <2>1. ~ctxDone /\ ~groupGone
      BY <1>2 DEF Start, Held
    <2> QED
      BY <1>2, <2>1 DEF Start, Undisturbed
  <1>3. CASE Walk
    BY <1>3 DEF Walk, Undisturbed, Present
  <1>4. CASE Prune
    <2> SUFFICES ASSUME clean', mode # "diff"
                 PROVE  /\ ~ctxDone /\ ~groupGone /\ targets = Present \intersect Indexable
                        /\ HasRow' \subseteq Present /\ \A f \in targets : read[f] = "unread"
      BY <1>4 DEF Prune, Undisturbed, Present
    <2>1. clean /\ ~ctxDone
      BY <1>4 DEF Prune, Undisturbed
    <2>2. rows' = [f \in Files |-> IF f \in walked THEN rows[f] ELSE NoRow] /\ walked = Present
      BY <1>4, <2>1 DEF Prune, Undisturbed
    <2>3. HasRow' \subseteq Present
      BY <2>2 DEF HasRow
    <2> QED
      BY <1>0, <1>4, <2>1, <2>3 DEF Prune, Undisturbed, Held
  <1>5. ASSUME NEW f \in Files, ReadFile(f) PROVE Undisturbed'
    <2>1. clean' => \A g \in Files : read'[g] = read[g] \/ read'[g] = tree[g]
      BY <1>0, <1>5 DEF ReadFile
    <2> QED
      BY <1>0, <1>5, <2>1 DEF ReadFile, Undisturbed, Present, HasRow
  <1>6. CASE ReadAborts
    BY <1>6 DEF ReadAborts, Exit, Undisturbed
  <1>7. CASE Split
    <2> DEFINE changed == {f \in {g \in targets : read[g] # None} :
                             mode = "full" \/ ctxDone \/ ~UpToDate(f, read[f])}
               small == {f \in changed : read[f] \in Trivial}
               rest == changed \ small
    <2>1. /\ trivial' = small /\ batches' = BuildBatches(rest)
          /\ worker' = [b \in DOMAIN batches' |-> [phase |-> "queued", left |-> {}]]
          /\ pc = "read" /\ pc' = "trivial" /\ \A f \in targets : read[f] # "unread"
          /\ UNCHANGED <<tree, rows, mode, read, ctxDone, groupGone, targets, clean>>
      BY <1>7 DEF Split
    <2> SUFFICES ASSUME clean, mode # "diff"
                 PROVE  \A f \in targets :
                          read[f] = tree[f] /\ (UpToDate(f, tree[f]) \/ Waiting(f)')
      BY <2>1 DEF Undisturbed, UpToDate, Present, HasRow
    <2> SUFFICES ASSUME NEW f \in targets, ~UpToDate(f, tree[f])
                 PROVE  Waiting(f)'
      BY <2>1 DEF Undisturbed
    <2>2. read[f] = tree[f] /\ f \in Present
      BY <2>1 DEF Undisturbed
    <2>3. f \in small \/ f \in rest
      BY <2>2 DEF Present
    <2>4. rest \in SUBSET Files
      BY <1>0
    <2> HIDE DEF small, rest
    <2>5. CASE f \in small
      BY <2>1, <2>5 DEF Waiting
    <2>6. CASE f \in rest
      <3>1. PICK b \in DOMAIN batches' : f \in batches'[b]
        BY <2>1, <2>4, <2>6, BatchesCover
      <3>2. worker'[b].phase = "queued"
        BY <2>1, <3>1
      <3> QED
        BY <3>1, <3>2 DEF Waiting, InBatch
    <2> QED
      BY <2>3, <2>5, <2>6
  <1>8. CASE UpsertTrivial
    <2>1. PICK f \in trivial : Upsert(f, None) /\ trivial' = trivial \ {f}
      BY <1>8 DEF UpsertTrivial, Lowest
    <2>2. /\ f \in targets /\ pc = "trivial"
          /\ UNCHANGED <<tree, pc, mode, read, ctxDone, groupGone, targets, batches, worker, channel>>
      BY <1>8, <2>1 DEF UpsertTrivial, Held
    <2> SUFFICES ASSUME clean', mode # "diff"
                 PROVE  /\ ~ctxDone /\ ~groupGone /\ targets = Present \intersect Indexable
                        /\ HasRow' \subseteq Present
                        /\ \A g \in targets : read[g] = tree[g] /\ (UpToDate(g, tree[g])' \/ Waiting(g)')
      BY <2>2 DEF Undisturbed, Present, UpToDate
    <2>3. clean
      BY <2>1 DEF Upsert
    <2>4. /\ UpToDate(f, tree[f])' /\ HasRow' \subseteq Present
          /\ \A g \in Files : UpToDate(g, tree[g]) => UpToDate(g, tree[g])'
      BY <2>1, <2>2, <2>3, RowWritten
    <2>5. \A g : Waiting(g) => g = f \/ Waiting(g)'
      BY <2>1, <2>2 DEF Waiting, InBatch
    <2> QED
      BY <1>0, <2>2, <2>3, <2>4, <2>5 DEF Undisturbed
  <1>9. CASE TrivialDone
    <2>1. CASE mode = "diff"
      BY <1>9, <2>1 DEF TrivialDone, PathsIndexed, Exit, Undisturbed
    <2>2. CASE mode # "diff" /\ batches = << >>
      <3>1. \A f : ~Waiting(f)
        BY <1>9, <2>2 DEF TrivialDone, Waiting
      <3>2. pc = "trivial" /\ pc' = "manifests" /\ UNCHANGED <<tree, rows, clean, localVars>>
        BY <1>9, <2>2 DEF TrivialDone, PathsIndexed
      <3> QED
        BY <3>1, <3>2 DEF Undisturbed, UpToDate, Present, HasRow
    <2>3. CASE mode # "diff" /\ batches # << >>
      <3>1. /\ pc = "trivial" /\ trivial = {} /\ pc' = "launch"
            /\ UNCHANGED <<tree, rows, clean, localVars>>
        BY <1>9, <2>3 DEF TrivialDone
      <3> QED
        BY <3>1 DEF Undisturbed, UpToDate, Waiting, InBatch, Present, HasRow
    <2> QED
      BY <2>1, <2>2, <2>3
  <1>10. CASE Launch
    <2> DEFINE l == launched + 1
    <2>1. /\ worker' = [worker EXCEPT ![l].phase = "started"]
          /\ worker \in [DOMAIN batches -> [phase : Phases, left : SUBSET Files]]
          /\ pc = "launch" /\ pc' \in {"launch", "drain"}
          /\ UNCHANGED <<tree, rows, mode, targets, read, trivial, batches, channel, ctxDone,
                         groupGone, clean>>
      BY <1>10 DEF Launch, IInv, TypeOK
    <2>2. \A b \in DOMAIN batches : /\ worker'[b].left = worker[b].left
                                    /\ worker'[b].phase = worker[b].phase \/ worker'[b].phase = "started"
      BY <2>1
    <2>3. \A f : Waiting(f) => Waiting(f)'
      BY <2>1, <2>2 DEF Waiting, InBatch
    <2> QED
      BY <2>1, <2>3 DEF Undisturbed, UpToDate, Present, HasRow
  <1>11. CASE Drain
    <2>1. /\ pc = "drain" /\ channel # << >> /\ channel' = Tail(channel)
          /\ Upsert(Head(channel), read[Head(channel)])
          /\ UNCHANGED <<tree, pc, mode, read, trivial, ctxDone, groupGone, targets, batches, worker>>
      BY <1>11 DEF Drain
    <2>2. PICK f \in targets : f = channel[1] /\ Upsert(f, read[f])
      BY <2>1, HeadOfChannel DEF Held
    <2>3. \A i \in DOMAIN channel : i # 1 => i - 1 \in DOMAIN channel' /\ channel'[i - 1] = channel[i]
      <3>1. channel \in Seq(Files)
        BY DEF IInv, TypeOK
      <3> QED BY <2>1, <3>1
    <2> SUFFICES ASSUME clean', mode # "diff"
                 PROVE  /\ ~ctxDone /\ ~groupGone /\ targets = Present \intersect Indexable
                        /\ HasRow' \subseteq Present /\ trivial = {}
                        /\ \A g \in targets : read[g] = tree[g] /\ (UpToDate(g, tree[g])' \/ Waiting(g)')
      BY <2>1 DEF Undisturbed, Present, UpToDate
    <2>5. clean
      BY <2>2 DEF Upsert
    <2>6. /\ UpToDate(f, tree[f])' /\ HasRow' \subseteq Present
          /\ \A g \in Files : UpToDate(g, tree[g]) => UpToDate(g, tree[g])'
      BY <2>1, <2>2, <2>5, RowWritten
    <2>7. ASSUME NEW g, g # f, NEW b \in DOMAIN batches, InBatch(g, b) PROVE InBatch(g, b)'
      <3>1. ASSUME NEW i \in DOMAIN channel, channel[i] = g
            PROVE  \E j \in DOMAIN channel' : channel'[j] = g
        <4>1. i # 1
          BY <2>2, <2>7, <3>1
        <4> QED BY <2>3, <3>1, <4>1
      <3> QED
        BY <2>1, <2>7, <3>1 DEF InBatch
    <2>8. \A g : Waiting(g) => g = f \/ Waiting(g)'
      BY <2>1, <2>7 DEF Waiting
    <2> QED
      BY <1>0, <2>1, <2>5, <2>6, <2>8 DEF Undisturbed
  <1>12. CASE DrainEnds
    <2> SUFFICES ASSUME clean, mode # "diff" PROVE Undisturbed'
      BY <1>12 DEF DrainEnds, PathsIndexed, Exit, Undisturbed
    <2>1. /\ pc = "drain" /\ channel = << >> /\ closed /\ pc' = "manifests"
          /\ UNCHANGED <<tree, rows, clean, localVars>>
      BY <1>12 DEF DrainEnds, PathsIndexed, Undisturbed
    <2>2. \A b \in DOMAIN batches : worker[b].phase \in Over /\ worker[b].left = {}
      BY <2>1 DEF IInv, Shape, Distinct, Over
    <2>3. DOMAIN channel = {}
      BY <2>1
    <2>4. \A f : ~Waiting(f)
      BY <2>1, <2>2, <2>3 DEF Waiting, InBatch, Undisturbed, Over
    <2> QED
      BY <2>1, <2>4 DEF Undisturbed, UpToDate, Present, HasRow
  <1>13. CASE ManifestPass
    <2>1. clean' => clean
      BY <1>13 DEF ManifestPass, IInv, TypeOK
    <2> QED
      BY <1>13, <2>1 DEF ManifestPass, Undisturbed, UpToDate, Present, HasRow
  <1>14. CASE DirectoryPass
    <2>1. clean' => clean
      BY <1>14 DEF DirectoryPass, IInv, TypeOK
    <2>2. clean /\ mode # "diff" => Exact
      <3> SUFFICES ASSUME clean, mode # "diff", NEW f \in Files
                   PROVE  rows[f].hash = IF f \in Indexable THEN tree[f] ELSE None
        BY DEF Exact
      <3>1. /\ HasRow \subseteq Present /\ HasRow \subseteq Indexable
            /\ \A g \in Present \intersect Indexable : rows[g].hash = tree[g]
        BY <1>14 DEF DirectoryPass, Undisturbed, Held, UpToDate
      <3>2. f \notin HasRow => rows[f].hash = None
        BY DEF HasRow, NoRow
      <3> QED
        BY <3>1, <3>2 DEF Present
    <2>3. pc' = "exited" /\ UNCHANGED <<tree, rows, mode>> /\ ~ctxDone' /\ ~groupGone'
      BY <1>14 DEF DirectoryPass, Exit
    <2> QED
      BY <2>1, <2>2, <2>3 DEF Undisturbed, Exact
  <1>15. CASE CloseResults
    BY <1>15, UndisturbedFrame DEF CloseResults
  <1>16. CASE CancelContext
    BY <1>16 DEF CancelContext, Undisturbed
  <1>17. CASE Crash
    BY <1>17 DEF Crash, Undisturbed
  <1>18. ASSUME NEW b \in Files, WorkerStep(b) PROVE Undisturbed'
    <2>1. b \in DOMAIN batches
      BY <1>18 DEF WorkerStep
    <2> QED
      BY <1>18, <2>1, UndisturbedWorker
  <1>19. ASSUME NEW f \in Files, NEW c, Edit(f, c) PROVE Undisturbed'
    BY <1>19 DEF Edit, Undisturbed
  <1> QED
    BY <1>1, <1>2, <1>3, <1>4, <1>5, <1>6, <1>7, <1>8, <1>9, <1>10, <1>11, <1>12, <1>13,
       <1>14, <1>15, <1>16, <1>17, <1>18, <1>19
    DEF Next, MainStep, StartRepo, StartDiff, StartReview

\* Whatever earlier runs left in the store (rows of crashed runs, rows of
\* files that are gone, rows of other contents), an IndexRepo in which nothing
\* fails and nothing is edited leaves exactly the rows of the tree: buildBatches
\* leaves no file out, and every result that is sent is drained before the
\* channel counts as done.
THEOREM CleanRunMirrors == Spec => []CleanRunIsExact
PROOF
  <1>1. Init => Undisturbed
    BY DEF Init, Undisturbed
  <1>2. Undisturbed => CleanRunIsExact
    BY DEF Undisturbed, Exact, CleanRunIsExact
  <1> QED
    BY <1>1, <1>2, UndisturbedNext, HeldAlways, PTL DEF Spec
=============================================================================
