--------------------------- MODULE PrReview_proofs ---------------------------
(***************************************************************************)
(* Successive runs on one pull request: what each step does to the run     *)
(* that takes it (Effect) and to no other (Frame), the types, and the four *)
(* properties of the comments on the pull request.                         *)
(*                                                                         *)
(* SoleSource, NothingForgotten, NoResurrection and PlaceKept are proved   *)
(* for runs that follow each other; two runs at once refute the first      *)
(* (NoTwoCopies).  Each has an invariant of its own, about the points of a *)
(* run between the load of the findings file and its last comment, on top  *)
(* of InOrder, which says what a run holds at each stage.                  *)
(***************************************************************************)
EXTENDS PrReview, Picking_proofs

\* What a comment can be: reported by a review, or a placeholder for one, whose
\* line may be gone.
AllPaths == {c.path : c \in Comments}
AllLines == {c.line : c \in Comments} \cup {0}
AllComments ==
  Comments \cup [path : AllPaths, line : AllLines, code : {NoText}, text : {NoText},
                 scanner : {FALSE}, critical : {FALSE}]
Prints == {Fingerprint(c) : c \in AllComments}
Findings == {f \in [fp : Prints, comment : AllComments] : f.fp[1] = f.comment.path}

\* What may stand on the pull request.
Page ==
  {i \in [id : Nat \X Nat \X Nat, mark : {"human", "marked", "legacy"}, fp : Prints,
          path : AllPaths, line : AllLines, text : {c.text : c \in AllComments}] :
     i.fp[1] = i.path}
Early == {"idle", "reviewed", "listed", "loaded", "emitting"}
Stages == Ended \cup Early \cup {"posting"}

Types ==
  /\ stage \in [Runs -> Stages]
  /\ touched \in [Runs -> SUBSET Paths] /\ cut \in [Runs -> SUBSET Paths]
  /\ \A r \in Runs : cut[r] \subseteq touched[r]
  /\ report \in [Runs -> Seq(Findings)] /\ batch \in [Runs -> Seq(Findings)]
  /\ store \in Seq(Findings) /\ saved \subseteq Runs
  /\ listed \in [Runs -> SUBSET Page] /\ \A r \in Runs : IsFiniteSet(listed[r])
  /\ surface \subseteq Page /\ IsFiniteSet(surface)
  /\ doomed \in [Runs -> SUBSET Page] /\ \A r \in Runs : Ours(doomed[r]) = doomed[r]
  /\ posted \in [Runs -> Nat] /\ \A r \in Runs : posted[r] <= Len(batch[r])
  /\ \A r \in Runs : stage[r] \in Early => posted[r] = 0
  /\ exit \in [Runs -> {"none", "clean", "blocked", "error"}]
  /\ faults \in 0..MaxFaults
  /\ clean \in [Runs -> BOOLEAN]

\* Runs follow each other: a run starts when the one before it has ended.
Serial == \A m, r \in Runs : m < r /\ stage[r] # "idle" => stage[m] \in Ended

\* What a run holds at each stage.
OrderlyRun(r) ==
  /\ stage[r] = "idle" => touched[r] = {} /\ report[r] = << >>
  /\ stage[r] \in {"idle", "reviewed"} => listed[r] = {}
  /\ stage[r] \in {"reviewed", "listed"} =>
       \A f \in ToSet(report[r]) : f.comment.path \in touched[r]
  /\ stage[r] \in Early => batch[r] = << >> /\ doomed[r] = {}
  /\ stage[r] \in {"idle", "reviewed", "listed", "loaded"} => r \notin saved
  /\ ~StoreSurvives /\ stage[r] \in {"reviewed", "listed", "loaded"} => store = << >>
  /\ clean[r] /\ stage[r] \in {"emitting", "posting"} => store = report[r]
  /\ stage[r] = "posting" \/ Posted(r) => batch[r] = Inline(report[r])
  /\ batch[r] \in {<< >>, Inline(report[r])}
Orderly == \A r \in Runs : OrderlyRun(r)

\* The comments of sacr on the pull request while a faultless run posts.
PageInv ==
  \A r \in Runs : clean[r] =>
    /\ stage[r] = "posting" =>
         /\ Ours(surface) = doomed[r] \cup Items(r, 1, posted[r], 1)
         /\ posted[r] # 0 => doomed[r] = {}
    /\ Posted(r) /\ (\A m \in Runs : m > r => Idle(m)) =>
         Ours(surface) = Items(r, 1, Len(batch[r]), 1)

\* The findings file, and the report of every run that read it, hold what
\* an earlier run saved and nobody touched since.
Untouched(q, path) == \A m \in Runs : m > q => path \notin touched[m]
Shows(findings, f) == \E g \in ToSet(Inline(findings)) : g.comment = f.comment
Carried(r) ==
  \/ stage[r] = "loaded" \/ r \in saved
  \/ clean[r] /\ touched[r] # {} /\ stage[r] \in {"emitting", "posting", "done"}
KeepInv ==
  \A q \in saved : \A f \in ToSet(Inline(report[q])) :
    /\ Untouched(q, f.comment.path) => Shows(store, f)
    /\ \A r \in Runs : q < r /\ Carried(r) /\ UntouchedSince(q, r, f.comment.path) =>
         Shows(report[r], f)

\* What a faultless run did not report is nowhere, unless it was touched.
Within(q, place) == \E g \in ToSet(report[q]) : Location(g) = place
Spot(i) == <<i.path, i.line, FALSE>>
StayInv ==
  \A q \in Runs : Posted(q) =>
    /\ \A f \in ToSet(store) :
         f.comment.line # 0 /\ Untouched(q, f.comment.path) => Within(q, Location(f))
    /\ \A i \in Marked(surface) : Untouched(q, i.path) => Within(q, Spot(i))
    /\ \A r \in Runs : q < r =>
         /\ \A i \in Marked(listed[r]) :
              i.line # 0 /\ UntouchedSince(q, r, i.path) => Within(q, Spot(i))
         /\ \A f \in ToSet(report[r]) :
              f.comment.line # 0 /\ UntouchedSince(q, r, f.comment.path) =>
                Within(q, Location(f))

\* Without a findings file a run reports every place it recovered.
PlaceInv ==
  \A r \in Runs : clean[r] /\ (stage[r] \in {"loaded", "emitting", "posting"} \/ Posted(r)) =>
    \A i \in Marked(listed[r]) : i.path \notin touched[r] => Within(r, Spot(i))

-----------------------------------------------------------------------------
(* The pure parts *)

\* Reconcile keeps all fresh findings, and of the previous ones those that
\* were not found again in a file left alone.
LEMMA ReconcileElements ==
  ASSUME NEW previous \in Seq(Findings), NEW fresh \in Seq(Findings), NEW paths
  PROVE  /\ Reconcile(previous, fresh, paths) \in Seq(Findings)
         /\ ToSet(Reconcile(previous, fresh, paths)) =
              ToSet(fresh) \cup {f \in ToSet(previous) : /\ f.fp \notin Fingerprints(fresh)
                                                         /\ f.comment.path \notin paths}
PROOF
  <1> DEFINE at == {i \in DOMAIN previous : /\ previous[i].fp \notin Fingerprints(fresh)
                                            /\ previous[i].comment.path \notin paths}
             rest == Picked(previous, at)
  <1>1. rest \in Seq(Findings) /\ ToSet(rest) = {previous[i] : i \in at}
    BY PickedElements
  <1>2. ToSet(rest) = {f \in ToSet(previous) : /\ f.fp \notin Fingerprints(fresh)
                                               /\ f.comment.path \notin paths}
    BY <1>1 DEF ToSet
  <1>3. Reconcile(previous, fresh, paths) = fresh \o rest
    BY DEF Reconcile
  <1> HIDE DEF rest
  <1>4. fresh \o rest \in Seq(Findings) /\ ToSet(fresh \o rest) = ToSet(fresh) \cup ToSet(rest)
    BY <1>1, ToSetConcat
  <1> QED
    BY <1>2, <1>3, <1>4

\* The positions of a list that come first at their location.
Opening(findings) ==
  {i \in DOMAIN findings :
     \A j \in 1..(i - 1) : Location(findings[j]) # Location(findings[i])}

LEMMA DedupedElements ==
  ASSUME NEW s \in Seq(Findings)
  PROVE  Deduped(s) \in Seq(Findings) /\ ToSet(Deduped(s)) = {s[i] : i \in Opening(s)}
PROOF
  <1>1. Opening(s) \subseteq DOMAIN s /\ Deduped(s) = Picked(s, Opening(s))
    BY DEF Opening, Deduped
  <1> QED
    BY <1>1, PickedElements

\* What is posted: the first finding of each location, if it has a line and is
\* not a scanner's.
LEMMA InlineElements ==
  ASSUME NEW s \in Seq(Findings)
  PROVE  /\ Inline(s) \in Seq(Findings)
         /\ ToSet(Inline(s)) = {s[i] : i \in {i \in Opening(s) : Inlined(s[i])}}
PROOF
  <1> DEFINE out == Deduped(s)
             at == {i \in DOMAIN out : Inlined(out[i])}
  <1>1. out \in Seq(Findings) /\ ToSet(out) = {s[i] : i \in Opening(s)}
    BY DedupedElements
  <1>2. Inline(s) = Picked(out, at)
    BY DEF Inline
  <1> HIDE DEF out
  <1>3. Inline(s) \in Seq(Findings) /\ ToSet(Inline(s)) = {out[i] : i \in at}
    BY <1>1, <1>2, PickedElements
  <1>4. {out[i] : i \in at} = {f \in ToSet(out) : Inlined(f)}
    BY DEF ToSet
  <1> QED
    BY <1>1, <1>3, <1>4

\* Nothing is lost with what is left out: the location is posted all the same.
LEMMA InlineCovers ==
  ASSUME NEW s \in Seq(Findings)
  PROVE  /\ ToSet(Inline(s)) \subseteq ToSet(s)
         /\ \A f \in ToSet(Inline(s)) : Inlined(f)
         /\ \A f \in ToSet(s) : Inlined(f) =>
              \E g \in ToSet(Inline(s)) : Location(g) = Location(f)
PROOF
  <1>1. DOMAIN s = 1..Len(s) /\ Len(s) \in Nat
    BY LenProperties
  <1>2. ToSet(Inline(s)) \subseteq ToSet(s) /\ \A f \in ToSet(Inline(s)) : Inlined(f)
    <2>1. Opening(s) \subseteq DOMAIN s
      BY DEF Opening
    <2>2. \A i \in Opening(s) : s[i] \in ToSet(s)
      BY <2>1 DEF ToSet
    <2>3. ASSUME NEW f \in ToSet(Inline(s)) PROVE f \in ToSet(s) /\ Inlined(f)
      BY <2>2, InlineElements
    <2> QED BY <2>3
  <1>3. ASSUME NEW f \in ToSet(s), Inlined(f)
        PROVE  \E g \in ToSet(Inline(s)) : Location(g) = Location(f)
    <2> DEFINE T == {i \in DOMAIN s : Location(s[i]) = Location(f)}
    <2>1. T \subseteq Nat /\ T # {}
      BY <1>1 DEF ToSet
    <2>2. PICK i \in T : \A j \in T : i <= j
      BY <2>1, Least
    <2>3. i \in Opening(s)
      <3> SUFFICES ASSUME NEW j \in 1..(i - 1), Location(s[j]) = Location(s[i])
                   PROVE  FALSE
        BY <2>2 DEF Opening
      <3>1. j \in DOMAIN s /\ ~(i <= j)
        BY <1>1, <2>2
      <3> QED BY <2>2, <3>1
    <2>4. Inlined(s[i])
      BY <1>3, <2>2 DEF Location, Inlined
    <2> QED BY <1>3, <2>2, <2>3, <2>4, InlineElements
  <1> QED BY <1>2, <1>3

\* A finding the run before would post in a file left alone is posted again.
LEMMA ReconcilePosts ==
  ASSUME NEW previous \in Seq(Findings), NEW fresh \in Seq(Findings), NEW paths,
         \A f \in ToSet(fresh) : f.comment.path \in paths,
         NEW g \in ToSet(Inline(previous)), g.comment.path \notin paths
  PROVE  g \in ToSet(Inline(Reconcile(previous, fresh, paths)))
PROOF
  <1>0. ToSet(Inline(previous)) =
          {previous[i] : i \in {j \in Opening(previous) : Inlined(previous[j])}}
    BY InlineElements
  <1>1. PICK i \in Opening(previous) : previous[i] = g /\ Inlined(g)
    BY <1>0
  <1> DEFINE at == {j \in DOMAIN previous : /\ previous[j].fp \notin Fingerprints(fresh)
                                            /\ previous[j].comment.path \notin paths}
             rest == Picked(previous, at)
             both == Reconcile(previous, fresh, paths)
             n == Cardinality(at)
  <1>2. i \in DOMAIN previous /\ g \in Findings
    BY <1>1, ElementOfSeq, LenProperties DEF Opening
  <1>3. g.fp \notin Fingerprints(fresh)
    <2> SUFFICES ASSUME NEW f \in ToSet(fresh), f.fp = g.fp PROVE FALSE
      BY DEF Fingerprints
    <2>1. f \in Findings
      BY ElementOfSeq, LenProperties DEF ToSet
    <2> QED BY <1>2, <2>1 DEF Findings
  <1>4. i \in at
    BY <1>1, <1>2, <1>3
  <1>a. at \subseteq DOMAIN previous
    OBVIOUS
  <1>5. PICK pos \in [1..n -> at] :
          /\ \A k \in 1..n : rest[k] = previous[pos[k]]
          /\ \A j \in at : \E k \in 1..n : pos[k] = j
          /\ \A j, k \in 1..n : j < k => pos[j] < pos[k]
    <2> HIDE DEF at
    <2> QED BY <1>a, PickedPositions
  <1>6. rest \in Seq(Findings) /\ Len(rest) = n /\ n \in Nat
    BY PickedPositions
  <1>7. both = fresh \o rest
    BY DEF Reconcile
  <1> HIDE DEF rest, both, at, n
  <1>8. PICK k \in 1..n : pos[k] = i
    BY <1>4, <1>5
  <1>9. /\ both \in Seq(Findings) /\ Len(fresh) \in Nat
        /\ DOMAIN both = 1..(Len(fresh) + n) /\ DOMAIN fresh = 1..Len(fresh)
    <2>1. both \in Seq(Findings) /\ Len(both) = Len(fresh) + n
      BY <1>6, <1>7, ConcatProperties
    <2> QED BY <2>1, LenProperties
  <1>10. \A j \in 1..Len(fresh) : both[j] = fresh[j] /\ both[j].comment.path \in paths
    <2> TAKE j \in 1..Len(fresh)
    <2>1. both[j] = fresh[j]
      BY <1>6, <1>7, <1>9, ConcatProperties
    <2> QED BY <1>9, <2>1 DEF ToSet
  <1>11. \A j \in 1..n : both[Len(fresh) + j] = rest[j]
    BY <1>6, <1>7, <1>9, ConcatProperties
  <1>12. both[Len(fresh) + k] = g
    BY <1>1, <1>5, <1>8, <1>11
  <1>13. Len(fresh) + k \in Opening(both)
    <2> SUFFICES ASSUME NEW j \in 1..(Len(fresh) + k - 1), Location(both[j]) = Location(g)
                 PROVE  FALSE
      BY <1>6, <1>9, <1>12 DEF Opening
    <2>1. CASE j <= Len(fresh)
      BY <1>9, <1>10, <2>1 DEF Location
    <2>2. CASE j > Len(fresh)
      <3>1. j - Len(fresh) \in 1..n /\ j - Len(fresh) < k /\ Len(fresh) + (j - Len(fresh)) = j
        BY <1>6, <1>9, <2>2
      <3>2. both[j] = previous[pos[j - Len(fresh)]] /\ pos[j - Len(fresh)] < i
        BY <1>5, <1>8, <1>11, <3>1
      <3>3. pos[j - Len(fresh)] \in DOMAIN previous
        BY <1>5, <3>1 DEF at
      <3>4. DOMAIN previous = 1..Len(previous) /\ Len(previous) \in Nat
        BY LenProperties
      <3>5. pos[j - Len(fresh)] \in 1..(i - 1)
        BY <1>2, <3>2, <3>3, <3>4
      <3> QED BY <1>1, <3>2, <3>5 DEF Opening
    <2> QED BY <1>9, <2>1, <2>2
  <1>14. ToSet(Inline(both)) = {both[j] : j \in {j \in Opening(both) : Inlined(both[j])}}
    BY <1>9, InlineElements
  <1>15. g \in ToSet(Inline(both))
    <2> HIDE DEF Inlined
    <2> QED BY <1>1, <1>12, <1>13, <1>14
  <1> QED
    BY <1>15 DEF both

\* What is recovered from the pull request: a placeholder for each marker.
LEMMA RecoveredElements ==
  ASSUME NEW items \in SUBSET Page, IsFiniteSet(items)
  PROVE  /\ Recovered(items) \in Seq(Findings)
         /\ ToSet(Recovered(items)) =
              {[fp |-> i.fp, comment |-> Placeholder(i)] : i \in Marked(items)}
PROOF
  <1> DEFINE S == Marked(items)
             n == Cardinality(S)
             found == SetToSeq(S)
  <1>1. IsFiniteSet(S) /\ S \subseteq Page
    BY FS_Subset DEF Marked
  <1>2. /\ n \in Nat /\ found \in [1..n -> S]
        /\ \A i \in S : \E k \in 1..n : found[k] = i
    <2> HIDE DEF S
    <2> QED BY <1>1, SetToSeqElements
  <1>5. Recovered(items) =
          [k \in 1..n |-> [fp |-> found[k].fp, comment |-> Placeholder(found[k])]]
    BY <1>2 DEF Recovered
  <1> HIDE DEF found
  <1>6. ASSUME NEW i \in S PROVE [fp |-> i.fp, comment |-> Placeholder(i)] \in Findings
    <2>1. i \in Page
      BY <1>1
    <2>2. i.path \in AllPaths /\ i.line \in AllLines /\ i.fp \in Prints /\ i.fp[1] = i.path
      BY <2>1 DEF Page
    <2>3. Placeholder(i) \in AllComments /\ Placeholder(i).path = i.path
      BY <2>2 DEF Placeholder, AllComments
    <2> QED BY <2>2, <2>3 DEF Findings
  <1>7. Recovered(items) \in Seq(Findings)
    BY <1>2, <1>5, <1>6
  <1> DEFINE rebuilt(i) == [fp |-> i.fp, comment |-> Placeholder(i)]
             seq == [k \in 1..n |-> rebuilt(found[k])]
  <1>8. ToSet(seq) = {seq[k] : k \in 1..n}
    BY DEF ToSet
  <1> HIDE DEF rebuilt
  <1>9. \A k \in 1..n : seq[k] = rebuilt(found[k])
    OBVIOUS
  <1> HIDE DEF S, n, seq
  <1>10. {seq[k] : k \in 1..n} = {rebuilt(i) : i \in S}
    <2>1. ASSUME NEW k \in 1..n PROVE seq[k] \in {rebuilt(i) : i \in S}
      BY <1>2, <1>9
    <2>2. ASSUME NEW i \in S PROVE rebuilt(i) \in {seq[k] : k \in 1..n}
      <3>1. PICK k \in 1..n : found[k] = i
        BY <1>2
      <3> QED BY <3>1, <1>9
    <2> QED BY <2>1, <2>2
  <1>11. ToSet(Recovered(items)) = {rebuilt(i) : i \in S}
    BY <1>5, <1>8, <1>10 DEF rebuilt, seq
  <1> QED
    BY <1>7, <1>11 DEF rebuilt, S

-----------------------------------------------------------------------------
(* Types *)

\* A listing shows the comments of the pull request, some without their line.
LEMMA ListingElements ==
  ASSUME Types, NEW outdated
  PROVE  /\ Listing(outdated) \subseteq Page /\ IsFiniteSet(Listing(outdated))
         /\ \A i \in Listing(outdated) : i.line # 0 => i \in surface
PROOF
  <1> DEFINE shown(i) == IF i \in outdated THEN [i EXCEPT !.line = 0] ELSE i
             g == [i \in surface |-> shown(i)]
             T == Listing(outdated)
  <1>1. surface \subseteq Page /\ IsFiniteSet(surface)
    BY DEF Types
  <1>2. ASSUME NEW i \in surface PROVE shown(i) \in Page /\ (shown(i).line # 0 => shown(i) = i)
    <2>1. i \in Page /\ 0 \in AllLines
      BY <1>1 DEF AllLines
    <2> QED BY <2>1 DEF Page
  <1>3. g \in Surjection(surface, T)
    BY DEF Listing, Surjection
  <1>4. IsFiniteSet(T)
    <2> HIDE DEF T, g
    <2> QED BY <1>1, <1>3, FS_Surjection
  <1>5. T = {shown(i) : i \in surface}
    BY DEF Listing
  <1> HIDE DEF T, g, shown
  <1>6. T \subseteq Page /\ \A i \in T : i.line # 0 => i \in surface
    BY <1>2, <1>5
  <1> QED
    BY <1>4, <1>6 DEF T

\* A finding of a review is one that can be carried.
LEMMA FreshFindings ==
  ASSUME NEW n \in Nat, NEW paths, NEW fresh \in [1..n -> {c \in Comments : c.path \in paths}]
  PROVE  /\ [k \in 1..n |-> Finding(fresh[k])] \in Seq(Findings)
         /\ \A f \in ToSet([k \in 1..n |-> Finding(fresh[k])]) : f.comment.path \in paths
PROOF
  <1>1. ASSUME NEW c \in Comments PROVE Finding(c) \in Findings
    <2>1. c \in AllComments /\ Fingerprint(c) \in Prints
      BY DEF AllComments, Prints
    <2> QED BY <2>1 DEF Finding, Findings, Fingerprint
  <1>2. \A k \in 1..n : Finding(fresh[k]) \in Findings /\ Finding(fresh[k]).comment.path \in paths
    BY <1>1 DEF Finding
  <1> DEFINE s == [k \in 1..n |-> Finding(fresh[k])]
  <1>3. s \in Seq(Findings)
    BY <1>2
  <1> QED
    BY <1>2, <1>3 DEF ToSet

\* The comments of a chunk of the batch.
LEMMA ItemsOnPage ==
  ASSUME Types, NEW r \in Runs, NEW from \in Nat \ {0}, NEW to \in Nat, to <= Len(batch[r]),
         NEW copies \in Nat
  PROVE  Items(r, from, to, copies) \subseteq Page /\ IsFiniteSet(Items(r, from, to, copies))
PROOF
  <1> DEFINE X == (from..to) \X (1..copies)
             g == [p \in X |-> Item(r, p[1], p[2])]
             T == Items(r, from, to, copies)
  <1>1. batch[r] \in Seq(Findings) /\ Len(batch[r]) \in Nat
    BY DEF Types
  <1>2. ASSUME NEW i \in from..to, NEW k \in 1..copies PROVE Item(r, i, k) \in Page
    <2>1. batch[r][i] \in Findings
      BY <1>1, ElementOfSeq
    <2>2. batch[r][i].comment \in AllComments
      BY <2>1 DEF Findings
    <2>3. ASSUME NEW c \in AllComments
          PROVE  /\ c.path \in AllPaths /\ c.line \in AllLines /\ Fingerprint(c) \in Prints
                 /\ Fingerprint(c)[1] = c.path
      BY DEF AllComments, AllPaths, AllLines, Prints, Fingerprint
    <2>4. <<r, i, k>> \in Nat \X Nat \X Nat
      BY DEF Runs
    <2> QED
      BY <2>2, <2>3, <2>4 DEF Item, OnPR, Page
  <1>3. T \subseteq Page
    BY <1>2 DEF Items
  <1>4. IsFiniteSet(X)
    <2>1. IsFiniteSet(from..to) /\ IsFiniteSet(1..copies)
      BY FS_Interval
    <2> QED BY <2>1, FS_Product
  <1>5. g \in Surjection(X, T)
    <2>1. \A p \in X : g[p] \in T
      BY DEF Items
    <2>2. \A t \in T : \E p \in X : g[p] = t
      <3> TAKE t \in T
      <3>1. PICK i \in from..to, k \in 1..copies : t = Item(r, i, k)
        BY DEF Items
      <3>2. <<i, k>> \in X /\ g[<<i, k>>] = t
        BY <3>1
      <3> QED BY <3>2
    <2> HIDE DEF T
    <2> QED BY <2>1, <2>2 DEF Surjection
  <1>6. IsFiniteSet(T)
    <2> HIDE DEF X, T, g
    <2> QED BY <1>4, <1>5, FS_Surjection
  <1> QED BY <1>3, <1>6

LEMMA ChunkWithin ==
  ASSUME Types, NEW r \in Runs
  PROVE  /\ ChunkEnd(r) \in Nat /\ ChunkEnd(r) <= Len(batch[r]) /\ posted[r] <= ChunkEnd(r)
         /\ batch[r] \in Seq(Findings) /\ Len(batch[r]) \in Nat /\ posted[r] \in Nat
PROOF
  <1>1. batch[r] \in Seq(Findings) /\ Len(batch[r]) \in Nat /\ posted[r] \in Nat
        /\ posted[r] <= Len(batch[r])
    BY DEF Types
  <1> QED BY <1>1, BoundsAssumption DEF ChunkEnd

LEMMA PreviousTyped ==
  ASSUME Types, NEW r \in Runs
  PROVE  Previous(r) \in Seq(Findings)
PROOF
  BY RecoveredElements DEF Types, Previous

\* A review picks files and reports findings that lie in them.
LEMMA ReviewEffect ==
  ASSUME NEW r \in Runs, Review(r)
  PROVE  \E paths \in SUBSET Paths, stopped \in SUBSET Paths, fresh \in Seq(Findings) :
           /\ paths # {} /\ stopped \subseteq paths
           /\ \A f \in ToSet(fresh) : f.comment.path \in paths
           /\ touched' = [touched EXCEPT ![r] = paths]
           /\ cut' = [cut EXCEPT ![r] = stopped]
           /\ report' = [report EXCEPT ![r] = fresh]
PROOF
  <1>1. PICK paths \in (SUBSET Paths) \ {{}} :
          /\ touched' = [touched EXCEPT ![r] = paths]
          /\ \E stopped \in SUBSET (paths \cap MayStop) : cut' = [cut EXCEPT ![r] = stopped]
          /\ \E n \in 0..MaxFresh :
               \E fresh \in [1..n -> {c \in Comments : c.path \in paths}] :
                 report' = [report EXCEPT ![r] = [k \in 1..n |-> Finding(fresh[k])]]
    BY Zenon DEF Review
  <1>2. PICK stopped \in SUBSET (paths \cap MayStop) : cut' = [cut EXCEPT ![r] = stopped]
    BY <1>1
  <1>3. PICK n \in 0..MaxFresh :
          \E fresh \in [1..n -> {c \in Comments : c.path \in paths}] :
            report' = [report EXCEPT ![r] = [k \in 1..n |-> Finding(fresh[k])]]
    BY <1>1
  <1>4. PICK fresh \in [1..n -> {c \in Comments : c.path \in paths}] :
          report' = [report EXCEPT ![r] = [k \in 1..n |-> Finding(fresh[k])]]
    BY <1>3
  <1>5. n \in Nat
    BY BoundsAssumption
  <1> DEFINE new == [k \in 1..n |-> Finding(fresh[k])]
  <1>6. new \in Seq(Findings) /\ \A f \in ToSet(new) : f.comment.path \in paths
    BY <1>5, FreshFindings, Zenon
  <1>7. report' = [report EXCEPT ![r] = new]
    BY <1>4
  <1> HIDE DEF new
  <1>8. paths \in SUBSET Paths /\ paths # {} /\ stopped \in SUBSET Paths /\ stopped \subseteq paths
    OBVIOUS
  <1> QED
    BY <1>1, <1>2, <1>6, <1>7, <1>8

LEMMA TypesInit == Init => Types
PROOF
  <1> SUFFICES ASSUME Init PROVE Types
    OBVIOUS
  <1> DEFINE c == CHOOSE c \in Comments : TRUE
             x == OnPR(<<0, 1, 1>>, "human", c)
             y == OnPR(<<0, 2, 1>>, "legacy", c)
  <1>1. c \in AllComments
    BY CommentsAssumption DEF AllComments
  <1>2. /\ c.path \in AllPaths /\ c.line \in AllLines /\ Fingerprint(c) \in Prints
        /\ Fingerprint(c)[1] = c.path
    BY <1>1, CommentsAssumption DEF AllPaths, AllLines, Prints, Fingerprint
  <1>3. x \in Page /\ y \in Page
    <2> HIDE DEF c
    <2> QED BY <1>1, <1>2 DEF OnPR, Page
  <1>4. surface = {x, y}
    BY DEF Init, Before
  <1>5. IsFiniteSet({x, y})
    <2> HIDE DEF x, y
    <2>1. IsFiniteSet({x}) /\ {x, y} = {x} \cup {y}
      BY FS_Singleton
    <2> QED BY <2>1, FS_AddElement
  <1>6. \A S : << >> \in Seq(S) /\ Len(<< >>) = 0
    BY EmptySeq
  <1>7. IsFiniteSet({})
    BY FS_EmptySet
  <1> HIDE DEF x, y
  <1>8. surface \subseteq Page /\ IsFiniteSet(surface)
    BY <1>3, <1>4, <1>5
  <1>9. /\ report \in [Runs -> Seq(Findings)] /\ batch \in [Runs -> Seq(Findings)]
        /\ store \in Seq(Findings)
        /\ posted \in [Runs -> Nat] /\ \A r \in Runs : posted[r] <= Len(batch[r])
    BY <1>6 DEF Init
  <1>11. \A r \in Runs : posted[r] = 0
    BY DEF Init
  <1>10. /\ listed \in [Runs -> SUBSET Page] /\ \A r \in Runs : IsFiniteSet(listed[r])
         /\ doomed \in [Runs -> SUBSET Page] /\ \A r \in Runs : Ours(doomed[r]) = doomed[r]
    BY <1>7 DEF Init, Ours
  <1> QED
    BY <1>8, <1>9, <1>10, <1>11, BoundsAssumption DEF Init, Types, Stages, Early

LEMMA TypesStep ==
  ASSUME Types, NEW r \in Runs, Step(r)
  PROVE  Types'
PROOF
  <1> USE DEF Go, Exit, Sound, Fault, input, output, file
  <1>s. Types
    OBVIOUS
  <1>e. << >> \in Seq(Findings) /\ Len(<< >>) = 0
    BY EmptySeq
  <1>f. ASSUME Fault(r) PROVE faults' \in 0..MaxFaults /\ clean' \in [Runs -> BOOLEAN]
    BY <1>f, BoundsAssumption DEF Types
  <1>g. ASSUME Sound PROVE faults' \in 0..MaxFaults /\ clean' \in [Runs -> BOOLEAN]
    BY <1>g DEF Types
  <1>h. ASSUME Begin(r) PROVE store' \in Seq(Findings) /\ saved' \subseteq Runs
    BY <1>h, <1>e DEF Begin, Types
  <1>1. CASE Review(r)
    <2>a. PICK paths \in SUBSET Paths, stopped \in SUBSET Paths, fresh \in Seq(Findings) :
            /\ stopped \subseteq paths
            /\ touched' = [touched EXCEPT ![r] = paths] /\ cut' = [cut EXCEPT ![r] = stopped]
            /\ report' = [report EXCEPT ![r] = fresh]
      BY <1>1, ReviewEffect
    <2>2. report' \in [Runs -> Seq(Findings)]
      BY <2>a DEF Types
    <2>3. /\ touched' \in [Runs -> SUBSET Paths] /\ cut' \in [Runs -> SUBSET Paths]
          /\ \A m \in Runs : cut'[m] \subseteq touched'[m]
      BY <2>a DEF Types
    <2>4. stage' \in [Runs -> Stages] /\ \A m \in Runs : stage'[m] \in Early => stage[m] \in Early
      BY <1>1 DEF Review, Types, Stages, Early
    <2>5. UNCHANGED <<listed, batch, doomed, posted, surface, exit>> /\ Begin(r) /\ Sound
      BY <1>1 DEF Review, Begin
    <2> QED BY <1>g, <1>h, <2>2, <2>3, <2>4, <2>5 DEF Types
  <1>2. CASE ReviewFails(r) \/ NothingToReview(r)
    <2>1. /\ stage' \in [Runs -> Stages] /\ exit' \in [Runs -> {"none", "clean", "blocked", "error"}]
          /\ \A m \in Runs : stage'[m] \in Early => stage[m] \in Early
      BY <1>2 DEF ReviewFails, NothingToReview, Types, Stages, Ended, Early
    <2>2. /\ UNCHANGED <<touched, cut, report, listed, batch, doomed, posted, surface>>
          /\ Begin(r) /\ (Sound \/ Fault(r))
      BY <1>2 DEF ReviewFails, NothingToReview, Begin
    <2> QED BY <1>f, <1>g, <1>h, <2>1, <2>2 DEF Types
  <1>3. CASE ListForCarryover(r)
    <2>1. /\ stage' \in [Runs -> Stages]
          /\ \A m \in Runs : stage'[m] \in Early => stage[m] \in Early
      BY <1>3 DEF ListForCarryover, Types, Stages, Early
    <2>2. /\ UNCHANGED <<touched, cut, report, batch, doomed, posted, exit, store, saved, surface>>
          /\ Sound \/ Fault(r)
          /\ listed' = listed \/ \E outdated : listed' = [listed EXCEPT ![r] = Listing(outdated)]
      BY <1>3 DEF ListForCarryover
    <2>3. listed' \in [Runs -> SUBSET Page] /\ \A m \in Runs : IsFiniteSet(listed'[m])
      <3>1. CASE listed' = listed
        BY <3>1 DEF Types
      <3>2. ASSUME NEW outdated, listed' = [listed EXCEPT ![r] = Listing(outdated)]
            PROVE  listed' \in [Runs -> SUBSET Page] /\ \A m \in Runs : IsFiniteSet(listed'[m])
        <4> DEFINE new == Listing(outdated)
        <4>1. new \subseteq Page /\ IsFiniteSet(new) /\ listed' = [listed EXCEPT ![r] = new]
          BY <3>2, ListingElements
        <4> HIDE DEF new
        <4> QED BY <4>1 DEF Types
      <3> QED BY <2>2, <3>1, <3>2
    <2> QED BY <1>f, <1>g, <2>1, <2>2, <2>3 DEF Types
  <1>4. CASE LoadFindings(r)
    <2> DEFINE new == Reconcile(Previous(r), report[r], touched[r])
    <2>1. /\ stage' \in [Runs -> Stages]
          /\ \A m \in Runs : stage'[m] \in Early => stage[m] \in Early
      BY <1>4 DEF LoadFindings, Types, Stages, Early
    <2>2. /\ UNCHANGED <<touched, cut, listed, batch, doomed, posted, exit, store, saved, surface>>
          /\ Sound \/ Fault(r)
          /\ report' \in {report, [report EXCEPT ![r] = new]}
      BY <1>4 DEF LoadFindings
    <2>3. new \in Seq(Findings)
      BY PreviousTyped, ReconcileElements DEF Types
    <2> HIDE DEF new
    <2>4. report' \in [Runs -> Seq(Findings)]
      BY <2>2, <2>3 DEF Types
    <2> QED BY <1>f, <1>g, <2>1, <2>2, <2>4 DEF Types
  <1>5. CASE SaveFindings(r)
    <2>1. /\ stage' \in [Runs -> Stages]
          /\ \A m \in Runs : stage'[m] \in Early => stage[m] \in Early
      BY <1>5 DEF SaveFindings, Types, Stages, Early
    <2>2. /\ UNCHANGED <<touched, cut, report, listed, batch, doomed, posted, exit, surface>>
          /\ Sound \/ Fault(r)
          /\ store' \in {store, report[r]} /\ saved' \in {saved, saved \cup {r}}
      BY <1>5 DEF SaveFindings
    <2> QED BY <1>f, <1>g, <2>1, <2>2 DEF Types
  <1>6. CASE StartEmit(r)
    <2>1. /\ stage' \in [Runs -> Stages]
          /\ \A m \in Runs : stage'[m] \in Early => stage[m] \in Early
      BY <1>6 DEF StartEmit, Types, Stages, Early
    <2>2. /\ UNCHANGED <<touched, cut, report, listed, posted, exit, store, saved, surface>>
          /\ Sound \/ Fault(r)
          /\ batch' = [batch EXCEPT ![r] = Inline(report[r])]
          /\ doomed' \in {doomed, [doomed EXCEPT ![r] = Ours(surface)]}
      BY <1>6 DEF StartEmit
    <2>3. Inline(report[r]) \in Seq(Findings)
      BY InlineElements DEF Types
    <2>4. Ours(surface) \in SUBSET Page /\ Ours(Ours(surface)) = Ours(surface)
      BY DEF Ours, Types
    <2>5. doomed' \in [Runs -> SUBSET Page] /\ \A m \in Runs : Ours(doomed'[m]) = doomed'[m]
      <3>1. CASE doomed' = doomed
        BY <3>1 DEF Types
      <3>2. CASE doomed' = [doomed EXCEPT ![r] = Ours(surface)]
        <4> DEFINE o == Ours(surface)
        <4> HIDE DEF o
        <4> QED BY <2>4, <3>2 DEF Types, o
      <3> QED BY <2>2, <3>1, <3>2
    <2>6. batch' \in [Runs -> Seq(Findings)] /\ Len(Inline(report[r])) \in Nat
      BY <2>2, <2>3, LenProperties DEF Types
    <2>7. \A m \in Runs : posted'[m] <= Len(batch'[m])
      <3>1. posted[r] = 0
        BY <1>6 DEF StartEmit, Types, Early
      <3> QED BY <2>2, <2>6, <3>1 DEF Types
    <2> QED BY <1>f, <1>g, <2>1, <2>2, <2>5, <2>6, <2>7 DEF Types
  <1>7. CASE DeleteOne(r)
    <2>1. PICK i \in doomed[r] :
            /\ doomed' = [doomed EXCEPT ![r] = @ \ {i}]
            /\ surface' \in {surface, surface \ {i}}
            /\ Sound \/ Fault(r)
      BY <1>7 DEF DeleteOne
    <2>2. UNCHANGED <<stage, touched, cut, report, listed, batch, posted, exit, store, saved>>
      BY <1>7 DEF DeleteOne
    <2>3. doomed' \in [Runs -> SUBSET Page] /\ \A m \in Runs : Ours(doomed'[m]) = doomed'[m]
      BY <2>1 DEF Ours, Types
    <2>4. surface' \subseteq Page /\ IsFiniteSet(surface')
      <3>1. surface \subseteq Page /\ IsFiniteSet(surface)
        BY DEF Types
      <3> QED BY <2>1, <3>1, FS_RemoveElement
    <2> QED BY <1>f, <1>g, <2>1, <2>2, <2>3, <2>4 DEF Types
  <1>8. CASE PostChunk(r)
    <2> DEFINE I(n) == Items(r, posted[r] + 1, ChunkEnd(r), n)
    <2>1. /\ stage' \in [Runs -> Stages] /\ posted' \in {posted, [posted EXCEPT ![r] = ChunkEnd(r)]}
          /\ exit' \in [Runs -> {"none", "clean", "blocked", "error"}]
          /\ stage[r] = "posting" /\ \A m \in Runs : stage'[m] \in Early => stage[m] \in Early
      BY <1>8 DEF PostChunk, Types, Stages, Ended, Early
    <2>2. /\ UNCHANGED <<touched, cut, report, listed, batch, doomed, store, saved>>
          /\ Sound \/ Fault(r)
          /\ surface' \in {surface, surface \cup I(1), surface \cup I(2)}
      BY <1>8 DEF PostChunk
    <2>3. \A n \in {1, 2} : I(n) \subseteq Page /\ IsFiniteSet(I(n))
      BY ItemsOnPage, ChunkWithin
    <2> HIDE DEF I
    <2>4. surface' \subseteq Page /\ IsFiniteSet(surface')
      <3>1. surface \subseteq Page /\ IsFiniteSet(surface)
        BY DEF Types
      <3>2. \A n \in {1, 2} : IsFiniteSet(surface \cup I(n))
        BY <2>3, <3>1, FS_Union
      <3> QED BY <2>2, <2>3, <3>1, <3>2
    <2>5. /\ posted' \in [Runs -> Nat] /\ \A m \in Runs : posted'[m] <= Len(batch'[m])
          /\ \A m \in Runs : stage'[m] \in Early => posted'[m] = 0
      <3>1. posted \in [Runs -> Nat] /\ \A m \in Runs : posted[m] <= Len(batch[m])
        BY DEF Types
      <3>2. \A m \in Runs : stage[m] \in Early => posted[m] = 0
        BY DEF Types
      <3>3. ChunkEnd(r) \in Nat /\ ChunkEnd(r) <= Len(batch[r])
        BY ChunkWithin
      <3>4. stage[r] \notin Early /\ batch' = batch
        BY <2>1, <2>2 DEF Early
      <3>5. /\ posted' \in [Runs -> Nat]
            /\ \A m \in Runs : posted'[m] = posted[m] \/ (m = r /\ posted'[m] = ChunkEnd(r))
        BY <2>1, <3>1, <3>3
      <3>6. \A m \in Runs : posted'[m] <= Len(batch'[m])
        BY <3>1, <3>3, <3>4, <3>5
      <3>7. \A m \in Runs : stage'[m] \in Early => posted'[m] = 0
        BY <2>1, <3>2, <3>4, <3>5
      <3> QED BY <3>5, <3>6, <3>7
    <2> QED BY <1>f, <1>g, <2>1, <2>2, <2>4, <2>5 DEF Types
  <1>9. CASE Finish(r) \/ Crash(r)
    <2>1. /\ stage' \in [Runs -> Stages] /\ exit' \in [Runs -> {"none", "clean", "blocked", "error"}]
          /\ \A m \in Runs : stage'[m] \in Early => stage[m] \in Early
      BY <1>9 DEF Finish, Crash, ExitOf, Types, Stages, Ended, Early
    <2>2. /\ UNCHANGED <<touched, cut, report, listed, batch, doomed, posted, store, saved, surface>>
          /\ Sound \/ Fault(r)
      BY <1>9 DEF Finish, Crash
    <2> QED BY <1>f, <1>g, <2>1, <2>2 DEF Types
  <1> QED
    BY <1>1, <1>2, <1>3, <1>4, <1>5, <1>6, <1>7, <1>8, <1>9 DEF Step

LEMMA TypesNext == Types /\ [Next]_vars => Types'
PROOF
  <1>1. ASSUME Types, UNCHANGED vars PROVE Types'
    BY <1>1 DEF Types, vars
  <1> QED
    BY <1>1, TypesStep DEF Next

\* The state of every run is what its stage says, for every number of runs,
\* comments and faults, whether or not the runs overlap.
THEOREM TypeCorrect == Spec => []TypeOK
PROOF
  <1>1. Types => TypeOK
    BY DEF Types, TypeOK, Stages, Early, Ended, Ours
  <1> QED
    BY <1>1, TypesInit, TypesNext, PTL DEF Spec

-----------------------------------------------------------------------------
(* What a step does to the run that takes it, and to no other *)

NewFile == IF StoreSurvives THEN UNCHANGED file ELSE store' = << >> /\ saved' = {}
SameRun(r) == /\ touched'[r] = touched[r] /\ report'[r] = report[r] /\ listed'[r] = listed[r]
              /\ batch'[r] = batch[r] /\ doomed'[r] = doomed[r] /\ posted'[r] = posted[r]
Faultless(r) == clean'[r] = clean[r]

DidReview(r) ==
  /\ stage[r] = "idle" /\ stage'[r] = "reviewed" /\ NewFile /\ Faultless(r)
  /\ touched'[r] # {} /\ \A f \in ToSet(report'[r]) : f.comment.path \in touched'[r]
  /\ listed'[r] = listed[r] /\ batch'[r] = batch[r] /\ doomed'[r] = doomed[r]
  /\ posted'[r] = posted[r] /\ surface' = surface
DidNothing(r) ==
  /\ stage[r] = "idle" /\ stage'[r] \in {"failed", "done"} /\ NewFile
  /\ SameRun(r) /\ surface' = surface
DidList(r) ==
  /\ stage[r] = "reviewed" /\ stage'[r] = "listed" /\ UNCHANGED file /\ surface' = surface
  /\ touched'[r] = touched[r] /\ report'[r] = report[r]
  /\ batch'[r] = batch[r] /\ doomed'[r] = doomed[r] /\ posted'[r] = posted[r]
  /\ \/ (\E outdated : listed'[r] = Listing(outdated)) /\ Faultless(r)
     \/ listed'[r] = listed[r] /\ ~clean'[r]
DidLoad(r) ==
  /\ stage[r] = "listed" /\ stage'[r] = "loaded" /\ UNCHANGED file /\ surface' = surface
  /\ report'[r] = Reconcile(Previous(r), report[r], touched[r]) /\ Faultless(r)
  /\ touched'[r] = touched[r] /\ listed'[r] = listed[r]
  /\ batch'[r] = batch[r] /\ doomed'[r] = doomed[r] /\ posted'[r] = posted[r]
DidSkip(r) ==
  /\ stage[r] = "listed" /\ stage'[r] = "emitting" /\ UNCHANGED file /\ surface' = surface
  /\ SameRun(r) /\ ~clean'[r]
DidSave(r) ==
  /\ stage[r] = "loaded" /\ stage'[r] = "emitting" /\ SameRun(r) /\ surface' = surface
  /\ \/ store' = report[r] /\ saved' = saved \cup {r} /\ Faultless(r)
     \/ UNCHANGED file /\ ~clean'[r]
DidEmit(r) ==
  /\ stage[r] = "emitting" /\ stage'[r] = "posting" /\ UNCHANGED file /\ surface' = surface
  /\ batch'[r] = Inline(report[r])
  /\ touched'[r] = touched[r] /\ report'[r] = report[r] /\ listed'[r] = listed[r]
  /\ posted'[r] = posted[r]
  /\ \/ doomed'[r] = Ours(surface) /\ Faultless(r)
     \/ doomed'[r] = doomed[r] /\ ~clean'[r]
DidDelete(r) ==
  /\ stage[r] = "posting" /\ stage'[r] = "posting" /\ UNCHANGED file
  /\ touched'[r] = touched[r] /\ report'[r] = report[r] /\ listed'[r] = listed[r]
  /\ batch'[r] = batch[r] /\ posted'[r] = posted[r]
  /\ \E i \in doomed[r] :
       /\ doomed'[r] = doomed[r] \ {i}
       /\ \/ surface' = surface \ {i} /\ Faultless(r)
          \/ surface' = surface /\ ~clean'[r]
DidPost(r) ==
  /\ stage[r] = "posting" /\ stage'[r] \in {"posting", "failed"} /\ UNCHANGED file
  /\ touched'[r] = touched[r] /\ report'[r] = report[r] /\ listed'[r] = listed[r]
  /\ batch'[r] = batch[r] /\ doomed'[r] = doomed[r] /\ doomed[r] = {}
  /\ \/ /\ stage'[r] = "posting" /\ posted'[r] = ChunkEnd(r) /\ Faultless(r)
        /\ surface' = surface \cup Items(r, posted[r] + 1, ChunkEnd(r), 1)
     \/ /\ ~clean'[r]
        /\ surface' \in {surface, surface \cup Items(r, posted[r] + 1, ChunkEnd(r), 1),
                         surface \cup Items(r, posted[r] + 1, ChunkEnd(r), 2)}
DidFinish(r) ==
  /\ stage[r] = "posting" /\ stage'[r] = "done" /\ UNCHANGED file /\ surface' = surface
  /\ SameRun(r) /\ Faultless(r) /\ doomed[r] = {} /\ posted[r] = Len(batch[r])
DidCrash(r) ==
  /\ stage[r] \notin Ended \cup {"idle"} /\ stage'[r] = "crashed" /\ UNCHANGED file
  /\ surface' = surface /\ SameRun(r) /\ ~clean'[r]

LEMMA Effect ==
  ASSUME Types, NEW r \in Runs, Step(r)
  PROVE  \/ DidReview(r) \/ DidNothing(r) \/ DidList(r) \/ DidLoad(r) \/ DidSkip(r)
         \/ DidSave(r) \/ DidEmit(r) \/ DidDelete(r) \/ DidPost(r) \/ DidFinish(r)
         \/ DidCrash(r)
PROOF
  <1> USE DEF Go, Exit, Sound, Fault, input, output, file, Faultless, SameRun
  <1>a. /\ DOMAIN stage = Runs /\ DOMAIN touched = Runs /\ DOMAIN report = Runs
        /\ DOMAIN listed = Runs /\ DOMAIN batch = Runs /\ DOMAIN doomed = Runs
        /\ DOMAIN posted = Runs /\ DOMAIN clean = Runs
    BY DEF Types
  <1>1. ASSUME Review(r) PROVE DidReview(r)
    <2>1. PICK paths \in SUBSET Paths, stopped \in SUBSET Paths, fresh \in Seq(Findings) :
            /\ paths # {} /\ \A f \in ToSet(fresh) : f.comment.path \in paths
            /\ touched' = [touched EXCEPT ![r] = paths]
            /\ report' = [report EXCEPT ![r] = fresh]
      BY <1>1, ReviewEffect
    <2>2. touched'[r] = paths /\ report'[r] = fresh
      BY <1>a, <2>1
    <2>3. /\ stage[r] = "idle" /\ stage'[r] = "reviewed" /\ NewFile /\ clean' = clean
          /\ UNCHANGED <<listed, batch, doomed, posted, surface>>
      BY <1>1, <1>a DEF Review, Begin, NewFile
    <2> QED BY <2>1, <2>2, <2>3 DEF DidReview
  <1>2. ASSUME ReviewFails(r) \/ NothingToReview(r) PROVE DidNothing(r)
    BY <1>2, <1>a DEF ReviewFails, NothingToReview, Begin, NewFile, DidNothing
  <1>3. ASSUME ListForCarryover(r) PROVE DidList(r)
    BY <1>3, <1>a DEF ListForCarryover, DidList
  <1>4. ASSUME LoadFindings(r) PROVE DidLoad(r) \/ DidSkip(r)
    <2> DEFINE new == Reconcile(Previous(r), report[r], touched[r])
    <2>1. \/ /\ stage[r] = "listed" /\ stage' = [stage EXCEPT ![r] = "loaded"] /\ clean' = clean
             /\ report' = [report EXCEPT ![r] = new]
          \/ /\ stage[r] = "listed" /\ stage' = [stage EXCEPT ![r] = "emitting"]
             /\ report' = report /\ clean' = [clean EXCEPT ![r] = FALSE]
      BY <1>4 DEF LoadFindings
    <2>2. UNCHANGED <<touched, listed, batch, doomed, posted, file, surface>>
      BY <1>4 DEF LoadFindings
    <2> HIDE DEF new
    <2>3. \/ /\ stage[r] = "listed" /\ stage'[r] = "loaded" /\ clean'[r] = clean[r]
             /\ report'[r] = new
          \/ /\ stage[r] = "listed" /\ stage'[r] = "emitting"
             /\ report'[r] = report[r] /\ ~clean'[r]
      BY <2>1, <1>a
    <2> QED BY <2>2, <2>3 DEF DidLoad, DidSkip, new
  <1>5. ASSUME SaveFindings(r) PROVE DidSave(r)
    BY <1>5, <1>a DEF SaveFindings, DidSave
  <1>6. ASSUME StartEmit(r) PROVE DidEmit(r)
    BY <1>6, <1>a DEF StartEmit, DidEmit
  <1>7. ASSUME DeleteOne(r) PROVE DidDelete(r)
    BY <1>7, <1>a DEF DeleteOne, DidDelete
  <1>8. ASSUME PostChunk(r) PROVE DidPost(r)
    BY <1>8, <1>a DEF PostChunk, DidPost
  <1>9. ASSUME Finish(r) PROVE DidFinish(r)
    BY <1>9, <1>a DEF Finish, DidFinish
  <1>10. ASSUME Crash(r) PROVE DidCrash(r)
    BY <1>10, <1>a DEF Crash, DidCrash, Active
  <1> QED
    BY <1>1, <1>2, <1>3, <1>4, <1>5, <1>6, <1>7, <1>8, <1>9, <1>10 DEF Step

LEMMA Frame ==
  ASSUME Types, NEW r \in Runs, Step(r), NEW m \in Runs, m # r
  PROVE  SameRun(m) /\ stage'[m] = stage[m] /\ clean'[m] = clean[m]
PROOF
  <1> USE DEF Go, Exit, Sound, Fault, input, output, file, SameRun
  <1>a. /\ DOMAIN stage = Runs /\ DOMAIN touched = Runs /\ DOMAIN report = Runs
        /\ DOMAIN listed = Runs /\ DOMAIN batch = Runs /\ DOMAIN doomed = Runs
        /\ DOMAIN posted = Runs /\ DOMAIN clean = Runs
    BY DEF Types
  <1>1. CASE Review(r)
    <2>1. PICK paths \in SUBSET Paths, stopped \in SUBSET Paths, fresh \in Seq(Findings) :
            /\ paths # {} /\ stopped \subseteq paths
            /\ \A f \in ToSet(fresh) : f.comment.path \in paths
            /\ touched' = [touched EXCEPT ![r] = paths]
            /\ cut' = [cut EXCEPT ![r] = stopped]
            /\ report' = [report EXCEPT ![r] = fresh]
      BY <1>1, ReviewEffect
    <2>2. stage' = [stage EXCEPT ![r] = "reviewed"] /\ clean' = clean
          /\ UNCHANGED <<listed, batch, doomed, posted>>
      BY <1>1 DEF Review, Begin
    <2> QED BY <1>a, <2>1, <2>2
  <1>2. CASE ReviewFails(r) \/ NothingToReview(r)
    BY <1>2, <1>a DEF ReviewFails, NothingToReview, Begin
  <1>3. CASE ListForCarryover(r)
    BY <1>3, <1>a DEF ListForCarryover
  <1>4. CASE LoadFindings(r)
    BY <1>4, <1>a DEF LoadFindings
  <1>5. CASE SaveFindings(r)
    BY <1>5, <1>a DEF SaveFindings
  <1>6. CASE StartEmit(r)
    BY <1>6, <1>a DEF StartEmit
  <1>7. CASE DeleteOne(r)
    BY <1>7, <1>a DEF DeleteOne
  <1>8. CASE PostChunk(r)
    BY <1>8, <1>a DEF PostChunk
  <1>9. CASE Finish(r) \/ Crash(r)
    BY <1>9, <1>a DEF Finish, Crash
  <1> QED
    BY <1>1, <1>2, <1>3, <1>4, <1>5, <1>6, <1>7, <1>8, <1>9 DEF Step

\* Only one run is at work: those before it have ended, those after it are idle.
LEMMA OneAtWork ==
  ASSUME Types, Serial, ~Overlapping, NEW r \in Runs, Step(r)
  PROVE  /\ \A m \in Runs : m < r => stage[m] \in Ended
         /\ \A m \in Runs : m > r => stage[m] = "idle"
         /\ Serial'
PROOF
  <1>1. stage[r] = "idle" => (r > 1 => stage[r - 1] \in Ended)
    BY DEF Step, Review, ReviewFails, NothingToReview, Begin, Go, ListForCarryover, LoadFindings,
           SaveFindings, StartEmit, DeleteOne, PostChunk, Finish, Crash, Active
  <1>2. stage[r] \notin Ended /\ stage'[r] # "idle"
    BY Effect DEF DidReview, DidNothing, DidList, DidLoad, DidSkip, DidSave, DidEmit, DidDelete,
                  DidPost, DidFinish, DidCrash, Ended
  <1>3. ASSUME NEW m \in Runs, m < r PROVE stage[m] \in Ended
    <2>1. CASE stage[r] # "idle"
      BY <1>3, <2>1 DEF Serial
    <2>2. CASE stage[r] = "idle"
      <3>1. r - 1 \in Runs /\ stage[r - 1] \in Ended /\ (m = r - 1 \/ m < r - 1)
        BY <1>1, <1>3, <2>2, BoundsAssumption DEF Runs
      <3>2. stage[r - 1] # "idle"
        BY <3>1 DEF Ended
      <3> QED BY <3>1, <3>2 DEF Serial
    <2> QED BY <2>1, <2>2
  <1>4. ASSUME NEW m \in Runs, m > r PROVE stage[m] = "idle"
    BY <1>2, <1>4 DEF Serial, Runs
  <1>5. \A m \in Runs : m # r => stage'[m] = stage[m]
    BY Frame
  <1>6. Serial'
    BY <1>3, <1>4, <1>5 DEF Serial, Runs
  <1> QED
    BY <1>3, <1>4, <1>6

-----------------------------------------------------------------------------
(* The stages of a run *)

LEMMA OrderlyStep ==
  ASSUME Types, Serial, ~Overlapping, Orderly, NEW r \in Runs, Step(r)
  PROVE  Orderly'
PROOF
  <1>1. ASSUME NEW m \in Runs, m # r PROVE OrderlyRun(m)'
    <2>1. SameRun(m) /\ stage'[m] = stage[m] /\ clean'[m] = clean[m] /\ OrderlyRun(m)
      BY <1>1, Frame DEF Orderly
    <2>2. stage[m] \in Ended \cup {"idle"}
      BY <1>1, OneAtWork DEF Runs
    <2>3. m \notin saved => m \notin saved'
      BY <1>1, Effect DEF DidReview, DidNothing, DidList, DidLoad, DidSkip, DidSave, DidEmit,
                          DidDelete, DidPost, DidFinish, DidCrash, NewFile, file
    <2> QED BY <2>1, <2>2, <2>3 DEF OrderlyRun, SameRun, Posted, Ended, Early
  <1>2. OrderlyRun(r)
    BY DEF Orderly
  <1> USE DEF OrderlyRun, SameRun, Faultless, Posted, file
  <1>3. ASSUME DidReview(r) PROVE OrderlyRun(r)'
    BY <1>2, <1>3 DEF DidReview, NewFile, Early
  <1>4. ASSUME DidNothing(r) PROVE OrderlyRun(r)'
    BY <1>2, <1>4 DEF DidNothing, Early
  <1>5. ASSUME DidList(r) PROVE OrderlyRun(r)'
    BY <1>2, <1>5 DEF DidList, Early
  <1>6. ASSUME DidLoad(r) PROVE OrderlyRun(r)'
    BY <1>2, <1>6 DEF DidLoad, Early
  <1>7. ASSUME DidSkip(r) PROVE OrderlyRun(r)'
    BY <1>2, <1>7 DEF DidSkip, Early
  <1>8. ASSUME DidSave(r) PROVE OrderlyRun(r)'
    BY <1>2, <1>8 DEF DidSave, Early
  <1>9. ASSUME DidEmit(r) PROVE OrderlyRun(r)'
    BY <1>2, <1>9 DEF DidEmit, Early
  <1>10. ASSUME DidDelete(r) PROVE OrderlyRun(r)'
    BY <1>2, <1>10 DEF DidDelete, Early
  <1>11. ASSUME DidPost(r) PROVE OrderlyRun(r)'
    BY <1>2, <1>11 DEF DidPost, Early
  <1>12. ASSUME DidFinish(r) PROVE OrderlyRun(r)'
    BY <1>2, <1>12 DEF DidFinish, Early
  <1>13. ASSUME DidCrash(r) PROVE OrderlyRun(r)'
    BY <1>2, <1>13 DEF DidCrash, Early
  <1>14. OrderlyRun(r)'
    BY Effect, <1>3, <1>4, <1>5, <1>6, <1>7, <1>8, <1>9, <1>10, <1>11, <1>12, <1>13
  <1> QED
    BY <1>1, <1>14 DEF Orderly

-----------------------------------------------------------------------------
(* The comments on the pull request *)

\* A chunk is its comments: what has been posted and the chunk make one list.
LEMMA ChunkJoins ==
  ASSUME NEW r, NEW m \in Nat, NEW n \in Nat, m <= n
  PROVE  Items(r, 1, n, 1) = Items(r, 1, m, 1) \cup Items(r, m + 1, n, 1)
PROOF
  BY DEF Items

LEMMA PageStep ==
  ASSUME Types, Serial, ~Overlapping, Orderly, PageInv, NEW r \in Runs, Step(r)
  PROVE  PageInv'
PROOF
  <1> DEFINE Wipe(m) == /\ Ours(surface) = doomed[m] \cup Items(m, 1, posted[m], 1)
                        /\ posted[m] # 0 => doomed[m] = {}
             Alone(m) == \A k \in Runs : k > m => Idle(k)
             Run(m) == clean[m] =>
                         /\ stage[m] = "posting" => Wipe(m)
                         /\ Posted(m) /\ Alone(m) => Ours(surface) = Items(m, 1, Len(batch[m]), 1)
  <1>a. \A m \in Runs : Run(m)
    BY DEF PageInv
  <1>b. clean[r] \in BOOLEAN /\ clean'[r] \in BOOLEAN
    BY TypesStep DEF Types
  <1>1. ASSUME NEW m \in Runs, m # r PROVE Run(m)'
    <2>1. stage'[m] = stage[m]
      BY <1>1, Frame
    <2>2. stage[m] # "posting"
      BY <1>1, OneAtWork DEF Runs, Ended
    <2>3. CASE m > r
      BY <2>1, <2>2, <2>3, OneAtWork DEF Posted
    <2>4. CASE m < r
      <3>1. stage'[r] # "idle"
        BY Effect DEF DidReview, DidNothing, DidList, DidLoad, DidSkip, DidSave, DidEmit,
                      DidDelete, DidPost, DidFinish, DidCrash
      <3> QED BY <2>1, <2>2, <2>4, <3>1 DEF Idle
    <2> QED BY <1>1, <2>3, <2>4 DEF Runs
  <1>2. ASSUME stage'[r] # "posting", stage'[r] # "done" PROVE Run(r)'
    BY <1>2 DEF Posted
  <1>3. ASSUME DidNothing(r) PROVE Run(r)'
    BY <1>3 DEF DidNothing, Orderly, OrderlyRun, SameRun, Posted
  <1>4. ASSUME DidEmit(r) PROVE Run(r)'
    <2>1. posted'[r] = 0 /\ stage'[r] = "posting" /\ surface' = surface
      BY <1>4 DEF DidEmit, Types, Early
    <2>2. ASSUME clean'[r] PROVE Ours(surface)' = doomed'[r]
      BY <1>4, <2>1, <2>2 DEF DidEmit, Ours
    <2>3. Items(r, 1, 0, 1) = {}
      BY DEF Items
    <2>4. Items(r, 1, posted[r], 1)' = {}
      BY <2>1 DEF Items
    <2> QED BY <2>1, <2>2, <2>4 DEF Posted
  <1>5. ASSUME DidDelete(r) PROVE Run(r)'
    <2> SUFFICES ASSUME clean'[r] PROVE Wipe(r)'
      BY <1>5 DEF DidDelete, Posted
    <2>1. PICK i \in doomed[r] : doomed'[r] = doomed[r] \ {i} /\ surface' = surface \ {i}
      BY <1>5 DEF DidDelete
    <2>2. Wipe(r) /\ posted'[r] = posted[r] /\ batch'[r] = batch[r]
      BY <1>5, <1>a DEF DidDelete, Faultless
    <2>3. posted[r] = 0
      BY <2>1, <2>2
    <2>4. Items(r, 1, posted[r], 1) = {} /\ Items(r, 1, posted[r], 1)' = {}
      BY <2>2, <2>3 DEF Items
    <2>5. Ours(surface)' = Ours(surface) \ {i}
      BY <2>1 DEF Ours
    <2> QED BY <2>1, <2>2, <2>3, <2>4, <2>5
  <1>6. ASSUME DidPost(r) PROVE Run(r)'
    <2> SUFFICES ASSUME clean'[r], stage'[r] = "posting" PROVE Wipe(r)'
      BY <1>6 DEF DidPost, Posted
    <2>1. /\ posted'[r] = ChunkEnd(r) /\ doomed[r] = {} /\ doomed'[r] = {} /\ batch'[r] = batch[r]
          /\ surface' = surface \cup Items(r, posted[r] + 1, ChunkEnd(r), 1)
      BY <1>6 DEF DidPost
    <2>2. Ours(surface) = Items(r, 1, posted[r], 1)
      BY <1>6, <1>a, <2>1 DEF DidPost, Faultless
    <2>3. Ours(surface)' = Ours(surface) \cup Items(r, posted[r] + 1, ChunkEnd(r), 1)
      BY <2>1 DEF Ours, Items, Item, OnPR
    <2>4. Ours(surface)' = Items(r, 1, ChunkEnd(r), 1)
      BY <2>2, <2>3, ChunkWithin, ChunkJoins
    <2>5. Items(r, 1, posted[r], 1)' = Items(r, 1, ChunkEnd(r), 1)
      BY <2>1 DEF Items, Item
    <2> QED BY <2>1, <2>4, <2>5
  <1>7. ASSUME DidFinish(r) PROVE Run(r)'
    <2> SUFFICES ASSUME clean'[r], stage'[r] = "done"
                 PROVE  (Ours(surface) = Items(r, 1, Len(batch[r]), 1))'
      BY <1>7 DEF DidFinish
    <2>1. doomed[r] = {} /\ posted[r] = Len(batch[r]) /\ batch'[r] = batch[r] /\ surface' = surface
      BY <1>7 DEF DidFinish, SameRun
    <2>2. Ours(surface) = Items(r, 1, Len(batch[r]), 1)
      BY <1>7, <1>a, <2>1 DEF DidFinish, Faultless
    <2>3. Items(r, 1, Len(batch[r]), 1)' = Items(r, 1, Len(batch[r]), 1)
      BY <2>1 DEF Items, Item
    <2> QED BY <2>1, <2>2, <2>3 DEF Ours
  <1>8. Run(r)'
    BY <1>2, <1>3, <1>4, <1>5, <1>6, <1>7, Effect
       DEF DidReview, DidList, DidLoad, DidSkip, DidSave, DidCrash
  <1> QED
    BY <1>1, <1>8 DEF PageInv

-----------------------------------------------------------------------------
(* What is saved is posted *)

\* How the runs stand around the one that takes a step.
LEMMA Around ==
  ASSUME Types, Serial, ~Overlapping, Orderly, NEW r \in Runs, Step(r)
  PROVE  /\ \A m \in Runs : m > r => /\ stage[m] = "idle" /\ touched[m] = {} /\ m \notin saved
                                     /\ stage'[m] = "idle" /\ touched'[m] = {} /\ m \notin saved'
                                     /\ listed'[m] = {} /\ report'[m] = << >>
         /\ \A m \in Runs : m # r => SameRun(m) /\ stage'[m] = stage[m] /\ clean'[m] = clean[m]
PROOF
  <1>1. \A m \in Runs : m # r => SameRun(m) /\ stage'[m] = stage[m] /\ clean'[m] = clean[m]
    BY Frame
  <1>2. ASSUME NEW m \in Runs, m > r
        PROVE  /\ stage[m] = "idle" /\ touched[m] = {} /\ m \notin saved
               /\ stage'[m] = "idle" /\ touched'[m] = {} /\ m \notin saved'
               /\ listed'[m] = {} /\ report'[m] = << >>
    <2>1. stage[m] = "idle"
      BY <1>2, OneAtWork
    <2>2. stage'[m] = "idle" /\ m # r
      BY <1>1, <1>2, <2>1 DEF Runs
    <2>3. OrderlyRun(m) /\ OrderlyRun(m)'
      BY OrderlyStep DEF Orderly
    <2> QED BY <2>1, <2>2, <2>3 DEF OrderlyRun
  <1> QED BY <1>1, <1>2

\* A review leaves what later runs may not have touched a smaller set.
LEMMA StillUntouched ==
  ASSUME Types, Serial, ~Overlapping, Orderly, NEW r \in Runs, Step(r), NEW q \in Runs, NEW path
  PROVE  /\ Untouched(q, path)' => Untouched(q, path)
         /\ \A m \in Runs : m # r => (UntouchedSince(q, m, path)' => UntouchedSince(q, m, path))
         /\ touched'[r] = touched[r] =>
              (UntouchedSince(q, r, path)' <=> UntouchedSince(q, r, path))
         /\ UntouchedSince(q, r, path) <=> Untouched(q, path)
PROOF
  <1>1. \A m \in Runs : m # r => touched'[m] = touched[m]
    BY Around DEF SameRun
  <1>2. touched[r] \subseteq touched'[r]
    BY Effect DEF DidReview, DidNothing, DidList, DidLoad, DidSkip, DidSave, DidEmit,
                  DidDelete, DidPost, DidFinish, DidCrash, SameRun, Orderly, OrderlyRun
  <1>3. \A m \in Runs : touched[m] \subseteq touched'[m]
    BY <1>1, <1>2
  <1>4. \A m \in Runs : m > r => touched[m] = {}
    BY Around
  <1>5. \A m \in Runs : \A k \in (q + 1)..m : k \in Runs
    BY BoundsAssumption DEF Runs
  <1>6. \A m \in Runs : m > q => m \in (q + 1)..r \/ m > r
    BY DEF Runs
  <1> QED
    <2>1. UntouchedSince(q, r, path) => Untouched(q, path)
      BY <1>4, <1>6 DEF Untouched, UntouchedSince
    <2>2. Untouched(q, path) => UntouchedSince(q, r, path)
      BY <1>5, BoundsAssumption DEF Untouched, UntouchedSince, Runs
    <2> QED
      BY <1>1, <1>3, <1>5, <2>1, <2>2 DEF Untouched, UntouchedSince

LEMMA KeepStep ==
  ASSUME Types, Serial, ~Overlapping, Orderly, KeepInv, NEW r \in Runs, Step(r)
  PROVE  KeepInv'
PROOF
  <1> USE DEF Faultless, SameRun, file
  <1>a. clean[r] \in BOOLEAN /\ clean'[r] \in BOOLEAN /\ saved \subseteq Runs /\ OrderlyRun(r)
    BY TypesStep DEF Types, Orderly
  <1>b. Types' /\ Orderly'
    BY TypesStep, OrderlyStep
  <1>1. ASSUME UNCHANGED file,
               \A q \in saved : \A f \in ToSet(Inline(report[q])) :
                 q < r /\ Carried(r)' /\ UntouchedSince(q, r, f.comment.path)' =>
                   Shows(report'[r], f),
               r \in saved => report'[r] = report[r]
        PROVE  KeepInv'
    <2> SUFFICES ASSUME NEW q \in saved, NEW f \in ToSet(Inline(report'[q]))
                 PROVE  /\ Untouched(q, f.comment.path)' => Shows(store', f)
                        /\ \A m \in Runs : q < m /\ Carried(m)' /\ UntouchedSince(q, m, f.comment.path)'
                             => Shows(report'[m], f)
      BY <1>1 DEF KeepInv, Shows
    <2>1. report'[q] = report[q] /\ q \in Runs
      BY <1>1, <1>a, Around
    <2>2. Untouched(q, f.comment.path)' => Shows(store', f)
      BY <1>1, <2>1, StillUntouched DEF KeepInv
    <2>3. ASSUME NEW m \in Runs, q < m, Carried(m)', UntouchedSince(q, m, f.comment.path)', m # r
          PROVE  Shows(report'[m], f)
      <3>1. Carried(m) /\ report'[m] = report[m]
        BY <1>1, <2>3, Around DEF Carried
      <3>2. UntouchedSince(q, m, f.comment.path)
        BY <2>1, <2>3, StillUntouched
      <3> QED BY <2>1, <2>3, <3>1, <3>2 DEF KeepInv
    <2> QED BY <1>1, <2>1, <2>2, <2>3
  <1>2. ASSUME saved' = {} PROVE KeepInv'
    BY <1>2 DEF KeepInv
  <1>3. ASSUME DidReview(r) \/ DidNothing(r), UNCHANGED file PROVE KeepInv'
    <2>1. ~Carried(r)' /\ r \notin saved
      BY <1>3, <1>a DEF DidReview, DidNothing, Carried, OrderlyRun
    <2> QED BY <1>1, <1>3, <2>1
  <1>4. ASSUME DidList(r) \/ DidSkip(r) PROVE KeepInv'
    <2>1. ~Carried(r)' /\ r \notin saved /\ UNCHANGED file
      BY <1>4, <1>a DEF DidList, DidSkip, Carried, OrderlyRun
    <2> QED BY <1>1, <2>1
  <1>5. ASSUME DidLoad(r) PROVE KeepInv'
    <2>1. r \notin saved /\ UNCHANGED file
      BY <1>5, <1>a DEF DidLoad, OrderlyRun
    <2>2. ASSUME NEW q \in saved, NEW f \in ToSet(Inline(report[q])), q < r,
                 UntouchedSince(q, r, f.comment.path)'
          PROVE  Shows(report'[r], f)
      <3>1. touched'[r] = touched[r] /\ q \in Runs
        BY <1>5, <1>a DEF DidLoad
      <3>2. UntouchedSince(q, r, f.comment.path) /\ Untouched(q, f.comment.path)
        BY <2>2, <3>1, StillUntouched
      <3>3. PICK g \in ToSet(Inline(store)) : g.comment = f.comment
        BY <3>2 DEF KeepInv, Shows
      <3>4. store \in Seq(Findings) /\ report[r] \in Seq(Findings)
        BY DEF Types
      <3>5. store # << >>
        <4>1. g \in ToSet(store)
          BY <3>3, <3>4, InlineCovers
        <4> QED BY <4>1 DEF ToSet
      <3>6. report'[r] = Reconcile(store, report[r], touched[r])
        BY <1>5, <3>5 DEF DidLoad, Previous
      <3>7. f.comment.path \notin touched[r]
        BY <2>2, <3>1, <3>2 DEF UntouchedSince, Runs
      <3>8. \A h \in ToSet(report[r]) : h.comment.path \in touched[r]
        BY <1>5, <1>a DEF DidLoad, OrderlyRun
      <3>9. g \in ToSet(Inline(Reconcile(store, report[r], touched[r])))
        BY <3>3, <3>4, <3>7, <3>8, ReconcilePosts
      <3> QED BY <3>3, <3>6, <3>9 DEF Shows
    <2> QED BY <1>1, <2>1, <2>2
  <1>6. ASSUME DidSave(r), store' = report[r], saved' = saved \cup {r} PROVE KeepInv'
    <2> SUFFICES ASSUME NEW q \in saved \cup {r}, NEW f \in ToSet(Inline(report'[q]))
                 PROVE  /\ Untouched(q, f.comment.path)' => Shows(store', f)
                        /\ \A m \in Runs : q < m /\ Carried(m)' /\ UntouchedSince(q, m, f.comment.path)'
                             => Shows(report'[m], f)
      BY <1>6 DEF KeepInv, Shows
    <2>1. q \in Runs /\ report'[q] = report[q] /\ report'[r] = report[r] /\ touched'[r] = touched[r]
      BY <1>6, <1>a, Around DEF DidSave
    <2>2. q < r \/ q = r
      BY <1>a, Around DEF Runs
    <2>3. Carried(r)
      BY <1>6 DEF DidSave, Carried
    <2>4. ASSUME NEW m \in Runs, q < m, Carried(m)', UntouchedSince(q, m, f.comment.path)', m # r
          PROVE  Shows(report'[m], f)
      <3>1. Carried(m) /\ report'[m] = report[m]
        BY <1>6, <2>4, Around DEF Carried
      <3>2. m < r
        BY <2>4, <3>1, Around DEF Carried, Runs
      <3>3. UntouchedSince(q, m, f.comment.path) /\ q \in saved
        BY <2>1, <2>4, <3>2, StillUntouched DEF Runs
      <3> QED BY <2>1, <2>4, <3>1, <3>3 DEF KeepInv
    <2>5. q < r /\ UntouchedSince(q, r, f.comment.path) => Shows(report[r], f)
      BY <2>1, <2>3 DEF KeepInv, Runs
    <2>6. UntouchedSince(q, r, f.comment.path)' => UntouchedSince(q, r, f.comment.path)
      BY <2>1, StillUntouched
    <2>7. ASSUME Untouched(q, f.comment.path)' PROVE Shows(store', f)
      <3>1. q < r => UntouchedSince(q, r, f.comment.path)
        BY <2>1, <2>7, StillUntouched
      <3>2. q = r => Shows(report[r], f)
        BY <2>1 DEF Shows
      <3> QED BY <1>6, <2>2, <2>5, <3>1, <3>2
    <2> QED BY <2>1, <2>4, <2>5, <2>6, <2>7
  <1>7. ASSUME DidSave(r), UNCHANGED file, ~clean'[r] PROVE KeepInv'
    <2>1. ~Carried(r)' /\ r \notin saved
      BY <1>7, <1>a DEF DidSave, Carried, OrderlyRun
    <2> QED BY <1>1, <1>7, <2>1
  <1>8. ASSUME DidEmit(r) \/ DidDelete(r) \/ DidPost(r) \/ DidFinish(r) \/ DidCrash(r)
        PROVE  KeepInv'
    <2>1. /\ UNCHANGED file /\ report'[r] = report[r] /\ touched'[r] = touched[r]
          /\ Carried(r)' => Carried(r)
      BY <1>8, <1>a DEF DidEmit, DidDelete, DidPost, DidFinish, DidCrash, Carried, Ended
    <2>2. \A q \in saved : \A path : UntouchedSince(q, r, path)' => UntouchedSince(q, r, path)
      BY <1>a, <2>1, StillUntouched
    <2> QED BY <1>1, <2>1, <2>2 DEF KeepInv
  <1> QED
    BY <1>2, <1>3, <1>4, <1>5, <1>6, <1>7, <1>8, Effect DEF DidReview, DidNothing, DidSave, NewFile

-----------------------------------------------------------------------------
(* What a faultless run did not report *)

\* A comment of the batch stands at the place of a finding of the report.
LEMMA ItemSpot ==
  ASSUME Types, Orderly, NEW r \in Runs, stage[r] = "posting" \/ Posted(r),
         NEW n \in 1..Len(batch[r]), NEW copy
  PROVE  \E f \in ToSet(report[r]) : /\ f.comment.path = Item(r, n, copy).path
                                     /\ f.comment.line # 0
                                     /\ Location(f) = Spot(Item(r, n, copy))
PROOF
  <1> DEFINE f == batch[r][n]
  <1>1. batch[r] = Inline(report[r]) /\ report[r] \in Seq(Findings) /\ batch[r] \in Seq(Findings)
    BY DEF Orderly, OrderlyRun, Types
  <1>2. f \in ToSet(batch[r])
    BY <1>1, LenProperties DEF ToSet
  <1>3. f \in ToSet(report[r]) /\ ~f.comment.scanner /\ f.comment.line # 0
    BY <1>1, <1>2, InlineCovers DEF Inlined
  <1>4. f \in Findings
    BY <1>1, ElementOfSeq
  <1>5. f.comment.scanner \in BOOLEAN
    <2>1. \A c \in AllComments : c.scanner \in BOOLEAN
      BY CommentsAssumption DEF AllComments
    <2> QED BY <1>4, <2>1 DEF Findings
  <1>6. f.comment.scanner = FALSE
    BY <1>3, <1>5
  <1>7. /\ Item(r, n, copy).path = f.comment.path
        /\ Spot(Item(r, n, copy)) = <<f.comment.path, f.comment.line, FALSE>>
    BY DEF Item, OnPR, Spot
  <1> HIDE DEF f
  <1> QED BY <1>3, <1>6, <1>7 DEF Location

\* Without a findings file the report is made of the comments that were listed.
LEMMA RecoveredSpot ==
  ASSUME Types, NEW r \in Runs
  PROVE  ToSet(Recovered(listed[r])) =
           {[fp |-> i.fp, comment |-> Placeholder(i)] : i \in Marked(listed[r])}
PROOF
  <1>1. listed[r] \in SUBSET Page /\ IsFiniteSet(listed[r])
    BY DEF Types
  <1> QED BY <1>1, RecoveredElements

LEMMA PlaceholderSpot ==
  ASSUME NEW i, NEW f, f = [fp |-> i.fp, comment |-> Placeholder(i)]
  PROVE  /\ f.fp = i.fp /\ f.comment.path = i.path /\ f.comment.line = i.line
         /\ Location(f) = Spot(i)
PROOF
  BY DEF Placeholder, Location, Spot

\* What a step adds to the report of its run.
LEMMA ReportStep ==
  ASSUME Types, Orderly, NEW r \in Runs, Step(r), NEW f \in ToSet(report'[r]),
         f.comment.path \notin touched'[r]
  PROVE  \/ f \in ToSet(report[r]) /\ touched'[r] = touched[r]
         \/ f \in ToSet(store) /\ touched'[r] = touched[r]
         \/ /\ touched'[r] = touched[r]
            /\ \E i \in Marked(listed[r]) : /\ f.comment.path = i.path /\ f.comment.line = i.line
                                          /\ Location(f) = Spot(i)
PROOF
  <1> USE DEF SameRun
  <1>1. CASE DidReview(r)
    BY <1>1 DEF DidReview
  <1>2. CASE DidLoad(r)
    <2>1. report[r] \in Seq(Findings) /\ Previous(r) \in Seq(Findings)
      BY PreviousTyped DEF Types
    <2>2. f \in ToSet(report[r]) \/ f \in ToSet(Previous(r))
      BY <1>2, <2>1, ReconcileElements DEF DidLoad
    <2>3. touched'[r] = touched[r]
      BY <1>2 DEF DidLoad
    <2>4. CASE f \in ToSet(Previous(r)) /\ store = << >>
      <3>1. f \in ToSet(Recovered(listed[r]))
        BY <2>4 DEF Previous
      <3>2. PICK i \in Marked(listed[r]) : f = [fp |-> i.fp, comment |-> Placeholder(i)]
        BY <3>1, RecoveredSpot
      <3> QED BY <2>3, <3>2, PlaceholderSpot
    <2>5. CASE f \in ToSet(Previous(r)) /\ store # << >>
      BY <2>3, <2>5 DEF Previous
    <2> QED BY <2>2, <2>3, <2>4, <2>5
  <1>3. CASE \/ DidNothing(r) \/ DidList(r) \/ DidSkip(r) \/ DidSave(r) \/ DidEmit(r)
             \/ DidDelete(r) \/ DidPost(r) \/ DidFinish(r) \/ DidCrash(r)
    BY <1>3 DEF DidNothing, DidList, DidSkip, DidSave, DidEmit, DidDelete, DidPost, DidFinish, DidCrash
  <1> QED BY <1>1, <1>2, <1>3, Effect

\* What a step adds to the comments on the pull request.
LEMMA SurfaceStep ==
  ASSUME Types, NEW r \in Runs, Step(r), NEW i \in surface', i \notin surface
  PROVE  stage[r] = "posting" /\ \E n \in 1..Len(batch[r]), copy \in Nat : i = Item(r, n, copy)
PROOF
  <1>1. DidPost(r)
    BY Effect DEF DidReview, DidNothing, DidList, DidLoad, DidSkip, DidSave, DidEmit, DidDelete,
                  DidFinish, DidCrash
  <1>2. PICK c \in {1, 2} : i \in Items(r, posted[r] + 1, ChunkEnd(r), c)
    BY <1>1 DEF DidPost
  <1>3. PICK n \in (posted[r] + 1)..ChunkEnd(r), copy \in 1..c : i = Item(r, n, copy)
    BY <1>2 DEF Items
  <1>4. n \in 1..Len(batch[r]) /\ copy \in Nat
    BY ChunkWithin
  <1> QED BY <1>1, <1>3, <1>4 DEF DidPost

LEMMA StayStep ==
  ASSUME Types, Serial, ~Overlapping, Orderly, PageInv, StayInv, NEW r \in Runs, Step(r)
  PROVE  StayInv'
PROOF
  <1> DEFINE Stays(q) ==
               /\ \A f \in ToSet(store) :
                    f.comment.line # 0 /\ Untouched(q, f.comment.path) => Within(q, Location(f))
               /\ \A i \in Marked(surface) : Untouched(q, i.path) => Within(q, Spot(i))
               /\ \A m \in Runs : q < m =>
                    /\ \A i \in Marked(listed[m]) :
                         i.line # 0 /\ UntouchedSince(q, m, i.path) => Within(q, Spot(i))
                    /\ \A f \in ToSet(report[m]) :
                         f.comment.line # 0 /\ UntouchedSince(q, m, f.comment.path) =>
                           Within(q, Location(f))
  <1>a. Orderly' /\ OrderlyRun(r) /\ clean[r] \in BOOLEAN /\ clean'[r] \in BOOLEAN
    BY OrderlyStep, TypesStep DEF Orderly, Types
  <1>1. ASSUME NEW q \in Runs, Posted(q)', q # r PROVE Stays(q)'
    <2>1. q < r /\ Posted(q) /\ report'[q] = report[q]
      BY <1>1, Around DEF Posted, Runs, SameRun
    <2>2. Stays(q)
      BY <2>1 DEF StayInv
    <2>3. \A place : Within(q, place)' <=> Within(q, place)
      BY <2>1 DEF Within
    <2>4. ASSUME NEW f \in ToSet(store'), f.comment.line # 0, Untouched(q, f.comment.path)'
          PROVE  Within(q, Location(f))
      <3>1. store' \in {store, << >>, report[r]}
        BY Effect DEF DidReview, DidNothing, DidList, DidLoad, DidSkip, DidSave, DidEmit,
                      DidDelete, DidPost, DidFinish, DidCrash, NewFile, file
      <3>2. f \in ToSet(store) \/ f \in ToSet(report[r])
        BY <3>1 DEF ToSet
      <3>3. Untouched(q, f.comment.path) /\ UntouchedSince(q, r, f.comment.path)
        BY <2>4, StillUntouched
      <3> QED BY <2>1, <2>2, <2>4, <3>2, <3>3
    <2>5. ASSUME NEW i \in Marked(surface'), Untouched(q, i.path)' PROVE Within(q, Spot(i))
      <3>1. Untouched(q, i.path) /\ UntouchedSince(q, r, i.path)
        BY <2>5, StillUntouched
      <3>2. CASE i \in surface
        BY <2>2, <2>5, <3>1, <3>2 DEF Marked
      <3>3. CASE i \notin surface
        <4>1. i \in surface'
          BY <2>5 DEF Marked
        <4>2. PICK n \in 1..Len(batch[r]), copy \in Nat : i = Item(r, n, copy)
          BY <3>3, <4>1, SurfaceStep
        <4>3. stage[r] = "posting"
          BY <3>3, <4>1, SurfaceStep
        <4>4. PICK f \in ToSet(report[r]) : /\ f.comment.path = i.path /\ f.comment.line # 0
                                            /\ Location(f) = Spot(i)
          BY <4>2, <4>3, ItemSpot
        <4> QED BY <2>1, <2>2, <3>1, <4>4
      <3> QED BY <3>2, <3>3
    <2>6. ASSUME NEW m \in Runs, q < m, NEW i \in Marked(listed'[m]), i.line # 0,
                 UntouchedSince(q, m, i.path)'
          PROVE  Within(q, Spot(i))
      <3>1. CASE m # r
        BY <2>2, <2>6, <3>1, StillUntouched, Around DEF SameRun
      <3>2. CASE m = r
        <4>1. \/ listed'[r] = listed[r] /\ touched'[r] = touched[r]
              \/ (\E outdated : listed'[r] = Listing(outdated)) /\ touched'[r] = touched[r]
              \/ listed'[r] = {}
          BY <1>a, Effect DEF DidReview, DidNothing, DidList, DidLoad, DidSkip, DidSave, DidEmit,
             DidDelete, DidPost, DidFinish, DidCrash, SameRun, OrderlyRun
        <4>2. touched'[r] = touched[r] =>
                UntouchedSince(q, r, i.path) /\ Untouched(q, i.path)
          BY <2>6, <3>2, StillUntouched
        <4>3. ASSUME NEW outdated, listed'[r] = Listing(outdated) PROVE i \in Marked(surface)
          BY <2>6, <3>2, <4>3, ListingElements DEF Marked
        <4> QED BY <2>2, <2>6, <3>2, <4>1, <4>2, <4>3 DEF Marked
      <3> QED BY <3>1, <3>2
    <2>7. ASSUME NEW m \in Runs, q < m, NEW f \in ToSet(report'[m]), f.comment.line # 0,
                 UntouchedSince(q, m, f.comment.path)'
          PROVE  Within(q, Location(f))
      <3>1. CASE m # r
        BY <2>2, <2>7, <3>1, StillUntouched, Around DEF SameRun
      <3>2. CASE m = r
        <4>1. f.comment.path \notin touched'[r]
          BY <2>7, <3>2 DEF UntouchedSince, Runs
        <4>2. touched'[r] = touched[r]
          BY <3>2, <4>1, ReportStep
        <4>3. UntouchedSince(q, r, f.comment.path) /\ Untouched(q, f.comment.path)
          BY <2>7, <3>2, <4>2, StillUntouched
        <4>4. CASE f \in ToSet(report[r]) \/ f \in ToSet(store)
          BY <2>1, <2>2, <2>7, <4>3, <4>4
        <4>5. CASE \E i \in Marked(listed[r]) : /\ f.comment.path = i.path
                                               /\ f.comment.line = i.line
                                               /\ Location(f) = Spot(i)
          BY <2>1, <2>2, <2>7, <4>3, <4>5
        <4> QED BY <3>2, <4>1, <4>4, <4>5, ReportStep
      <3> QED BY <3>1, <3>2
    <2> QED BY <2>3, <2>4, <2>5, <2>6, <2>7
  <1>2. ASSUME Posted(r)' PROVE Stays(r)'
    <2>1. DidFinish(r)
      BY <1>2, <1>a, Effect DEF DidReview, DidNothing, DidList, DidLoad, DidSkip, DidSave, DidEmit,
         DidDelete, DidPost, DidCrash, SameRun, OrderlyRun, Posted
    <2>2. /\ clean[r] /\ stage[r] = "posting" /\ store' = store /\ surface' = surface
          /\ report'[r] = report[r] /\ doomed[r] = {} /\ posted[r] = Len(batch[r])
      BY <1>2, <2>1 DEF DidFinish, Faultless, SameRun, Posted, file
    <2>3. store = report[r]
      BY <1>a, <2>2 DEF OrderlyRun
    <2>4. \A f \in ToSet(store') : Within(r, Location(f))'
      BY <2>2, <2>3 DEF Within
    <2>5. ASSUME NEW i \in Marked(surface') PROVE Within(r, Spot(i))'
      <3>1. i \in Items(r, 1, Len(batch[r]), 1)
        BY <2>2 DEF PageInv, Marked, Ours
      <3>2. PICK n \in 1..Len(batch[r]), copy \in 1..1 : i = Item(r, n, copy)
        BY <3>1 DEF Items
      <3>3. \E f \in ToSet(report[r]) : Location(f) = Spot(i)
        BY <2>2, <3>2, ItemSpot
      <3> QED BY <2>2, <3>3 DEF Within
    <2>6. \A m \in Runs : r < m => Marked(listed'[m]) = {} /\ ToSet(report'[m]) = {}
      BY Around DEF Marked, ToSet, Runs
    <2> QED BY <2>4, <2>5, <2>6
  <1> QED BY <1>1, <1>2 DEF StayInv

-----------------------------------------------------------------------------
(* The places of a run without a findings file *)

LEMMA PlaceStep ==
  ASSUME Types, Serial, ~Overlapping, ~StoreSurvives, Orderly, PlaceInv, NEW r \in Runs, Step(r)
  PROVE  PlaceInv'
PROOF
  <1> DEFINE Late(m) == clean[m] /\ (stage[m] \in {"loaded", "emitting", "posting"} \/ Posted(m))
             Places(m) == \A i \in Marked(listed[m]) : i.path \notin touched[m] => Within(m, Spot(i))
  <1>a. OrderlyRun(r) /\ clean[r] \in BOOLEAN /\ clean'[r] \in BOOLEAN
    BY TypesStep DEF Orderly, Types
  <1>1. ASSUME NEW m \in Runs, m # r, Late(m)' PROVE Places(m)'
    <2>1. SameRun(m) /\ Late(m)
      BY <1>1, Around DEF Posted, SameRun
    <2> QED BY <2>1 DEF PlaceInv, SameRun, Within
  <1>2. ASSUME Late(r)', Late(r), SameRun(r) PROVE Places(r)'
    BY <1>2 DEF PlaceInv, SameRun, Within
  <1>3. ASSUME DidLoad(r) PROVE Places(r)'
    <2>1. listed'[r] = listed[r] /\ touched'[r] = touched[r] /\ store = << >>
      BY <1>3, <1>a DEF DidLoad, OrderlyRun
    <2>2. report'[r] = Reconcile(Recovered(listed[r]), report[r], touched[r])
      BY <1>3, <2>1 DEF DidLoad, Previous
    <2>3. /\ report[r] \in Seq(Findings) /\ Recovered(listed[r]) \in Seq(Findings)
          /\ listed[r] \subseteq Page /\ IsFiniteSet(listed[r])
      BY RecoveredElements DEF Types
    <2>4. ASSUME NEW i \in Marked(listed[r]), i.path \notin touched[r]
          PROVE  \E f \in ToSet(report'[r]) : Location(f) = Spot(i)
      <3> DEFINE f == [fp |-> i.fp, comment |-> Placeholder(i)]
      <3>1. f.fp = i.fp /\ f.comment.path = i.path /\ Location(f) = Spot(i)
        BY PlaceholderSpot
      <3>2. f \in ToSet(Recovered(listed[r]))
        BY RecoveredSpot
      <3> HIDE DEF f
      <3>3. f.fp \notin Fingerprints(report[r])
        <4> SUFFICES ASSUME NEW h \in ToSet(report[r]), h.fp = i.fp PROVE FALSE
          BY <3>1 DEF Fingerprints
        <4>1. h.comment.path \in touched[r]
          BY <1>3, <1>a DEF DidLoad, OrderlyRun
        <4>2. h \in Findings /\ i \in Page
          BY <2>3, ElementOfSeq, LenProperties DEF ToSet, Marked
        <4>3. h.fp[1] = h.comment.path /\ i.fp[1] = i.path
          BY <4>2 DEF Findings, Page
        <4> QED BY <2>4, <4>1, <4>3
      <3>4. f \in ToSet(report'[r])
        BY <2>2, <2>3, <2>4, <3>1, <3>2, <3>3, ReconcileElements
      <3> QED BY <3>1, <3>4
    <2> QED BY <2>1, <2>4 DEF Within
  <1>4. ASSUME DidEmit(r) \/ DidDelete(r) \/ DidPost(r), Late(r)' PROVE Places(r)'
    <2>1. /\ listed'[r] = listed[r] /\ touched'[r] = touched[r] /\ report'[r] = report[r]
          /\ Late(r)
      BY <1>4, <1>a DEF DidEmit, DidDelete, DidPost, Faultless, Posted
    <2> QED BY <2>1 DEF PlaceInv, Within
  <1>5. ASSUME DidSave(r) \/ DidFinish(r), Late(r)' PROVE Places(r)'
    <2>1. SameRun(r) /\ Late(r)
      BY <1>5, <1>a DEF DidSave, DidFinish, Faultless, Posted
    <2> QED BY <1>2, <1>5, <2>1
  <1>6. ASSUME Late(r)' PROVE Places(r)'
    BY <1>a, <1>3, <1>4, <1>5, <1>6, Effect
       DEF DidReview, DidNothing, DidList, DidSkip, DidCrash, Posted, SameRun, OrderlyRun
  <1> QED BY <1>1, <1>6 DEF PlaceInv

-----------------------------------------------------------------------------
(* The theorems *)

InOrder == Types /\ Serial /\ Orderly

LEMMA InOrderInit == Init => InOrder /\ PageInv /\ KeepInv /\ StayInv /\ PlaceInv
PROOF
  <1> SUFFICES ASSUME Init PROVE InOrder /\ PageInv /\ KeepInv /\ StayInv /\ PlaceInv
    OBVIOUS
  <1>1. /\ \A r \in Runs : /\ stage[r] = "idle" /\ touched[r] = {} /\ report[r] = << >>
                           /\ batch[r] = << >> /\ listed[r] = {} /\ doomed[r] = {}
        /\ store = << >> /\ saved = {}
    BY DEF Init
  <1>2. Orderly
    BY <1>1 DEF Orderly, OrderlyRun, Posted
  <1> QED
    BY <1>1, <1>2, TypesInit
       DEF InOrder, Serial, PageInv, KeepInv, StayInv, PlaceInv, Posted

LEMMA InOrderNext == ~Overlapping /\ InOrder /\ [Next]_vars => InOrder'
PROOF
  <1>1. ASSUME InOrder, UNCHANGED vars PROVE InOrder'
    <2>1. Types' /\ Serial'
      BY <1>1, TypesNext DEF InOrder, Serial, vars
    <2>2. ASSUME NEW r \in Runs PROVE OrderlyRun(r)'
      BY <1>1 DEF InOrder, Orderly, OrderlyRun, Posted, vars
    <2> QED BY <2>1, <2>2 DEF InOrder, Orderly
  <1> QED
    BY <1>1, TypesStep, OneAtWork, OrderlyStep DEF InOrder, Next

\* What every step keeps while the runs of a pull request follow each other.
LEMMA PageNext == ~Overlapping /\ InOrder /\ PageInv /\ [Next]_vars => PageInv'
PROOF
  <1>1. ASSUME PageInv, UNCHANGED vars PROVE PageInv'
    <2>1. /\ UNCHANGED <<stage, clean, touched, doomed, posted, batch>> /\ Ours(surface)' = Ours(surface)
          /\ \A r \in Runs : \A n : Items(r, 1, n, 1)' = Items(r, 1, n, 1)
      BY <1>1 DEF Items, Item, Ours, vars
    <2> QED BY <1>1, <2>1 DEF PageInv, Posted, Idle
  <1> QED
    BY <1>1, PageStep DEF InOrder, Next

LEMMA KeepNext == ~Overlapping /\ InOrder /\ KeepInv /\ [Next]_vars => KeepInv'
PROOF
  <1>1. ASSUME KeepInv, UNCHANGED vars PROVE KeepInv'
    BY <1>1 DEF KeepInv, Carried, UntouchedSince, Untouched, Shows, vars
  <1> QED
    BY <1>1, KeepStep DEF InOrder, Next

LEMMA StayNext == ~Overlapping /\ InOrder /\ PageInv /\ StayInv /\ [Next]_vars => StayInv'
PROOF
  <1>1. ASSUME StayInv, UNCHANGED vars PROVE StayInv'
    BY <1>1 DEF StayInv, Posted, Untouched, UntouchedSince, Within, vars
  <1> QED
    BY <1>1, StayStep DEF InOrder, Next

LEMMA PlaceNext ==
  ~Overlapping /\ ~StoreSurvives /\ InOrder /\ PlaceInv /\ [Next]_vars => PlaceInv'
PROOF
  <1>1. ASSUME PlaceInv, UNCHANGED vars PROVE PlaceInv'
    BY <1>1 DEF PlaceInv, Posted, Within, vars
  <1> QED
    BY <1>1, PlaceStep DEF InOrder, Next

\* A run whose calls all succeeded is the sole source of what sacr shows on
\* the pull request, for any number of runs before it that ended anywhere.
THEOREM OneSource == ASSUME ~Overlapping PROVE Spec => []SoleSource
PROOF
  <1>1. PageInv => SoleSource
    BY DEF PageInv, SoleSource, Posted
  <1>2. ~Overlapping
    OBVIOUS
  <1> QED
    BY <1>1, <1>2, InOrderInit, InOrderNext, PageNext, PTL DEF Spec

\* What a run wrote to the findings file every later faultless run posts
\* again as it was, until a review touches the file it lies in.
THEOREM SavedIsPosted == ASSUME ~Overlapping PROVE Spec => []NothingForgotten
PROOF
  <1>1. InOrder /\ KeepInv => NothingForgotten
    <2> SUFFICES ASSUME InOrder, KeepInv, NEW r \in Runs, Posted(r), NEW q \in saved, q < r,
                        NEW f \in ToSet(Inline(report[q])), UntouchedSince(q, r, f.comment.path)
                 PROVE  \E g \in ToSet(batch[r]) : g.comment = f.comment
      BY DEF NothingForgotten
    <2>1. Carried(r) /\ batch[r] = Inline(report[r])
      BY DEF InOrder, Orderly, OrderlyRun, Posted, Carried
    <2>2. Shows(report[r], f)
      BY <2>1 DEF KeepInv
    <2> QED BY <2>1, <2>2 DEF Shows
  <1>2. ~Overlapping
    OBVIOUS
  <1> QED
    BY <1>1, <1>2, InOrderInit, InOrderNext, KeepNext, PTL DEF Spec

\* What a faultless run did not report no later run posts, whether that run
\* ends well or not, until a review touches the file again.
THEOREM FixedStaysGone == ASSUME ~Overlapping PROVE Spec => []NoResurrection
PROOF
  <1>1. InOrder /\ StayInv => NoResurrection
    <2> SUFFICES ASSUME InOrder, StayInv, NEW r \in Runs, NEW q \in Runs, q < r, Posted(q),
                        NEW f \in ToSet(batch[r]), UntouchedSince(q, r, f.comment.path)
                 PROVE  Within(q, Location(f))
      BY DEF NoResurrection, Within
    <2>1. batch[r] \in {<< >>, Inline(report[r])} /\ report[r] \in Seq(Findings)
      BY DEF InOrder, Orderly, OrderlyRun, Types
    <2>2. f \in ToSet(report[r]) /\ f.comment.line # 0
      <3>1. ToSet(<< >>) = {}
        BY DEF ToSet
      <3> QED BY <2>1, <3>1, InlineCovers DEF Inlined
    <2> QED BY <2>2 DEF StayInv
  <1>2. ~Overlapping
    OBVIOUS
  <1> QED
    BY <1>1, <1>2, InOrderInit, InOrderNext, PageNext, StayNext, PTL DEF Spec

\* On runners that keep no findings file, a faultless run leaves a comment at
\* every marked place of a file it did not touch that GitHub listed with a line.
THEOREM PlacesAreKept ==
  ASSUME ~Overlapping, ~StoreSurvives PROVE Spec => []PlaceKept
PROOF
  <1>1. InOrder /\ PageInv /\ PlaceInv => PlaceKept
    <2> SUFFICES ASSUME InOrder, PageInv, PlaceInv, NEW r \in Runs, Posted(r),
                        \A m \in Runs : m > r => Idle(m),
                        NEW i \in Marked(listed[r]), i.path \notin touched[r], i.line # 0
                 PROVE  \E j \in Marked(surface) : j.path = i.path /\ j.line = i.line
      BY DEF PlaceKept
    <2>1. PICK g \in ToSet(report[r]) : Location(g) = Spot(i)
      BY DEF PlaceInv, Posted, Within
    <2>2. Inlined(g)
      BY <2>1 DEF Location, Spot, Inlined
    <2>3. batch[r] = Inline(report[r]) /\ report[r] \in Seq(Findings) /\ batch[r] \in Seq(Findings)
      BY DEF InOrder, Orderly, OrderlyRun, Types
    <2>4. PICK h \in ToSet(batch[r]) : Location(h) = Location(g)
      BY <2>2, <2>3, InlineCovers
    <2>5. PICK n \in 1..Len(batch[r]) : batch[r][n] = h
      BY <2>3, LenProperties DEF ToSet
    <2>6. Item(r, n, 1) \in Items(r, 1, Len(batch[r]), 1)
      BY DEF Items
    <2>7. Item(r, n, 1) \in Ours(surface)
      BY <2>6 DEF PageInv, Posted
    <2>8. /\ Item(r, n, 1) \in Marked(surface)
          /\ Item(r, n, 1).path = i.path /\ Item(r, n, 1).line = i.line
      BY <2>1, <2>4, <2>5, <2>7 DEF Marked, Ours, Item, OnPR, Location, Spot
    <2> QED BY <2>8
  <1>2. ~Overlapping /\ ~StoreSurvives
    OBVIOUS
  <1> QED
    BY <1>1, <1>2, InOrderInit, InOrderNext, PageNext, PlaceNext, PTL DEF Spec
=============================================================================
