--------------------------- MODULE ReviewRun_proofs ---------------------------
(***************************************************************************)
(* What the pipeline of a review promises about its findings, its summary  *)
(* and its labels, for any change, any scanners and any number of runs,    *)
(* faults and edits: what leaves the findings file was reviewed or lies in *)
(* a pure rename, what a scanner says reaches the summary, and a run that  *)
(* nothing interfered with leaves one summary, its own, and a label as     *)
(* high as its findings.                                                   *)
(*                                                                         *)
(* The argument follows a finding through the stages (Covered, Heard) and  *)
(* what the run has put on the pull request so far (Spoken, Latest).       *)
(***************************************************************************)
EXTENDS ReviewRun, Picking_proofs

USE DEF diff

Stages == {"idle", "setup", "scan", "describe", "review", "carry", "post", "upload", "poll",
           "clean", "say", "label", "tag", "exit"}

\* The stages after the scores, and those after the summary.
Late == {"carry", "post", "upload", "poll", "clean", "say", "label", "tag", "exit"}
After == {"label", "tag", "exit"}
Closing == {"clean", "say"} \cup After

\* What the collector may hold.
Noted == Findings(Scanners \cup {"model"})

Types ==
  /\ run \in Nat /\ stage \in Stages /\ (stage # "idle" => run > 0)
  /\ change \subseteq ToSet(Order)
  /\ cheap \in [labels : Proposals \cup {Nothing}, left : SUBSET {"summarizer", "labeler"}]
  /\ todo \in Seq(Source)
  /\ notes \in Seq(Noted) /\ output \in Seq(Noted) /\ known \in Seq(Noted)
  /\ scored \subseteq Noted
  /\ reported \subseteq Noted /\ \A f \in reported : FromScanner(f)

\* The kept files of the change are reviewed, renamed or still to come.
Covered ==
  /\ stage = "review" => change \cap Source \subseteq reviewed \cup renamed \cup ToSet(todo)
  /\ stage = "carry" => change \cap Source \subseteq reviewed \cup renamed

\* What the scanners said is in the collector, and in the output if it scores.
Heard ==
  /\ reported \subseteq ToSet(notes)
  /\ stage \in Late /\ ~Stub => \A f \in reported : Survives(f) => f \in ToSet(output)

\* What a run has said on the pull request names all its scanner rows.
Spoken ==
  \A i \in issue :
    /\ i.by \in 0..run
    /\ i.by = run /\ stage # "idle" => stage \in After /\ i.rows = ScannerRows

\* A run without a kept file has no findings.
Stubbed ==
  stage # "idle" /\ Stub => /\ stage \in Closing
                            /\ output = << >> /\ scored = {}

\* A run nothing interfered with replaces the summaries and the risk labels.
Latest ==
  sound =>
    /\ stage = "say" => Summaries = doomed
    /\ stage \in After => Summaries = {Body(run, 1)}
    /\ stage = "tag" /\ Fresh # {} => labels \cap RiskLabels \subseteq doomed \cup Fresh
    /\ stage = "exit" => /\ Fresh \subseteq labels
                         /\ Fresh # {} => labels \cap RiskLabels \subseteq Fresh

-----------------------------------------------------------------------------
(* The pure parts *)

\* A sequence is one of every set that holds its elements.
LEMMA SeqWithin ==
  ASSUME NEW S, NEW T, NEW s \in Seq(S), ToSet(s) \subseteq T
  PROVE  s \in Seq(T)
PROOF
  <1>1. Len(s) \in Nat /\ DOMAIN s = 1..Len(s) /\ s \in [1..Len(s) -> S]
    BY LenProperties
  <1>2. \A i \in 1..Len(s) : s[i] \in T
    BY <1>1 DEF ToSet
  <1>3. s \in [1..Len(s) -> T]
    BY <1>1, <1>2
  <1>4. PICK n \in Nat : n = Len(s)
    BY <1>1
  <1>5. s \in [1..n -> T]
    BY <1>3, <1>4
  <1>6. [1..n -> T] \subseteq Seq(T)
    OBVIOUS
  <1> QED BY <1>5, <1>6

\* The empty sequence has no elements.
LEMMA ToSetEmpty == ToSet(<< >>) = {}
PROOF BY DEF ToSet

\* The first element of a sequence and the others.
LEMMA ToSetHeadTail ==
  ASSUME NEW S, NEW s \in Seq(S), s # << >>
  PROVE  Head(s) \in S /\ Tail(s) \in Seq(S) /\ ToSet(s) \subseteq {Head(s)} \cup ToSet(Tail(s))
PROOF
  <1>1. /\ Head(s) = s[1] /\ Tail(s) \in Seq(S) /\ Len(s) \in Nat \ {0}
        /\ DOMAIN s = 1..Len(s) /\ Len(Tail(s)) = Len(s) - 1
        /\ \A i \in 1..(Len(s) - 1) : Tail(s)[i] = s[i + 1]
    BY HeadTailProperties, LenProperties, EmptySeq
  <1>2. DOMAIN Tail(s) = 1..(Len(s) - 1)
    BY <1>1, LenProperties
  <1>3. ASSUME NEW i \in 1..Len(s) PROVE s[i] \in {Head(s)} \cup ToSet(Tail(s))
    <2>1. CASE i = 1
      BY <1>1, <2>1
    <2>2. CASE i # 1
      <3>1. i - 1 \in 1..(Len(s) - 1) /\ (i - 1) + 1 = i
        BY <1>1, <2>2
      <3> QED BY <1>1, <1>2, <3>1 DEF ToSet
    <2> QED BY <2>1, <2>2
  <1>4. Head(s) \in S
    BY <1>1, ElementOfSeq
  <1> QED BY <1>1, <1>3, <1>4 DEF ToSet

\* The elements of a sequence that a test lets through.
LEMMA ElementsTyped ==
  ASSUME NEW S, NEW s \in Seq(S)
  PROVE  ToSet(s) \subseteq S
PROOF BY ElementOfSeq, LenProperties DEF ToSet

\* A scanner's finding keeps its path, its severities and its origin.
LEMMA LiftedFields ==
  ASSUME NEW f \in Noted
  PROVE  /\ Lifted(f) \in Noted /\ Lifted(f).by = f.by
         /\ Lifted(f).path = f.path /\ Lifted(f).raw = f.raw /\ Lifted(f).sev = f.sev
PROOF
  <1>1. /\ f.path \in ToSet(Order) /\ f.line \in Int /\ f.by \in Scanners \cup {"model"}
        /\ f.raw \in 0..4 /\ f.sev \in 0..4
    BY DEF Noted, Findings
  <1>2. f.suggestion \in BOOLEAN
    BY Zenon DEF Noted, Findings
  <1>3. f = [path |-> f.path, line |-> f.line, by |-> f.by, raw |-> f.raw, sev |-> f.sev,
             suggestion |-> f.suggestion]
    BY Zenon DEF Noted, Findings
  <1>4. PICK n \in Int : n = IF f.line < 1 THEN 1 ELSE f.line
    BY <1>1
  <1>5. Lifted(f) = [path |-> f.path, line |-> n, by |-> f.by, raw |-> f.raw, sev |-> f.sev,
                     suggestion |-> f.suggestion]
    BY <1>3, <1>4 DEF Lifted
  <1>6. Lifted(f) \in Noted
    <2> DEFINE g == Lifted(f)
    <2>1. /\ g.path \in ToSet(Order) /\ g.line \in Int /\ g.by \in Scanners \cup {"model"}
          /\ g.raw \in 0..4 /\ g.sev \in 0..4
      BY <1>1, <1>5
    <2>2. g.suggestion \in BOOLEAN
      <3>1. g.suggestion = f.suggestion
        BY <1>5
      <3> QED BY <1>2, <3>1, Zenon
    <2>3. g = [path |-> g.path, line |-> g.line, by |-> g.by, raw |-> g.raw, sev |-> g.sev,
               suggestion |-> g.suggestion]
      BY <1>5
    <2> HIDE DEF g
    <2>4. g \in Noted
      BY <2>1, <2>2, <2>3, Zenon DEF Noted, Findings
    <2> QED BY <2>4 DEF g
  <1> QED BY <1>5, <1>6

\* What an adapter reports about the change.
LEMMA ReportTyped ==
  ASSUME NEW s \in Scanners, NEW findings \in Reports[s]
  PROVE  LET report == {Lifted(f) : f \in InScope(findings)}
         IN  /\ IsFiniteSet(report) /\ report \subseteq Noted
             /\ \A f \in report : FromScanner(f)
PROOF
  <1> DEFINE seen == InScope(findings)
             report == {Lifted(f) : f \in seen}
  <1>1. findings \subseteq Findings({s}) /\ IsFiniteSet(findings)
    BY FindingsAssumption
  <1>2. IsFiniteSet(seen) /\ seen \subseteq findings
    BY <1>1, FS_Subset DEF InScope
  <1>3. ASSUME NEW f \in seen PROVE Lifted(f) \in Noted /\ FromScanner(Lifted(f))
    <2>1. f \in Noted /\ f.by = s
      BY Zenon, <1>1, <1>2 DEF Findings, Noted
    <2> QED BY <2>1, LiftedFields DEF FromScanner
  <1>4. IsFiniteSet(report)
    <2> DEFINE image == [f \in seen |-> Lifted(f)]
    <2>1. image \in Surjection(seen, report)
      BY DEF Surjection
    <2> HIDE DEF image, report, seen
    <2> QED BY <1>2, <2>1, FS_Surjection
  <1> QED BY <1>3, <1>4

\* What the model says on a file.
LEMMA NotesTyped ==
  ASSUME NEW p \in Source, NEW findings \in Notes[p]
  PROVE  IsFiniteSet(findings) /\ findings \subseteq Noted
PROOF
  <1>1. findings \subseteq Findings({"model"}) /\ IsFiniteSet(findings)
    BY FindingsAssumption
  <1>2. Findings({"model"}) \subseteq Noted
    BY Zenon DEF Findings, Noted
  <1> QED BY <1>1, <1>2

\* Adding a finite set of findings to the collector.
LEMMA NotesGrow ==
  ASSUME notes \in Seq(Noted), NEW findings, IsFiniteSet(findings), findings \subseteq Noted
  PROVE  /\ notes \o SetToSeq(findings) \in Seq(Noted)
         /\ ToSet(notes \o SetToSeq(findings)) = ToSet(notes) \cup findings
PROOF
  <1>1. SetToSeq(findings) \in Seq(findings) /\ ToSet(SetToSeq(findings)) = findings
    BY SetToSeqElements
  <1>2. ToSet(SetToSeq(findings)) \subseteq Noted
    BY <1>1
  <1>3. SetToSeq(findings) \in Seq(Noted)
    BY <1>1, <1>2, SeqWithin, Zenon
  <1> QED BY <1>1, <1>3, ToSetConcat

\* The order of the files yet to review: the kept ones that are no renames.
LEMMA TodoElements ==
  LET rest == Picked(Kept, {i \in DOMAIN Kept : Kept[i] \notin renamed})
  IN  /\ rest \in Seq(Source)
      /\ (change \cap Source) \ renamed \subseteq ToSet(rest)
PROOF
  <1> DEFINE at == {i \in DOMAIN Order : Order[i] \in change \cap Source}
             rest == Picked(Kept, {i \in DOMAIN Kept : Kept[i] \notin renamed})
  <1>1. Order \in Seq(ToSet(Order)) /\ Source \subseteq ToSet(Order)
    BY PipelineAssumption
  <1>2. Kept \in Seq(ToSet(Order)) /\ ToSet(Kept) = {Order[i] : i \in at}
    BY <1>1, PickedElements DEF Kept
  <1>3. ToSet(Kept) \subseteq Source /\ change \cap Source \subseteq ToSet(Kept)
    BY <1>1, <1>2 DEF ToSet
  <1>4. Kept \in Seq(Source)
    BY <1>2, <1>3, SeqWithin, Zenon
  <1> HIDE DEF at
  <1>5. /\ rest \in Seq(Source)
        /\ ToSet(rest) = {Kept[i] : i \in {i \in DOMAIN Kept : Kept[i] \notin renamed}}
    BY <1>4, PickedElements
  <1>6. (change \cap Source) \ renamed \subseteq ToSet(rest)
    BY <1>3, <1>5 DEF ToSet
  <1> QED BY <1>5, <1>6

\* The score keeps every note that survives it.
LEMMA ScoreElements ==
  ASSUME notes \in Seq(Noted)
  PROVE  LET kept == Picked(notes, {i \in DOMAIN notes : Survives(notes[i])})
         IN  /\ kept \in Seq(Noted)
             /\ \A f \in ToSet(notes) : Survives(f) => f \in ToSet(kept)
PROOF
  <1> DEFINE at == {i \in DOMAIN notes : Survives(notes[i])}
  <1>1. /\ Picked(notes, at) \in Seq(Noted)
        /\ ToSet(Picked(notes, at)) = {notes[i] : i \in at}
    BY PickedElements
  <1> QED BY <1>1 DEF ToSet

\* The carry-over adds what it keeps of the findings file, and it keeps what
\* is in a path left alone and has no finding at its place.
LEMMA CarriedElements ==
  ASSUME output \in Seq(Noted), known \in Seq(Noted)
  PROVE  /\ output \o Carried \in Seq(Noted)
         /\ ToSet(output) \subseteq ToSet(output \o Carried)
         /\ \A f \in ToSet(known) \ ToSet(output \o Carried) :
              \/ f.path \in change \cap Source
              \/ \E g \in ToSet(output) : Place(g) = Place(f)
PROOF
  <1> DEFINE at == {i \in DOMAIN known : /\ known[i].path \notin change \cap Source
                                         /\ \A g \in ToSet(output) : Place(g) # Place(known[i])}
  <1>1. Carried \in Seq(Noted) /\ ToSet(Carried) = {known[i] : i \in at}
    BY PickedElements DEF Carried
  <1>2. output \o Carried \in Seq(Noted) /\ ToSet(output \o Carried) = ToSet(output) \cup ToSet(Carried)
    BY <1>1, ToSetConcat
  <1>3. ASSUME NEW f \in ToSet(known), f \notin ToSet(Carried), f.path \notin change \cap Source
        PROVE  \E g \in ToSet(output) : Place(g) = Place(f)
    <2>1. PICK i \in DOMAIN known : known[i] = f
      BY DEF ToSet
    <2> HIDE DEF Carried
    <2> QED BY <1>1, <1>3, <2>1
  <1> HIDE DEF Carried
  <1> QED BY <1>2, <1>3

\* The deduplication leaves a finding at every place there was one.
LEMMA DedupedCovers ==
  ASSUME NEW s \in Seq(Noted)
  PROVE  /\ ToSet(Deduped(s)) \subseteq ToSet(s)
         /\ \A f \in ToSet(s) : \E g \in ToSet(Deduped(s)) : Place(g) = Place(f)
PROOF
  <1> DEFINE at == {i \in DOMAIN s : \A j \in 1..(i - 1) : Place(s[j]) # Place(s[i])}
  <1>1. DOMAIN s = 1..Len(s) /\ Len(s) \in Nat
    BY LenProperties
  <1>2. ToSet(Deduped(s)) = {s[i] : i \in at}
    BY PickedElements DEF Deduped
  <1>3. ASSUME NEW f \in ToSet(s)
        PROVE  \E g \in ToSet(Deduped(s)) : Place(g) = Place(f)
    <2> DEFINE T == {i \in DOMAIN s : Place(s[i]) = Place(f)}
    <2>1. T \subseteq Nat /\ T # {}
      BY <1>1 DEF ToSet
    <2>2. PICK i \in T : \A j \in T : i <= j
      <3> HIDE DEF T
      <3> QED BY <2>1, Least
    <2>3. i \in at
      <3> SUFFICES ASSUME NEW j \in 1..(i - 1), Place(s[j]) = Place(s[i])
                   PROVE  FALSE
        BY <2>2
      <3>1. j \in DOMAIN s /\ ~(i <= j)
        BY <1>1, <2>2
      <3> QED BY <2>2, <3>1
    <2> QED BY <1>2, <2>2, <2>3
  <1>4. ToSet(Deduped(s)) \subseteq ToSet(s)
    BY <1>2 DEF ToSet
  <1> QED BY <1>3, <1>4

\* A scanner's finding of the output has a row at its place.
LEMMA RowsCover ==
  ASSUME output \in Seq(Noted), NEW f \in ToSet(output), FromScanner(f)
  PROVE  \E row \in ScannerRows : Place(row) = Place(f)
PROOF
  <1>1. PICK g \in ToSet(Deduped(output)) : Place(g) = Place(f)
    BY DedupedCovers
  <1>2. FromScanner(g) = FromScanner(f)
    BY <1>1 DEF Place
  <1> QED BY <1>1, <1>2 DEF ScannerRows

\* The levels of risk and their ranks; no other label has one.
LEMMA RiskRanks ==
  /\ RankOf(Risk[1]) = 1 /\ RankOf(Risk[2]) = 2
  /\ RankOf(Risk[3]) = 3 /\ RankOf(Risk[4]) = 4
  /\ \A tag : RankOf(tag) \in 0..4
  /\ \A tag : RankOf(tag) # 0 => tag \in ToSet(Risk)
  /\ "" \notin ToSet(Risk)
PROOF
  <1>1. /\ Risk[1] = "risk/low" /\ Risk[2] = "risk/medium"
        /\ Risk[3] = "risk/high" /\ Risk[4] = "risk/critical" /\ DOMAIN Risk = 1..4
    BY DEF Risk
  <1>2. ToSet(Risk) = {Risk[1], Risk[2], Risk[3], Risk[4]}
    <2>1. \A k \in 1..4 : k = 1 \/ k = 2 \/ k = 3 \/ k = 4
      OBVIOUS
    <2> QED BY <1>1, <2>1 DEF ToSet
  <1>3. ASSUME NEW j \in 1..4 PROVE RankOf(Risk[j]) = j
    <2>1. \A k \in 1..4 : Risk[k] = Risk[j] => k = j
      BY <1>1
    <2> QED BY <2>1 DEF RankOf
  <1>4. /\ RankOf(Risk[1]) = 1 /\ RankOf(Risk[2]) = 2
        /\ RankOf(Risk[3]) = 3 /\ RankOf(Risk[4]) = 4
    BY <1>3
  <1>5. ASSUME NEW tag
        PROVE  RankOf(tag) \in 0..4 /\ (RankOf(tag) # 0 => tag \in ToSet(Risk))
    <2>1. CASE \E k \in 1..4 : Risk[k] = tag
      <3>1. tag \in ToSet(Risk) /\ RankOf(tag) \in 1..4
        BY <1>1, <2>1 DEF RankOf, ToSet
      <3> QED BY <3>1
    <2>2. CASE ~\E k \in 1..4 : Risk[k] = tag
      BY <2>2 DEF RankOf
    <2> QED BY <2>1, <2>2
  <1>6. "" \notin ToSet(Risk)
    <2>1. "risk/low" # "" /\ "risk/medium" # "" /\ "risk/high" # "" /\ "risk/critical" # ""
      BY Zenon
    <2> QED BY <1>1, <1>2, <2>1
  <1> QED BY <1>4, <1>5, <1>6

-----------------------------------------------------------------------------
(* Types, and what is reviewed and reported *)

\* The steps that leave the findings, the conversations and the change alone.
Elsewhere ==
  \/ Setup \/ Scanned \/ Unprepared \/ PostComments \/ Upload \/ Poll \/ ListIssue \/ DeleteIssue
  \/ PostIssue \/ ListLabels \/ RemoveLabel \/ AddLabels \/ Finish \/ Crash \/ Person

\* What such a step does to the stage.
Onward ==
  /\ UNCHANGED <<run, change, renamed, cheap, reported, todo, reviewed, notes, scored, output, known>>
  /\ stage \in Stages => stage' \in Stages
  /\ stage' \in Late => stage \in Late
  /\ stage' \in {"review", "carry"} => stage' = stage
  /\ stage \in Closing => stage' \in Closing \cup {"idle"}
  /\ stage' # "idle" => stage # "idle"

LEMMA ElsewhereOnward == ASSUME Elsewhere PROVE Onward
PROOF
  <1> USE DEF scan, loop, found, page, wire, tally, Go, End, Onward, Stages, Late, Closing, After
  <1>1. CASE Setup BY <1>1 DEF Setup
  <1>2. CASE Scanned BY <1>2 DEF Scanned
  <1>3. CASE PostComments BY <1>3 DEF PostComments
  <1>4. CASE Upload BY <1>4 DEF Upload
  <1>5. CASE Poll BY <1>5 DEF Poll
  <1>6. CASE ListIssue BY <1>6 DEF ListIssue
  <1>7. CASE DeleteIssue BY <1>7 DEF DeleteIssue
  <1>8. CASE PostIssue BY <1>8 DEF PostIssue
  <1>9. CASE ListLabels BY <1>9 DEF ListLabels
  <1>10. CASE RemoveLabel BY <1>10 DEF RemoveLabel
  <1>11. CASE AddLabels BY <1>11 DEF AddLabels
  <1>12. CASE Finish BY <1>12 DEF Finish
  <1>13. CASE Crash BY <1>13 DEF Crash
  <1>14. CASE Person BY <1>14 DEF Person
  <1>15. CASE Unprepared BY <1>15 DEF Unprepared
  <1> QED
    BY <1>1, <1>2, <1>3, <1>4, <1>5, <1>6, <1>7, <1>8, <1>9, <1>10, <1>11, <1>12, <1>13, <1>14,
       <1>15 DEF Elsewhere

\* The steps of Next, those that leave the findings alone in one.
LEMMA StepCases ==
  ASSUME Next
  PROVE  \/ Begin \/ (\E s \in Scanners : Adapter(s))
         \/ (\E a \in {"summarizer", "labeler"} : CheapAgent(a))
         \/ Described \/ Converse \/ Score \/ CarryOver \/ Elsewhere
PROOF BY DEF Next, Stage, Elsewhere

LEMMA TypesInit == Init => Types
PROOF
  <1> SUFFICES ASSUME Init PROVE Types
    OBVIOUS
  <1> USE DEF Init
  <1>1. /\ run \in Nat /\ stage \in Stages /\ (stage # "idle" => run > 0)
        /\ change \subseteq ToSet(Order)
    BY DEF Stages
  <1>2. cheap \in [labels : Proposals \cup {Nothing}, left : SUBSET {"summarizer", "labeler"}]
    OBVIOUS
  <1>3. /\ todo \in Seq(Source) /\ notes \in Seq(Noted) /\ output \in Seq(Noted)
        /\ known \in Seq(Noted)
    BY EmptySeq
  <1>4. scored \subseteq Noted /\ reported \subseteq Noted /\ \A f \in reported : FromScanner(f)
    OBVIOUS
  <1> QED BY <1>1, <1>2, <1>3, <1>4 DEF Types

LEMMA TypesStep == Types /\ Next => Types'
PROOF
  <1> SUFFICES ASSUME Types, Next PROVE Types'
    OBVIOUS
  <1> USE DEF Types, FromScanner
  <1>1. CASE Begin
    <2>1. /\ run' \in Nat /\ stage' \in Stages /\ run' > 0
          /\ change' \subseteq ToSet(Order)
      BY <1>1, PipelineAssumption DEF Begin, Stages
    <2>2. cheap' \in [labels : Proposals \cup {Nothing}, left : SUBSET {"summarizer", "labeler"}]
      BY <1>1 DEF Begin
    <2>3. /\ todo' \in Seq(Source) /\ notes' \in Seq(Noted) /\ output' \in Seq(Noted)
          /\ known' \in Seq(Noted)
      BY <1>1, EmptySeq DEF Begin
    <2>4. scored' = {} /\ reported' = {}
      BY <1>1 DEF Begin
    <2> QED BY <2>1, <2>2, <2>3, <2>4
  <1>2. ASSUME NEW s \in Scanners, Adapter(s) PROVE Types'
    <2> USE DEF found, tally
    <2>1. UNCHANGED <<run, stage, change, cheap, todo, output, known, scored>>
      BY <1>2 DEF Adapter
    <2>2. \/ UNCHANGED <<notes, reported>>
          \/ \E findings \in Reports[s] : Collect({Lifted(f) : f \in InScope(findings)})
      BY <1>2 DEF Adapter
    <2>3. CASE UNCHANGED <<notes, reported>>
      BY <2>1, <2>3
    <2>4. ASSUME NEW findings \in Reports[s], Collect({Lifted(f) : f \in InScope(findings)})
          PROVE  Types'
      <3> DEFINE report == {Lifted(f) : f \in InScope(findings)}
      <3>1. IsFiniteSet(report) /\ report \subseteq Noted /\ \A f \in report : FromScanner(f)
        BY ReportTyped
      <3>2. notes' = notes \o SetToSeq(report) /\ reported' = reported \cup report
        BY <2>4 DEF Collect
      <3> HIDE DEF report
      <3>3. notes' \in Seq(Noted)
        BY <3>1, <3>2, NotesGrow
      <3>4. reported' \subseteq Noted /\ \A f \in reported' : f.by \in Scanners
        BY <3>1, <3>2
      <3> QED BY <2>1, <3>3, <3>4
    <2> QED BY <2>2, <2>3, <2>4
  <1>3. ASSUME NEW a \in {"summarizer", "labeler"}, CheapAgent(a) PROVE Types'
    <2> USE DEF found, loop
    <2>1. UNCHANGED <<run, stage, change, reported, todo, notes, output, known, scored>>
      BY <1>3 DEF CheapAgent
    <2>2. cheap' \in [labels : Proposals \cup {Nothing}, left : SUBSET {"summarizer", "labeler"}]
      <3>1. \/ cheap' = [cheap EXCEPT !.left = @ \ {a}]
            \/ \E l \in Proposals : cheap' = [cheap EXCEPT !.left = @ \ {a}, !.labels = l]
        BY <1>3 DEF CheapAgent
      <3> QED BY <3>1
    <2> QED BY <2>1, <2>2
  <1>4. CASE Described
    <2> USE DEF found, scan, Go
    <2>1. /\ UNCHANGED <<run, change, cheap, reported, notes, output, known, scored>>
          /\ stage = "describe" /\ stage' = "review"
      BY <1>4 DEF Described
    <2>2. todo' \in Seq(Source)
      BY <1>4, TodoElements DEF Described
    <2> QED BY <2>1, <2>2 DEF Stages
  <1>5. CASE Converse
    <2> USE DEF found, scan, loop, End
    <2>1. /\ UNCHANGED <<run, change, cheap, reported, output, known, scored>>
          /\ stage = "review" /\ stage' \in {"review", "idle"}
      BY <1>5 DEF Converse
    <2>2. todo' \in Seq(Source) /\ notes' \in Seq(Noted)
      <3>1. CASE UNCHANGED loop
        BY <3>1
      <3>2. CASE \E c \in Notes[Head(todo)] : notes' = notes \o SetToSeq(c) /\ todo' = Tail(todo)
        <4>1. Head(todo) \in Source /\ Tail(todo) \in Seq(Source)
          BY <1>5, ToSetHeadTail DEF Converse
        <4>2. PICK c \in Notes[Head(todo)] : notes' = notes \o SetToSeq(c) /\ todo' = Tail(todo)
          BY <3>2
        <4>3. IsFiniteSet(c) /\ c \subseteq Noted
          BY <4>1, NotesTyped
        <4>4. notes \o SetToSeq(c) \in Seq(Noted)
          BY <4>3, NotesGrow
        <4> QED BY <4>1, <4>2, <4>4
      <3> QED BY <1>5, <3>1, <3>2 DEF Converse
    <2> QED BY <2>1, <2>2 DEF Stages
  <1>6. CASE Score
    <2> USE DEF scan, loop, Go
    <2>1. /\ UNCHANGED <<run, change, cheap, reported, todo, notes, known>>
          /\ stage = "review" /\ stage' = "carry"
      BY <1>6 DEF Score
    <2>2. output' \in Seq(Noted) /\ scored' = ToSet(output')
      BY <1>6, ScoreElements DEF Score
    <2>3. scored' \subseteq Noted
      BY <2>2, ElementsTyped
    <2> QED BY <2>1, <2>2, <2>3 DEF Stages
  <1>7. CASE CarryOver
    <2> USE DEF scan, loop, Go
    <2>1. /\ UNCHANGED <<run, change, cheap, reported, todo, notes, scored>>
          /\ stage = "carry" /\ stage' = "post"
      BY <1>7 DEF CarryOver
    <2>2. /\ output' = output \/ output' = output \o Carried
          /\ known' = known \/ (known' = output' /\ output' = output \o Carried)
      BY <1>7 DEF CarryOver
    <2>3. output \o Carried \in Seq(Noted)
      BY CarriedElements
    <2> QED BY <2>1, <2>2, <2>3 DEF Stages
  <1>8. CASE Elsewhere
    <2>1. Onward
      BY <1>8, ElsewhereOnward
    <2> QED BY <2>1 DEF Onward
  <1> QED BY <1>1, <1>2, <1>3, <1>4, <1>5, <1>6, <1>7, <1>8, StepCases

LEMMA TypesNext == Types /\ [Next]_vars => Types'
PROOF
  <1>1. ASSUME Types, UNCHANGED vars PROVE Types'
    BY <1>1 DEF Types, FromScanner, vars, scan, loop, found
  <1> QED BY <1>1, TypesStep

\* A file is reviewed before the review ends.
LEMMA CoveredStep == Types /\ Covered /\ Next => Covered'
PROOF
  <1> SUFFICES ASSUME Types, Covered, Next PROVE Covered'
    OBVIOUS
  <1>1. CASE Begin
    BY <1>1 DEF Begin, Covered
  <1>2. ASSUME NEW s \in Scanners, Adapter(s) PROVE Covered'
    BY <1>2 DEF Adapter, Covered
  <1>3. ASSUME NEW a \in {"summarizer", "labeler"}, CheapAgent(a) PROVE Covered'
    BY <1>3 DEF CheapAgent, Covered
  <1>4. CASE Described
    <2>1. /\ stage' = "review" /\ UNCHANGED <<change, renamed, reviewed>>
          /\ todo' = Picked(Kept, {i \in DOMAIN Kept : Kept[i] \notin renamed})
      BY <1>4 DEF Described, Go
    <2>2. (change \cap Source) \ renamed \subseteq ToSet(todo')
      BY <2>1, TodoElements
    <2> QED BY <2>1, <2>2 DEF Covered
  <1>5. CASE Converse
    <2>1. /\ UNCHANGED <<change, renamed>> /\ todo # << >>
          /\ stage = "review" /\ stage' \in {"review", "idle"}
      BY <1>5 DEF Converse, End
    <2>2. CASE stage' = "review"
      <3>1. todo' = Tail(todo) /\ reviewed' = reviewed \cup {Head(todo)}
        BY <1>5, <2>2 DEF Converse, End
      <3>2. ToSet(todo) \subseteq {Head(todo)} \cup ToSet(todo')
        BY <2>1, <3>1, ToSetHeadTail DEF Types
      <3> QED BY <2>1, <2>2, <3>1, <3>2 DEF Covered
    <2> QED BY <2>1, <2>2 DEF Covered
  <1>6. CASE Score
    BY <1>6, ToSetEmpty DEF Score, Go, loop, Covered
  <1>7. CASE CarryOver
    BY <1>7 DEF CarryOver, Go, Covered
  <1>8. CASE Elsewhere
    <2>1. Onward
      BY <1>8, ElsewhereOnward
    <2> QED BY <2>1 DEF Onward, Covered
  <1> QED BY <1>1, <1>2, <1>3, <1>4, <1>5, <1>6, <1>7, <1>8, StepCases

\* What a scanner said stays said, whatever else goes wrong.
LEMMA HeardStep == Types /\ Heard /\ Next => Heard'
PROOF
  <1> SUFFICES ASSUME Types, Heard, Next PROVE Heard'
    OBVIOUS
  <1> USE DEF Stub, Survives
  <1>1. CASE Begin
    <2>1. reported' = {}
      BY <1>1 DEF Begin
    <2> QED BY <2>1 DEF Heard
  <1>2. ASSUME NEW s \in Scanners, Adapter(s) PROVE Heard'
    <2>1. stage' = "scan"
      BY <1>2 DEF Adapter
    <2>2. \/ UNCHANGED <<notes, reported>>
          \/ \E findings \in Reports[s] : Collect({Lifted(f) : f \in InScope(findings)})
      BY <1>2 DEF Adapter
    <2>3. CASE UNCHANGED <<notes, reported>>
      BY <2>1, <2>3 DEF Heard, Late
    <2>4. ASSUME NEW findings \in Reports[s], Collect({Lifted(f) : f \in InScope(findings)})
          PROVE  Heard'
      <3> DEFINE report == {Lifted(f) : f \in InScope(findings)}
      <3>1. IsFiniteSet(report) /\ report \subseteq Noted
        BY ReportTyped
      <3>2. notes' = notes \o SetToSeq(report) /\ reported' = reported \cup report
        BY <2>4 DEF Collect
      <3> HIDE DEF report
      <3>3. ToSet(notes') = ToSet(notes) \cup report
        BY <3>1, <3>2, NotesGrow DEF Types
      <3> QED BY <2>1, <3>2, <3>3 DEF Heard, Late
    <2> QED BY <2>2, <2>3, <2>4
  <1>3. ASSUME NEW a \in {"summarizer", "labeler"}, CheapAgent(a) PROVE Heard'
    BY <1>3 DEF CheapAgent, loop, Heard, Late
  <1>4. CASE Described
    BY <1>4 DEF Described, Go, scan, Heard, Late
  <1>5. CASE Converse
    <2>1. reported' = reported /\ stage' \notin Late
      BY <1>5 DEF Converse, End, scan, Late
    <2>2. ToSet(notes) \subseteq ToSet(notes')
      <3>1. CASE UNCHANGED loop
        BY <3>1 DEF loop
      <3>2. CASE \E c \in Notes[Head(todo)] : notes' = notes \o SetToSeq(c)
        <4>1. Head(todo) \in Source
          BY <1>5, ToSetHeadTail DEF Converse, Types
        <4>2. PICK c \in Notes[Head(todo)] : notes' = notes \o SetToSeq(c)
          BY <3>2
        <4>3. IsFiniteSet(c) /\ c \subseteq Noted
          BY <4>1, NotesTyped
        <4>4. ToSet(notes \o SetToSeq(c)) = ToSet(notes) \cup c
          BY <4>3, NotesGrow DEF Types
        <4> QED BY <4>2, <4>4
      <3> QED BY <1>5, <3>1, <3>2 DEF Converse
    <2> QED BY <2>1, <2>2 DEF Heard
  <1>6. CASE Score
    <2>1. UNCHANGED <<change, reported, notes>>
      BY <1>6 DEF Score, scan, loop
    <2>2. \A f \in ToSet(notes) : Survives(f) => f \in ToSet(output')
      BY <1>6, ScoreElements DEF Score, Types
    <2> QED BY <2>1, <2>2 DEF Heard
  <1>7. CASE CarryOver
    <2>1. UNCHANGED <<change, reported, notes>> /\ stage = "carry"
      BY <1>7 DEF CarryOver, Go, scan, loop
    <2>2. ToSet(output) \subseteq ToSet(output')
      BY <1>7, CarriedElements DEF CarryOver, Types
    <2> QED BY <2>1, <2>2 DEF Heard, Late
  <1>8. CASE Elsewhere
    <2>1. Onward
      BY <1>8, ElsewhereOnward
    <2> QED BY <2>1 DEF Onward, Heard
  <1> QED BY <1>1, <1>2, <1>3, <1>4, <1>5, <1>6, <1>7, <1>8, StepCases

\* A run without a kept file goes straight to its comment.
LEMMA StubbedStep == Stubbed /\ Next => Stubbed'
PROOF
  <1> SUFFICES ASSUME Stubbed, Next PROVE Stubbed'
    OBVIOUS
  <1> USE DEF Stub, Stubbed, Closing, After
  <1>1. CASE Begin
    BY <1>1 DEF Begin
  <1>2. ASSUME NEW s \in Scanners, Adapter(s) PROVE Stubbed'
    BY <1>2 DEF Adapter
  <1>3. ASSUME NEW a \in {"summarizer", "labeler"}, CheapAgent(a) PROVE Stubbed'
    BY <1>3 DEF CheapAgent
  <1>4. CASE Described
    BY <1>4 DEF Described, Go
  <1>5. CASE Converse
    BY <1>5 DEF Converse, End
  <1>6. CASE Score
    BY <1>6 DEF Score, Go
  <1>7. CASE CarryOver
    BY <1>7 DEF CarryOver, Go
  <1>8. CASE Elsewhere
    <2>1. Onward
      BY <1>8, ElsewhereOnward
    <2> QED BY <2>1 DEF Onward
  <1> QED BY <1>1, <1>2, <1>3, <1>4, <1>5, <1>6, <1>7, <1>8, StepCases

-----------------------------------------------------------------------------
(* The pull request *)

\* What a run says is settled once its findings are.
LEMMA Settled ==
  ASSUME Onward
  PROVE  /\ ScannerRows' = ScannerRows /\ Fresh' = Fresh /\ Stub' = Stub
         /\ Body(run, 1)' = Body(run, 1) /\ Body(run, 2)' = Body(run, 2)
PROOF
  <1> USE DEF Onward
  <1>1. ScannerRows' = ScannerRows
    BY DEF ScannerRows, Deduped
  <1>2. Stub' = Stub
    BY DEF Stub
  <1>3. Evidence' = Evidence
    BY <1>1 DEF Evidence
  <1>4. Fresh' = Fresh
    BY <1>2, <1>3 DEF Fresh, Escalated
  <1>5. (\E f \in scored : f.sev = 4)' = (\E f \in scored : f.sev = 4)
    OBVIOUS
  <1>6. Body(run, 1)' = Body(run, 1) /\ Body(run, 2)' = Body(run, 2)
    BY <1>1, <1>5 DEF Body
  <1> QED BY <1>1, <1>2, <1>4, <1>6

\* The issue comments and the labels that the steps of a stage leave behind.
LEMMA SpokenStep == Types /\ Spoken /\ Next => Spoken'
PROOF
  <1> SUFFICES ASSUME Types, Spoken, Next,
                      NEW i \in issue'
               PROVE  /\ i.by \in 0..run'
                      /\ i.by = run' /\ stage' # "idle" =>
                           stage' \in After /\ i.rows = ScannerRows'
    BY DEF Spoken
  <1>a. run \in Nat /\ \A j \in issue : j.by \in 0..run
    BY DEF Types, Spoken
  <1>b. \A j \in issue : j.by = run /\ stage # "idle" => stage \in After /\ j.rows = ScannerRows
    BY DEF Spoken
  <1>1. CASE Begin
    <2>1. issue' = issue /\ run' = run + 1
      BY <1>1 DEF Begin
    <2> QED BY <1>a, <2>1
  <1>2. CASE \/ \E s \in Scanners : Adapter(s)
             \/ \E a \in {"summarizer", "labeler"} : CheapAgent(a)
             \/ Described \/ Converse \/ Score \/ CarryOver
    <2>1. issue' = issue /\ run' = run /\ stage \notin After /\ stage # "idle"
      BY <1>2 DEF Adapter, CheapAgent, Described, Converse, Score, CarryOver, Go, page, After
    <2> QED BY <1>a, <1>b, <2>1
  <1>3. CASE Elsewhere
    <2>1. Onward /\ run' = run
      BY <1>3, ElsewhereOnward DEF Onward
    <2>2. ScannerRows' = ScannerRows /\ (stage' # "idle" => stage # "idle")
      BY <2>1, Settled DEF Onward
    <2>3. CASE i \in issue
      <3>1. stage \in After /\ stage' # "idle" => stage' \in After
        BY <1>3, <2>1 DEF Elsewhere, After, Setup, Scanned, Unprepared, PostComments, Upload, Poll, ListIssue,
             DeleteIssue, PostIssue, ListLabels, RemoveLabel, AddLabels, Finish, Crash, Person, Go, End
      <3> QED BY <1>a, <1>b, <2>1, <2>2, <2>3, <3>1
    <2>4. CASE i \notin issue
      <3>1. \/ PostIssue \/ Person
        BY <1>3, <2>4 DEF Elsewhere, Setup, Scanned, Unprepared, PostComments, Upload, Poll, ListIssue,
             DeleteIssue, ListLabels, RemoveLabel, AddLabels, Finish, Crash, page
      <3>2. CASE PostIssue
        <4>1. i \in {Body(run, 1), Body(run, 2)} /\ stage' \in {"label", "idle"}
          BY <2>4, <3>2 DEF PostIssue, End
        <4>2. i.by = run /\ i.rows = ScannerRows
          BY <4>1 DEF Body
        <4> QED BY <1>a, <2>1, <2>2, <4>1, <4>2 DEF After
      <3>3. CASE Person
        <4>1. i = Human(2, TRUE) /\ stage' = stage
          BY <2>4, <3>3 DEF Person
        <4>2. i.by = 0
          BY <4>1 DEF Human
        <4>3. stage # "idle" => run # 0
          BY DEF Types
        <4>4. i.by \in 0..run'
          BY <1>a, <2>1, <4>2
        <4>5. ~(i.by = run' /\ stage' # "idle")
          BY <2>1, <4>1, <4>2, <4>3
        <4> QED BY <4>4, <4>5
      <3> QED BY <3>1, <3>2, <3>3
    <2> QED BY <2>3, <2>4
  <1> QED BY <1>1, <1>2, <1>3, StepCases

\* A run that nothing interfered with replaces what the run before it left.
LEMMA LatestStep == Types /\ Latest /\ Next => Latest'
PROOF
  <1> SUFFICES ASSUME Types, Latest, Next, sound' PROVE Latest'
    BY DEF Latest
  <1> USE DEF After
  <1>1. CASE Begin
    <2>1. stage' \notin {"say"} \cup After
      BY <1>1 DEF Begin
    <2> QED BY <2>1 DEF Latest
  <1>2. CASE \/ \E s \in Scanners : Adapter(s)
             \/ \E a \in {"summarizer", "labeler"} : CheapAgent(a)
             \/ Described \/ Converse \/ Score \/ CarryOver
             \/ Setup \/ Scanned \/ Unprepared \/ PostComments \/ Upload \/ Poll \/ Finish \/ Crash
    <2>1. stage' \notin {"say"} \cup After
      BY <1>2 DEF Adapter, CheapAgent, Described, Converse, Score, CarryOver,
           Setup, Scanned, Unprepared, PostComments, Upload, Poll, Finish, Crash, Go, End, Harm
    <2> QED BY <2>1 DEF Latest
  <1>3. CASE ListIssue
    <2>1. doomed' = Summaries /\ issue' = issue /\ stage' = "say"
      BY <1>3 DEF ListIssue, Harm, Go
    <2>2. Summaries' = Summaries
      BY <2>1 DEF Summaries
    <2> QED BY <2>1, <2>2 DEF Latest
  <1>4. CASE DeleteIssue
    <2>1. PICK i \in doomed : doomed' = doomed \ {i} /\ issue' = issue \ {i} /\ sound
      BY <1>4 DEF DeleteIssue, Harm, Calm, tally
    <2>2. stage = "say" /\ stage' = "say"
      BY <1>4 DEF DeleteIssue
    <2>3. Summaries = doomed
      BY <2>1, <2>2 DEF Latest
    <2>4. Summaries' = Summaries \ {i}
      BY <2>1 DEF Summaries
    <2> QED BY <2>1, <2>2, <2>3, <2>4 DEF Latest
  <1>5. CASE PostIssue
    <2>1. /\ issue' = issue \cup {Body(run, 1)} /\ stage' = "label" /\ sound
          /\ stage = "say" /\ doomed = {}
      BY <1>5 DEF PostIssue, Harm, Calm, tally
    <2>2. Summaries = {}
      BY <2>1 DEF Latest
    <2>3. Body(run, 1).marked
      BY DEF Body
    <2>4. Summaries' = {Body(run, 1)}
      BY <2>1, <2>2, <2>3 DEF Summaries
    <2>5. Onward
      BY <1>5, ElsewhereOnward DEF Elsewhere
    <2>6. Body(run, 1)' = Body(run, 1)
      BY <2>5, Settled
    <2> QED BY <2>1, <2>4, <2>6 DEF Latest
  <1>6. CASE ListLabels \/ RemoveLabel \/ AddLabels
    <2>1. Onward
      BY <1>6, ElsewhereOnward DEF Elsewhere
    <2>2. Body(run, 1)' = Body(run, 1) /\ Fresh' = Fresh
      BY <2>1, Settled
    <2>3. issue' = issue /\ stage \in After /\ sound
      BY <1>6 DEF ListLabels, RemoveLabel, AddLabels, Go, Calm, Harm, tally
    <2>4. Summaries' = {Body(run, 1)'}
      BY <2>2, <2>3 DEF Latest, Summaries
    <2>5. CASE ListLabels
      <3>1. /\ doomed' = {l \in StaleExclusive(Fresh) : Fresh # {}}
            /\ labels' = labels /\ stage' = "tag"
        BY <2>5 DEF ListLabels, Go, Harm
      <3>2. Fresh # {} => labels \cap RiskLabels \subseteq doomed' \cup Fresh
        BY <3>1 DEF StaleExclusive
      <3> QED BY <2>2, <2>4, <3>1, <3>2 DEF Latest
    <2>6. CASE RemoveLabel
      <3>1. PICK l \in doomed : doomed' = doomed \ {l} /\ labels' = labels \ {l}
        BY <2>6 DEF RemoveLabel, Harm
      <3>2. stage = "tag" /\ stage' = "tag"
        BY <2>6 DEF RemoveLabel
      <3>3. Fresh # {} => labels \cap RiskLabels \subseteq doomed \cup Fresh
        BY <2>3, <3>2 DEF Latest
      <3> QED BY <2>2, <2>4, <3>1, <3>2, <3>3 DEF Latest
    <2>7. CASE AddLabels
      <3>1. stage = "tag" /\ stage' = "exit" /\ doomed = {} /\ labels' = labels \cup Fresh
        BY <2>7 DEF AddLabels, Go, Harm
      <3>2. Fresh # {} => labels \cap RiskLabels \subseteq Fresh
        BY <2>3, <3>1 DEF Latest
      <3> QED BY <2>2, <2>4, <3>1, <3>2 DEF Latest
    <2> QED BY <1>6, <2>5, <2>6, <2>7
  <1>7. CASE Person
    <2>1. stage' = "idle"
      BY <1>7 DEF Person
    <2> QED BY <2>1 DEF Latest
  <1> QED BY <1>1, <1>2, <1>3, <1>4, <1>5, <1>6, <1>7, StepCases DEF Elsewhere

-----------------------------------------------------------------------------
(* Theorems *)

\* All that is needed of a state.
Sane == Types /\ Covered /\ Heard /\ Spoken /\ Stubbed /\ Latest

LEMMA SaneInit == Init => Sane
PROOF
  <1> SUFFICES ASSUME Init PROVE Sane
    OBVIOUS
  <1>1. Types
    BY TypesInit
  <1>2. stage = "idle" /\ reported = {} /\ issue = {Human(1, FALSE)} /\ run = 0
    BY DEF Init
  <1>3. Covered /\ Heard /\ Stubbed /\ Latest
    BY <1>2 DEF Covered, Heard, Stubbed, Latest, Late, After
  <1>4. Spoken
    BY <1>2 DEF Spoken, Human
  <1> QED BY <1>1, <1>3, <1>4 DEF Sane

LEMMA SaneNext == Sane /\ [Next]_vars => Sane'
PROOF
  <1>1. ASSUME Sane, UNCHANGED vars PROVE Sane'
    <2>1. Types'
      BY <1>1, TypesNext DEF Sane
    <2>2. ScannerRows' = ScannerRows /\ Stub' = Stub /\ Evidence' = Evidence
      BY <1>1 DEF vars, found, scan, ScannerRows, Deduped, Stub, Evidence
    <2>3. Covered' /\ Heard' /\ Stubbed'
      BY <1>1, <2>2 DEF Sane, Covered, Heard, Stubbed, vars, scan, loop, found
    <2>4. Spoken'
      BY <1>1, <2>2 DEF Sane, Spoken, vars, page
    <2>5. Fresh' = Fresh
      BY <1>1, <2>2 DEF Fresh, Escalated, vars, scan
    <2>6. Body(run, 1)' = Body(run, 1)
      BY <1>1, <2>2 DEF Body, vars, found
    <2>7. Summaries' = Summaries
      BY <1>1 DEF Summaries, vars, page
    <2>8. Latest'
      BY <1>1, <2>5, <2>6, <2>7 DEF Sane, Latest, vars, page, tally
    <2> QED BY <2>1, <2>3, <2>4, <2>8 DEF Sane
  <1>2. ASSUME Sane, Next PROVE Sane'
    BY <1>2, TypesStep, CoveredStep, HeardStep, SpokenStep, StubbedStep, LatestStep DEF Sane
  <1> QED BY <1>1, <1>2

\* What a scanner found in the change has a row in the summary of the run.
THEOREM ScannersAreHeard == Spec => []ScannersReach
PROOF
  <1>1. ASSUME Sane PROVE ScannersReach
    <2> SUFFICES ASSUME stage = "label", ~Stub, NEW f \in reported, Survives(f),
                        NEW i \in Own(run), i.marked
                 PROVE  \E row \in i.rows : Place(row) = Place(f)
      BY DEF ScannersReach
    <2>1. f \in ToSet(output) /\ FromScanner(f) /\ output \in Seq(Noted)
      BY <1>1 DEF Sane, Heard, Late, Types
    <2>2. \E row \in ScannerRows : Place(row) = Place(f)
      BY <2>1, RowsCover
    <2>3. i.rows = ScannerRows
      BY <1>1 DEF Sane, Spoken, Own
    <2> QED BY <2>2, <2>3
  <1> QED BY <1>1, SaneInit, SaneNext, PTL DEF Spec

\* The evidence is no lower than a finding that counts.
LEMMA EvidenceCovers ==
  ASSUME Types, NEW f \in ToSet(Deduped(output)),
         (FromScanner(f) /\ f.raw > 2) \/ (f \in scored /\ f.sev > 2)
  PROVE  /\ Evidence \in 3..4
         /\ Evidence >= (IF f \in scored /\ f.sev > 2 THEN f.sev ELSE f.raw)
PROOF
  <1>1. f \in Noted
    BY DedupedCovers, ElementsTyped DEF Types
  <1>2. f.raw \in 0..4 /\ f.sev \in 0..4
    BY <1>1 DEF Noted, Findings
  <1>3. CASE f \in scored /\ f.sev > 2
    <2>1. f.sev = 3 \/ f.sev = 4
      BY <1>2, <1>3
    <2> QED BY <1>3, <2>1 DEF Evidence
  <1>4. CASE ~(f \in scored /\ f.sev > 2)
    <2>1. f \in ScannerRows /\ (f.raw = 3 \/ f.raw = 4)
      BY <1>2, <1>4 DEF ScannerRows
    <2> QED BY <1>4, <2>1 DEF Evidence
  <1> QED BY <1>3, <1>4

\* The labels of a run with evidence hold one as high, and no other label of
\* risk but what the labeler put among the others.
LEMMA FreshRisk ==
  ASSUME Types, ~Stub, Evidence \in 3..4
  PROVE  \E tag \in Fresh : /\ RankOf(tag) >= Evidence
                           /\ Fresh \subseteq {tag} \cup Extras
PROOF
  <1> DEFINE l == cheap.labels
             e == Evidence
  <1>1. l = [type |-> l.type, risk |-> l.risk, domains |-> l.domains]
    <2>1. l \in Proposals \cup {Nothing}
      BY DEF Types
    <2>2. ASSUME NEW p \in Proposals \cup {Nothing}
          PROVE  p = [type |-> p.type, risk |-> p.risk, domains |-> p.domains]
      BY ProposalsAssumption DEF Nothing
    <2> HIDE DEF l
    <2> QED BY <2>1, <2>2
  <1>2. Fresh = LabelSet(Escalated(l))
    BY DEF Fresh
  <1>3. e = 3 \/ e = 4
    OBVIOUS
  <1>4. Escalated(l) = IF e > RankOf(l.risk) THEN [l EXCEPT !.risk = Risk[e]] ELSE l
    BY DEF Escalated
  <1>x. Extras = {l.type} \cup l.domains
    BY DEF Extras
  <1> HIDE DEF l, e
  <1>5. RankOf(l.risk) \in 0..4
    BY RiskRanks
  <1>6. \E tag : /\ RankOf(tag) >= e
                 /\ Escalated(l) = [type |-> l.type, risk |-> tag, domains |-> l.domains]
    <2>1. CASE e > RankOf(l.risk)
      <3>1. Escalated(l) = [type |-> l.type, risk |-> Risk[e], domains |-> l.domains]
        BY <1>1, <1>4, <2>1
      <3>2. RankOf(Risk[e]) >= e
        <4>1. RankOf(Risk[3]) = 3 /\ RankOf(Risk[4]) = 4
          BY RiskRanks, Zenon
        <4>2. (e = 3 => RankOf(Risk[e]) = e) /\ (e = 4 => RankOf(Risk[e]) = e)
          BY <4>1, Zenon
        <4> QED BY <1>3, <4>2
      <3> QED BY <3>1, <3>2
    <2>2. CASE ~(e > RankOf(l.risk))
      <3>1. Escalated(l) = [type |-> l.type, risk |-> l.risk, domains |-> l.domains]
        BY <1>1, <1>4, <2>2
      <3>2. RankOf(l.risk) >= e
        <4>1. PICK n \in 0..4 : n = RankOf(l.risk)
          BY <1>5
        <4>2. n >= e
          BY <1>3, <2>2, <4>1
        <4> QED BY <4>1, <4>2
      <3> QED BY <3>1, <3>2
    <2> QED BY <2>1, <2>2
  <1>7. PICK tag : /\ RankOf(tag) >= e
                   /\ Escalated(l) = [type |-> l.type, risk |-> tag, domains |-> l.domains]
    BY <1>6
  <1>8. tag # ""
    <2>1. RankOf(tag) # 0
      <3>1. PICK n \in 0..4 : n = RankOf(tag)
        BY RiskRanks
      <3>2. n >= e
        BY <1>7, <3>1
      <3> QED BY <1>3, <3>1, <3>2
    <2>2. tag \in ToSet(Risk)
      BY <2>1, RiskRanks
    <2> QED BY <2>2, RiskRanks
  <1>9. Fresh = ({l.type, tag} \cup l.domains) \ {""}
    <2> DEFINE x == Escalated(l)
    <2>1. x.type = l.type /\ x.risk = tag /\ x.domains = l.domains
      BY <1>7
    <2>2. Fresh = ({x.type, x.risk} \cup x.domains) \ {""}
      BY <1>2, Zenon DEF LabelSet
    <2> HIDE DEF x
    <2> QED BY <2>1, <2>2
  <1>10. tag \in Fresh /\ Fresh \subseteq {tag} \cup Extras
    BY <1>8, <1>9, <1>x
  <1> QED BY <1>7, <1>10 DEF e

\* After a run nothing interfered with, the page shows that run, and a label as
\* high as its findings with none below it but the labeler's own.
THEOREM PageFollows == Spec => []PageIsCurrent
PROOF
  <1>1. ASSUME Sane PROVE PageIsCurrent
    <2> SUFFICES ASSUME stage = "exit", sound PROVE PageIsCurrent
      BY DEF PageIsCurrent
    <2>1. /\ Summaries = {Body(run, 1)} /\ Fresh \subseteq labels
          /\ Fresh # {} => labels \cap RiskLabels \subseteq Fresh
      BY <1>1 DEF Sane, Latest, After
    <2>2. ASSUME NEW f \in ToSet(Deduped(output)),
                 (FromScanner(f) /\ f.raw > 2) \/ (f \in scored /\ f.sev > 2),
                 NEW shown, shown = IF f \in scored /\ f.sev > 2 THEN f.sev ELSE f.raw
          PROVE  /\ \E tag \in labels : RankOf(tag) >= shown
                 /\ \A tag \in (labels \cap RiskLabels) \ Extras : RankOf(tag) >= shown
      <3>1. ~Stub
        <4> SUFFICES ASSUME Stub PROVE FALSE
          OBVIOUS
        <4>1. output = << >>
          BY <1>1 DEF Sane, Stubbed
        <4>2. ToSet(Deduped(output)) \subseteq ToSet(output)
          BY <1>1, DedupedCovers DEF Sane, Types
        <4> QED BY <4>1, <4>2, ToSetEmpty
      <3>2. Evidence \in 3..4 /\ Evidence >= shown
        BY <1>1, <2>2, EvidenceCovers DEF Sane
      <3>3. PICK tag \in Fresh : RankOf(tag) >= Evidence /\ Fresh \subseteq {tag} \cup Extras
        BY <1>1, <3>1, <3>2, FreshRisk DEF Sane
      <3>4. shown \in 0..4
        <4>1. f \in Noted
          BY <1>1, DedupedCovers, ElementsTyped DEF Sane, Types
        <4> QED BY <2>2, <4>1 DEF Noted, Findings
      <3>5. RankOf(tag) >= shown
        <4>1. RankOf(tag) \in 0..4
          BY RiskRanks
        <4> QED BY <3>2, <3>3, <3>4, <4>1
      <3>6. tag \in labels /\ (labels \cap RiskLabels) \ Extras \subseteq {tag}
        BY <2>1, <3>3
      <3> QED BY <3>5, <3>6
    <2> QED BY <2>1, <2>2 DEF PageIsCurrent
  <1> QED BY <1>1, SaneInit, SaneNext, PTL DEF Spec

\* A finding leaves the findings file only when the conversation about its file
\* came to an end in that run, when the diff only renames its file, or for
\* another one at its place.
THEOREM OnlyReviewedIsResolved == Spec => ResolvedByReview
PROOF
  <1> DEFINE Kind == \A f \in ToSet(known) \ ToSet(known') :
                       \/ f.path \in reviewed \cup renamed
                       \/ \E g \in ToSet(known') : Place(g) = Place(f)
  <1>1. ASSUME Sane, [Next]_vars PROVE [known' # known => Kind]_vars
    <2> SUFFICES ASSUME known' # known PROVE Kind
      OBVIOUS
    <2>1. CarryOver
      <3>1. Next
        BY <1>1 DEF vars, found
      <3>2. Elsewhere => known' = known
        BY ElsewhereOnward DEF Onward
      <3> QED BY <3>1, <3>2, StepCases
           DEF Begin, Adapter, CheapAgent, Described, Converse, Score, found
    <2>2. known' = output \o Carried /\ stage = "carry"
      BY <2>1 DEF CarryOver, Go
    <2>3. change \cap Source \subseteq reviewed \cup renamed
      BY <1>1, <2>2 DEF Sane, Covered
    <2>4. /\ ToSet(output) \subseteq ToSet(known')
          /\ \A f \in ToSet(known) \ ToSet(known') :
               \/ f.path \in change \cap Source
               \/ \E g \in ToSet(output) : Place(g) = Place(f)
      BY <1>1, <2>2, CarriedElements DEF Sane, Types
    <2> QED BY <2>3, <2>4
  <1> QED BY <1>1, SaneInit, SaneNext, PTL DEF Spec, ResolvedByReview

=============================================================================
