------------------------------- MODULE Placing -------------------------------
(***************************************************************************)
(* The text of a unified diff and how the excerpt of a comment becomes a   *)
(* line range (internal/diff/parser.go, hunk.go, resolver.go,              *)
(* relocation.go).                                                         *)
(*                                                                         *)
(* A line of a file is its text after a leading '+' or '-' that it may     *)
(* have, and that marker: << "-", "item" >>.  A line of diff text has a    *)
(* kind, a path, a line of a file and the two start lines of a hunk, each  *)
(* of them empty where it does not apply.                                  *)
(***************************************************************************)
EXTENDS Folding, FiniteSets, SequencesExt

CONSTANT Null   \* "/dev/null"

Blank == <<"", "">>
NoRange == <<0, 0>>
T(kind, path, line, at) == [kind |-> kind, path |-> path, line |-> line, at |-> at]
Header(kind, path) == T(kind, path, Blank, NoRange)
Content(kind, line) == T(kind, "", line, NoRange)

\* model.Diff
NewDiff(old, new) ==
  [old |-> old, new |-> new, text |-> << >>, content |-> << >>,
   binary |-> FALSE, isNew |-> FALSE, deleted |-> FALSE, renamed |-> FALSE,
   insertions |-> 0, deletions |-> 0, inHunk |-> FALSE]

-----------------------------------------------------------------------------
(* Parsing *)

\* A removed line "-- /dev/null" reads "--- /dev/null" in the diff.
LooksOldNull(t) == t.kind = "---" \/ (t.kind = "-" /\ t.line = <<"-", "- /dev/null">>)
LooksNewNull(t) == t.kind = "+++" \/ (t.kind = "+" /\ t.line = <<"+", "+ /dev/null">>)

\* One line of the section of a file.  Counts and header markers look at
\* whether the line is inside a hunk.
ParseLine(d, t) ==
  LET kept == [d EXCEPT !.text = Append(@, t)]
  IN IF t.kind = "@@" THEN [kept EXCEPT !.inHunk = TRUE]
     ELSE IF ~d.inHunk /\ t.kind = "index" THEN d
     ELSE IF ~d.inHunk /\ t.kind = "binary" THEN [kept EXCEPT !.binary = TRUE]
     ELSE IF t.kind = "new" THEN [kept EXCEPT !.isNew = TRUE]
     ELSE IF t.kind = "deleted" THEN [kept EXCEPT !.deleted = TRUE]
     ELSE IF t.kind = "from" THEN [kept EXCEPT !.old = t.path, !.renamed = TRUE]
     ELSE IF t.kind = "to" THEN [kept EXCEPT !.new = t.path, !.renamed = TRUE]
     ELSE IF ~d.inHunk /\ LooksOldNull(t) THEN [kept EXCEPT !.isNew = TRUE]
     ELSE IF ~d.inHunk /\ LooksNewNull(t) THEN [kept EXCEPT !.deleted = TRUE]
     ELSE IF d.inHunk /\ t.kind = "+" THEN [kept EXCEPT !.insertions = @ + 1]
     ELSE IF d.inHunk /\ t.kind = "-" THEN [kept EXCEPT !.deletions = @ + 1]
     ELSE kept

\* ParseDiffText: one diff per header; text before the first one is skipped.
\* The new path of a deleted file is /dev/null (finalizeDiff).
ParseDiffText(text) ==
  LET parsed == Folded(LAMBDA ds, t :
                  IF t.kind = "diff"
                  THEN Append(ds, [NewDiff(t.path, t.path) EXCEPT !.text = <<t>>])
                  ELSE IF ds = << >> THEN ds
                  ELSE [ds EXCEPT ![Len(ds)] = ParseLine(@, t)], << >>, text)
  IN [i \in DOMAIN parsed |->
        IF parsed[i].deleted THEN [parsed[i] EXCEPT !.new = Null] ELSE parsed[i]]

\* ParseHunks: anything but '+' and '-' in a hunk is context.
ParseHunks(text) ==
  Folded(LAMBDA hs, t :
             IF t.kind = "@@" THEN Append(hs, [old |-> t.at[1], new |-> t.at[2], lines |-> << >>])
             ELSE IF hs = << >> \/ t.kind = "no newline" THEN hs
             ELSE [hs EXCEPT ![Len(hs)].lines = Append(@, t)],
           << >>, text)

-----------------------------------------------------------------------------
(* Matching *)

\* normalizeLine: white space and a leading diff marker do not count.
Normal(line) == line[2]
IsBlank(line) == Normal(line) = ""

\* splitAndNormalize
Target(excerpt) ==
  LET lines == SelectSeq(excerpt, LAMBDA l : ~IsBlank(l))
  IN [i \in DOMAIN lines |-> Normal(lines[i])]

\* extractSideLines: the lines of one side with their numbers in that file.
Side(hunk, isNew) ==
  Folded(LAMBDA out, t :
             IF t.kind = (IF isNew THEN "-" ELSE "+") THEN out
             ELSE Append(out, [num |-> (IF isNew THEN hunk.new ELSE hunk.old) + Len(out),
                               text |-> Normal(t.line)]),
           << >>, hunk.lines)

\* The non-blank lines of a file with their numbers.
NumberedLines(content) ==
  SelectSeq([i \in DOMAIN content |-> [num |-> i, text |-> Normal(content[i])]],
            LAMBDA l : l.text # "")

Window(lines, target, i) ==
  /\ i + Len(target) - 1 \in 1..Len(lines)
  /\ \A j \in 1..Len(target) : lines[i + j - 1].text = target[j]

\* Mutant of MatchConsecutive: the end is one window too far.
MatchConsecutive_EndPast(lines, target) ==
  LET starts == {i \in 1..Len(lines) : target # << >> /\ Window(lines, target, i)}
  IN IF starts = {} THEN NoRange
     ELSE LET i == CHOOSE k \in starts : \A l \in starts : k <= l
          IN <<lines[i].num, lines[i].num + Len(target)>>

\* matchConsecutive: the first run of adjacent lines that equals the target.
MatchConsecutive(lines, target) ==
  LET starts == {i \in 1..Len(lines) : target # << >> /\ Window(lines, target, i)}
  IN IF starts = {} THEN NoRange
     ELSE LET i == CHOOSE k \in starts : \A l \in starts : k <= l
          IN <<lines[i].num, lines[i + Len(target) - 1].num>>

FirstRange(ranges) ==
  LET found == SelectSeq(ranges, LAMBDA r : r # NoRange)
  IN IF found = << >> THEN NoRange ELSE found[1]

\* resolveFromHunk: the new side of every hunk, then the old side of every one.
FromHunk(d, target) ==
  LET hunks == ParseHunks(d.text)
      side(isNew) == [i \in DOMAIN hunks |-> MatchConsecutive(Side(hunks[i], isNew), target)]
  IN FirstRange(side(TRUE) \o side(FALSE))

\* resolveFromFileContent
FromContent(d, target) == MatchConsecutive(NumberedLines(d.content), target)

\* ResolveComment
Resolved(d, target) == FirstRange(<<FromHunk(d, target), FromContent(d, target)>>)

\* RelocateAcrossFiles: the diffs of other files that hold the excerpt.
OtherHomes(diffs, path, target) ==
  {d \in ToSet(diffs) : d.new # path /\ d.old # path /\ Resolved(d, target) # NoRange}

\* DiffLookup: the last diff whose path it is, if there is one.
EffectivePath(d) == IF d.new = Null THEN d.old ELSE d.new
LookedUp(diffs, path) ==
  LET own == SelectSeq(diffs, LAMBDA d : EffectivePath(d) = path)
  IN IF own = << >> THEN << >> ELSE <<own[Len(own)]>>

\* ReLocateComment: the own file again, with an excerpt the model rewrote.  A
\* failed request and an answer without code rewrite nothing, and an excerpt
\* that is not found either is taken back.
Relocated(c, own, rewritten) ==
  LET again == FirstRange([i \in DOMAIN own |-> Resolved(own[i], Target(rewritten))])
  IN IF again = NoRange THEN c ELSE [c EXCEPT !.range = again, !.excerpt = rewritten]

\* resolveAndCollect: the own file, else the one other file that holds the
\* excerpt, else the own file again with an excerpt the model rewrote.
Place(c, diffs, rewritten) ==
  LET target == Target(c.excerpt)
      own == LookedUp(diffs, c.path)
      homes == OtherHomes(diffs, c.path, target)
      first == FirstRange([i \in DOMAIN own |-> Resolved(own[i], target)])
  IN IF first # NoRange THEN [c EXCEPT !.range = first]
     ELSE IF Cardinality(homes) = 1
       THEN LET home == CHOOSE d \in homes : TRUE
            IN [c EXCEPT !.path = home.new, !.range = Resolved(home, target)]
     ELSE Relocated(c, own, rewritten)
=============================================================================
