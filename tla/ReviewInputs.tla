---------------------------- MODULE ReviewInputs -----------------------------
(***************************************************************************)
(* What a review looks at: the diffs it takes from git, the files it       *)
(* selects, the files its tools show and the places its comments get       *)
(* (internal/diff, internal/selector, internal/tool, internal/comment and  *)
(* the stages of cmd/sacr/review_cmd.go that use them).                    *)
(*                                                                         *)
(* The repository has a branch, an index and a working tree.  A review     *)
(* runs several git commands one after another, and each of them resolves  *)
(* its references again; files of the working tree are read one by one.    *)
(* Between two of these steps people edit, stage and commit.               *)
(***************************************************************************)
EXTENDS Placing, CommentArgs

CONSTANTS
  Paths, Order,    \* the paths of the repository, and the order git lists them in
  Parts,           \* the components of each path
  Trees,           \* bound: the trees whose files people write
  Gone, Binary,    \* content of a missing file; content git takes for binary
  Repositories,    \* bound: [history, index, work] at the start
  Windows,         \* bound: the first and last lines file_read is asked for
  Words,           \* bound: what code_search looks for
  Patterns,        \* .gitignore, in file order: [negated, body, anchored, dirOnly]
  Blocked,         \* providerDirIgnoreDirs
  Indexable,       \* names with an extension the index knows
  Skipped,         \* directories of the default skip list
  MaxTextPerFile,  \* the largest diff that is reviewed, in lines
  Hunks,           \* the hunks of git between two contents, DiffContextLines apart
  ReadMax,         \* fileReadMaxLines
  Calls,           \* bound: the arguments of code_comment calls, with what was meant
  Excerpts,        \* the lines that each word of an excerpt stands for
  Rewrites,        \* bound: the excerpts the model may answer when asked again
  MaxEvents        \* bound: moves of people and failures of git in one review

VARIABLES
  history, index, work,  \* the repository
  opts,                  \* which of --from, --to, --commit were given, and the
                         \* commit they name, 0 when they name a branch
  phase,                 \* the next step of the review
  base,                  \* the merge base, as a commit
  listed,                \* untracked files still to be read
  text,                  \* the diff text collected so far
  unread,                \* parsed diffs whose content is still to be read
  diffs,                 \* parsed diffs with their content
  decisions,             \* what the selector said about each
  heard,                 \* the last code_comment call, parsed and placed
  answer,                \* the last answer of file_read
  moves, faults          \* what people did since the review began, what git failed to do

repo == <<history, index, work>>
got == <<base, listed, text, unread, diffs, decisions>>
said == <<heard, answer>>
tally == <<moves, faults>>
vars == <<repo, opts, phase, got, said, tally>>

ASSUME InputsAssumption ==
  /\ ToSet(Order) = Paths /\ \A t \in Trees : DOMAIN t = Paths
  /\ ReadMax \in Nat \ {0} /\ MaxTextPerFile \in Nat /\ MaxEvents \in Nat

-----------------------------------------------------------------------------
(* git *)

EmptyTree == [p \in Paths |-> Gone]
Tip == Len(history)
Commit(i) == IF i = 0 THEN EmptyTree ELSE history[i]
TipTree == Commit(Tip)

\* --to and --commit name HEAD, or the commit that was HEAD at the start.
Resolve == IF opts.at > 0 THEN opts.at ELSE Tip
RefTree == Commit(Resolve)

\* The tracked files as they are in the working tree.
Tracked == [p \in Paths |-> IF index[p] = Gone THEN Gone ELSE work[p]]
Untracked == SelectSeq(Order, LAMBDA p : index[p] = Gone /\ work[p] # Gone)

Section(p, old, new) ==
  <<Header("diff", p)>>
  \o (IF old = Gone THEN <<Header("new", p)>> ELSE << >>)
  \o (IF new = Gone THEN <<Header("deleted", p)>> ELSE << >>)
  \o <<Header("index", p)>>
  \o (IF Binary \in {old, new} THEN <<Header("binary", p)>>
      ELSE LET o == IF old = Gone THEN << >> ELSE old
               n == IF new = Gone THEN << >> ELSE new
           IN IF o = n THEN << >>
              ELSE (IF old = Gone THEN <<Header("---", p)>> ELSE << >>)
                   \o (IF new = Gone THEN <<Header("+++", p)>> ELSE << >>) \o Hunks[<<o, n>>])

\* git diff --find-renames between two trees.
Renames(old, new) ==
  {r \in Paths \X Paths : /\ old[r[1]] \notin {Gone, << >>} /\ new[r[1]] = Gone
                          /\ old[r[2]] = Gone /\ new[r[2]] = old[r[1]]}
TreeDiff(old, new) ==
  LET renames == Renames(old, new)
      pair == IF renames = {} THEN {} ELSE {CHOOSE r \in renames : TRUE}
  IN Folded(LAMBDA out, p :
       IF old[p] = new[p] \/ \E r \in pair : r[1] = p THEN out
       ELSE IF \E r \in pair : r[2] = p
         THEN LET r == CHOOSE x \in pair : TRUE
              IN out \o <<Header("diff", p), Header("from", r[1]), Header("to", r[2])>>
       ELSE out \o Section(p, old[p], new[p]), << >>, Order)

\* What `git show`, the merge base and the branch are, by the flags given.
Mode == IF opts.commit THEN "commit" ELSE IF opts.from \/ opts.to THEN "range" ELSE "workspace"

-----------------------------------------------------------------------------
(* Exclusion and selection *)

\* filepath.Match, component by component: a glob is the set of names it fits.
Fits(parts, body) == Len(parts) = Len(body) /\ \A i \in DOMAIN body : parts[i] \in body[i]
EndsWith(parts, body) ==
  /\ Len(parts) > Len(body)
  /\ \A i \in DOMAIN body : body[i] = {parts[Len(parts) - Len(body) + i]}

\* matchGitignoreDirectory: a directory above the file fits.
FitsDirectory(parts, g) ==
  \E i \in 1..(Len(parts) - 1) :
    IF g.anchored \/ Len(g.body) > 1 THEN Fits(SubSeq(parts, 1, i), g.body)
    ELSE parts[i] \in g.body[1]

\* matchGitignoreBody
Matches(parts, g) ==
  IF g.dirOnly THEN FitsDirectory(parts, g)
  ELSE IF Len(g.body) = 1
    THEN IF g.anchored THEN Fits(parts, g.body) ELSE parts[Len(parts)] \in g.body[1]
  ELSE Fits(parts, g.body) \/ (~g.anchored /\ EndsWith(parts, g.body))

\* isPathExcluded: blocked directories always; of the patterns the last one
\* that matches decides, and a negated directory pattern is no pattern.
PathExcluded(p) ==
  \/ Parts[p][1] \in Blocked
  \/ Folded(LAMBDA out, g : IF g.negated /\ g.dirOnly THEN out
                              ELSE IF Matches(Parts[p], g) THEN ~g.negated ELSE out,
              FALSE, Patterns)

\* git ls-files --exclude-standard: a directory above may be ignored, too.
GitFits(parts, isDir, g) ==
  /\ g.dirOnly => isDir
  /\ IF Len(g.body) = 1 /\ ~g.anchored THEN parts[Len(parts)] \in g.body[1] ELSE Fits(parts, g.body)
GitIgnored(p) ==
  \E i \in DOMAIN Parts[p] :
    Folded(LAMBDA out, g : IF GitFits(SubSeq(Parts[p], 1, i), i < Len(Parts[p]), g)
                             THEN ~g.negated ELSE out, FALSE, Patterns)

\* matchesDefaultSkip
DefaultSkip(parts) == \E i \in 1..(Len(parts) - 1) : parts[i] \in Skipped

\* whyExcluded under the default options, and the size gate of Select.
WhyExcluded(d) ==
  LET parts == Parts[EffectivePath(d)]
  IN IF d.binary THEN "binary"
     ELSE IF parts[Len(parts)] \notin Indexable THEN "extension_not_supported"
     ELSE IF DefaultSkip(parts) THEN "default_pattern"
     ELSE IF Len(d.text) > MaxTextPerFile THEN "too_large"
     ELSE ""

Kept == LET k == SelectSeq([i \in DOMAIN diffs |-> <<diffs[i], decisions[i]>>],
                           LAMBDA x : x[2] = "")
        IN [i \in DOMAIN k |-> k[i][1]]
IsPureRename(d) == d.renamed /\ d.insertions + d.deletions = 0
Reviewed == {EffectivePath(d) : d \in {d \in ToSet(Kept) : ~IsPureRename(d)}}

-----------------------------------------------------------------------------
(* The tools *)

\* ParseReviewMode: a range counts as one only when both ends were given.
ToolMode == IF opts.commit THEN "commit" ELSE IF opts.from /\ opts.to THEN "range" ELSE "workspace"

\* Mutant of ToolTree: a single commit is read from the working tree.
ToolTree_CommitFromDisk == IF ToolMode = "range" THEN RefTree ELSE work

\* FileReader: the reference of the mode, resolved at every call, or the disk.
ToolTree == IF ToolMode = "workspace" THEN work ELSE RefTree

\* The files that the searching tools see.
ToolFiles ==
  IF ToolMode # "workspace" THEN {p \in Paths : RefTree[p] # Gone}
  ELSE {p \in Paths : index[p] # Gone \/ (work[p] # Gone /\ ~GitIgnored(p))}

\* scanLines: a final newline opens one more line.
AllLines(content) == IF content = << >> THEN << >> ELSE Append(content, Blank)

Silence == [tool |-> "", path |-> "", first |-> 0, last |-> 0, lines |-> << >>,
            truncated |-> FALSE, found |-> {}, word |-> ""]

\* file_read: the window that was asked for, at most ReadMax lines of it.
ReadWindow(all, first, last) ==
  LET from == IF first <= 0 THEN 1 ELSE first
      until == IF last <= 0 THEN Len(all) ELSE IF last < Len(all) THEN last ELSE Len(all)
      count == IF until - from + 1 > ReadMax THEN ReadMax ELSE until - from + 1
  IN [start |-> from, lines |-> SubSeq(all, from, from + count - 1),
      truncated |-> until - from + 1 > ReadMax]
BadWindow(all, first, last) ==
  LET from == IF first <= 0 THEN 1 ELSE first
  IN (last > 0 /\ last < from) \/ (all # << >> /\ from > Len(all))

\* git grep: every line that holds the word, with its number.
Grep(word) ==
  {<<p, n>> \in ToolFiles \X (1..20) :
     /\ ToolTree[p] \notin {Gone, Binary}
     /\ n \in DOMAIN ToolTree[p] /\ Normal(ToolTree[p][n]) = word}

-----------------------------------------------------------------------------
(* Starting *)

Unsaid == [call |-> "", parsed |-> << >>, placed |-> << >>]

Init ==
  /\ \E r \in Repositories : history = r.history /\ index = r.index /\ work = r.work
  /\ opts = [from |-> FALSE, to |-> FALSE, commit |-> FALSE, at |-> 0]
  /\ phase = "idle"
  /\ base = 0 /\ listed = << >> /\ text = << >> /\ unread = << >>
  /\ diffs = << >> /\ decisions = << >>
  /\ heard = Unsaid /\ answer = Silence
  /\ moves = 0 /\ faults = 0

Go(from, to) == phase = from /\ phase' = to
Fault == moves + faults < MaxEvents /\ faults' = faults + 1 /\ UNCHANGED moves
Quiet == UNCHANGED <<repo, opts, said>>

\* validate, resolveDiffs: --commit excludes --from and --to.
Start ==
  /\ phase = "idle"
  /\ opts' \in {o \in [from : BOOLEAN, to : BOOLEAN, commit : BOOLEAN, at : {0, Tip}] :
                  /\ o.commit => ~o.from /\ ~o.to
                  /\ o.at > 0 => o.commit \/ o.to}
  /\ phase' = IF opts'.commit THEN "show" ELSE IF opts'.from \/ opts'.to THEN "base" ELSE "tracked"
  /\ UNCHANGED <<repo, got, said, tally>>

-----------------------------------------------------------------------------
(* GetDiff *)

\* MergeBase: the branch point, unless one of the references is missing.
MergeBase ==
  /\ Quiet /\ UNCHANGED <<listed, text, unread, diffs, decisions>>
  /\ \/ opts.from /\ Tip > 0 /\ Go("base", "range") /\ base' = 1 /\ UNCHANGED tally
     \/ ~(opts.from /\ Tip > 0) /\ Go("base", "failed") /\ UNCHANGED <<base, tally>>
     \/ Go("base", "failed") /\ Fault /\ UNCHANGED base

\* git diff of the merge base and the head; git show against the first parent.
RangeDiff ==
  /\ Quiet /\ UNCHANGED <<base, listed, unread, diffs, decisions>>
  /\ \/ Go("range", "parse") /\ text' = TreeDiff(Commit(base), RefTree) /\ UNCHANGED tally
     \/ Go("range", "failed") /\ Fault /\ UNCHANGED text
ShowCommit ==
  /\ Quiet /\ UNCHANGED <<base, listed, unread, diffs, decisions>>
  /\ \/ Tip > 0 /\ Go("show", "parse") /\ text' = TreeDiff(Commit(Resolve - 1), RefTree) /\ UNCHANGED tally
     \/ Tip = 0 /\ Go("show", "failed") /\ UNCHANGED <<text, tally>>
     \/ Go("show", "failed") /\ Fault /\ UNCHANGED text

\* workspaceTrackedDiff: against HEAD, and what is staged when that fails or
\* shows nothing.
DiffHead ==
  /\ Quiet /\ UNCHANGED <<base, listed, unread, diffs, decisions>>
  /\ LET changes == IF Tip = 0 THEN << >> ELSE TreeDiff(TipTree, Tracked)
     IN \/ changes # << >> /\ Go("tracked", "others") /\ text' = changes /\ UNCHANGED tally
        \/ changes = << >> /\ Go("tracked", "staged") /\ UNCHANGED <<text, tally>>
        \/ changes # << >> /\ Go("tracked", "staged") /\ Fault /\ UNCHANGED text
DiffStaged ==
  /\ Quiet /\ UNCHANGED <<base, listed, unread, diffs, decisions>>
  /\ \/ Go("staged", "others") /\ text' = TreeDiff(TipTree, index) /\ UNCHANGED tally
     \/ Go("staged", "failed") /\ Fault /\ UNCHANGED text

\* untrackedFileDiffs: list, then read one file after the other.
ListOthers ==
  /\ Quiet /\ UNCHANGED <<base, text, unread, diffs, decisions>>
  /\ \/ Go("others", "reading") /\ UNCHANGED tally
        /\ listed' = SelectSeq(Untracked, LAMBDA p : ~GitIgnored(p) /\ ~PathExcluded(p))
     \/ Go("others", "failed") /\ Fault /\ UNCHANGED listed

\* A file that is gone by now is left out.
AsAdded(p, content) ==
  <<Header("diff", p), Header("---", p), T("@@", "", Blank, <<0, 1>>)>>
  \o [i \in DOMAIN content |-> Content("+", content[i])]
  \o <<Content("", Blank), Content("", Blank)>>
ReadOther ==
  /\ phase = "reading" /\ listed # << >>
  /\ text' = IF work[listed[1]] = Gone THEN text
             ELSE text \o AsAdded(listed[1], work[listed[1]])
  /\ listed' = Tail(listed)
  /\ Quiet /\ UNCHANGED <<phase, base, unread, diffs, decisions, tally>>

\* ParseDiffText, then one read per file that is not deleted.
Parse ==
  /\ Go("parse", "content") \/ (listed = << >> /\ Go("reading", "content"))
  /\ unread' = ParseDiffText(text)
  /\ Quiet /\ UNCHANGED <<base, listed, text, diffs, decisions, tally>>

\* Mutant of SourceTree: contents come from the working tree in every mode.
SourceTree_Disk == work

\* The tree finalizeDiff reads: the reference again, or the working tree.
SourceTree == IF Mode = "workspace" THEN work ELSE RefTree

\* finalizeDiff: a failed read leaves the content empty.
Finalize ==
  /\ phase = "content" /\ unread # << >>
  /\ LET d == unread[1]
         here == IF d.new = Null \/ SourceTree[d.new] = Gone THEN << >> ELSE SourceTree[d.new]
     IN \/ diffs' = Append(diffs, [d EXCEPT !.content = here]) /\ UNCHANGED tally
        \/ diffs' = Append(diffs, d) /\ d.new # Null /\ Fault
  /\ unread' = Tail(unread)
  /\ Quiet /\ UNCHANGED <<phase, base, listed, text, decisions>>

\* filterDiffs, Select.  Nothing left ends the review.
Select ==
  /\ phase = "content" /\ unread = << >>
  /\ diffs' = SelectSeq(diffs, LAMBDA d : ~PathExcluded(EffectivePath(d)))
  /\ decisions' = [i \in DOMAIN diffs' |-> WhyExcluded(diffs'[i])]
  /\ phase' = IF \A i \in DOMAIN decisions' : decisions'[i] # "" THEN "empty" ELSE "ready"
  /\ Quiet /\ UNCHANGED <<base, listed, text, unread, tally>>

-----------------------------------------------------------------------------
(* The conversation *)

\* file_read
ReadFile(p, first, last) ==
  /\ Go("ready", "told")
  /\ LET all == AllLines(ToolTree[p])
         w == ReadWindow(all, first, last)
     IN answer' = IF ToolTree[p] = Gone \/ BadWindow(all, first, last)
                  THEN [Silence EXCEPT !.tool = "error"]
                  ELSE [Silence EXCEPT !.tool = "file_read", !.path = p, !.first = w.start,
                                       !.last = last, !.lines = w.lines,
                                       !.truncated = w.truncated]
  /\ UNCHANGED <<repo, opts, got, heard, tally>>

\* code_search
SearchCode(word) ==
  /\ Go("ready", "told")
  /\ answer' = [Silence EXCEPT !.tool = "code_search", !.word = word, !.found = Grep(word)]
  /\ UNCHANGED <<repo, opts, got, heard, tally>>

\* file_find: the listed files of that name, or else those below a directory
\* of that name.
FindFile(query) ==
  /\ Go("ready", "told")
  /\ LET byName == {p \in ToolFiles : Parts[p][Len(Parts[p])] = query}
         byPath == {p \in ToolFiles : query \in ToSet(Parts[p])}
     IN answer' = [Silence EXCEPT !.tool = "file_find", !.word = query,
                     !.found = {<<p, 0>> : p \in IF byName # {} THEN byName ELSE byPath}]
  /\ UNCHANGED <<repo, opts, got, heard, tally>>

\* file_read_diff: the diff that is looked up for the path, if any.
ReadDiff(p) ==
  /\ Go("ready", "told")
  /\ answer' = IF LookedUp(Kept, p) = << >> THEN [Silence EXCEPT !.tool = "error"]
               ELSE [Silence EXCEPT !.tool = "file_read_diff", !.path = p,
                                    !.lines = LookedUp(Kept, p)[1].text]
  /\ UNCHANGED <<repo, opts, got, heard, tally>>

\* The lines an excerpt stands for; a cut excerpt stands for no line.
ExcerptOf(code) ==
  IF code = << >> THEN << >>
  ELSE IF Len(code) = 1 /\ code[1] \in DOMAIN Excerpts THEN Excerpts[code[1]]
  ELSE <<<<"", "no such line">>>>

\* code_comment: parse, then place every comment against the kept diffs.
CodeComment(call, task, rewritten) ==
  /\ Go("ready", "told") /\ task \in Reviewed
  /\ LET parsed == ParsedComments(call.args, task)
         comments == [i \in DOMAIN parsed |->
                        [path |-> parsed[i].path[1], excerpt |-> ExcerptOf(parsed[i].code),
                         range |-> NoRange]]
     IN heard' = [call |-> call, parsed |-> parsed,
                  placed |-> [i \in DOMAIN comments |-> Place(comments[i], Kept, rewritten)]]
  /\ UNCHANGED <<repo, opts, got, answer, tally>>

-----------------------------------------------------------------------------
(* People *)

Move ==
  /\ phase \notin {"idle", "failed", "empty", "told"} /\ moves + faults < MaxEvents
  /\ moves' = moves + 1
  /\ \/ \E t \in Trees, p \in Paths : t[p] # work[p] /\ work' = [work EXCEPT ![p] = t[p]] /\ UNCHANGED <<history, index>>
     \/ index # work /\ index' = work /\ UNCHANGED <<history, work>>
     \/ Tip > 0 /\ index # TipTree /\ history' = Append(history, index) /\ UNCHANGED <<index, work>>
  /\ UNCHANGED <<opts, phase, got, said, faults>>

Next ==
  \/ Start \/ MergeBase \/ RangeDiff \/ ShowCommit \/ DiffHead \/ DiffStaged
  \/ ListOthers \/ ReadOther \/ Parse \/ Finalize \/ Select
  \/ \E p \in Paths, w \in Windows : ReadFile(p, w[1], w[2])
  \/ \E word \in Words : SearchCode(word)
  \/ \E query \in UNION {ToSet(Parts[p]) : p \in Paths} : FindFile(query)
  \/ \E p \in Paths : ReadDiff(p)
  \/ \E call \in Calls, task \in Paths, rewritten \in Rewrites : CodeComment(call, task, rewritten)
  \/ Move

Spec == Init /\ [][Next]_vars

-----------------------------------------------------------------------------
(* Properties *)

\* The two sides of the change under review.
OldSide == CASE Mode = "range" -> Commit(base)
             [] Mode = "commit" -> Commit(Resolve - 1)
             [] OTHER -> TipTree
NewSide == IF Mode = "workspace" THEN work ELSE RefTree

\* Nothing failed; nothing moved, or the review names a commit; and what was
\* diffed is what was read: of a workspace that looks unchanged the staged
\* files are diffed, and a file taken out of the index but left in place is
\* both deleted and untracked.
Steady ==
  /\ faults = 0 /\ (moves = 0 \/ opts.at > 0)
  /\ Mode = "workspace" => \A p \in Paths :
       /\ (index[p] # Gone /\ (Tip = 0 \/ TreeDiff(TipTree, Tracked) = << >>)) =>
            index[p] = work[p]
       /\ (TipTree[p] # Gone /\ index[p] = Gone) => work[p] = Gone

\* What the review looks at is exactly the change: every file that differs and
\* is not excluded, once, with the content of the new side, hunks whose lines
\* carry the numbers they have in the two files, and the right kind of change;
\* and while a review that names a commit runs, people may do what they like.
ReviewsTheChange ==
  phase = "ready" /\ Steady =>
    LET renames == {d \in ToSet(diffs) : d.renamed}
        ignored(p) == PathExcluded(p) \/ (Mode = "workspace" /\ index[p] = Gone /\ GitIgnored(p))
        vanished(p) == \E d \in renames : d.old = p
    IN /\ \A p \in Paths :
            (OldSide[p] # NewSide[p] /\ ~ignored(p) /\ ~vanished(p)) =>
              \E d \in ToSet(diffs) : EffectivePath(d) = p
       /\ \A d \in ToSet(diffs) :
            LET p == EffectivePath(d)
                old == IF OldSide[d.old] = Gone THEN << >> ELSE OldSide[d.old]
            IN /\ ~d.deleted => d.content = NewSide[p] /\ d.isNew = (OldSide[d.old] = Gone)
               /\ \A h \in ToSet(ParseHunks(d.text)) :
                    /\ \A l \in ToSet(Side(h, FALSE)) : l.text # "" => Normal(old[l.num]) = l.text
                    /\ \A l \in ToSet(Side(h, TRUE)) :
                         l.text # "" => Normal(d.content[l.num]) = l.text
               /\ ~d.binary => d.insertions - d.deletions = Len(d.content) - Len(old)

\* Where a file shows an excerpt: blank lines do not count.
ShownAt(content, target, range) ==
  /\ range # NoRange /\ range[2] <= Len(content)
  /\ ~IsBlank(content[range[1]]) /\ ~IsBlank(content[range[2]])
  /\ Target(SubSeq(content, range[1], range[2])) = target
Holds(content, target) ==
  \E i, j \in DOMAIN content : i <= j /\ ShownAt(content, target, <<i, j>>)

\* A comment is placed on the lines it quotes, blank lines apart: in its own
\* file whenever the new side of that shows them, and in another file only if
\* its own does not show them and no third file does.
PlacedOnExcerpt ==
  phase = "told" /\ Steady =>
    \A i \in DOMAIN heard.placed :
      LET c == heard.placed[i]
          from == heard.parsed[i].path[1]
          meant == Target(ExcerptOf(heard.parsed[i].code))
          new(d) == d.content
          old(d) == IF OldSide[d.old] = Gone THEN << >> ELSE OldSide[d.old]
          quoted(d, t) == Holds(new(d), t) \/ Holds(old(d), t)
          own == ToSet(LookedUp(Kept, from))
      IN meant # << >> =>
         /\ c.range # NoRange =>
              \E d \in ToSet(Kept) :
                /\ c.path \in {d.new, d.old}
                /\ \/ ShownAt(new(d), Target(c.excerpt), c.range)
                   \/ ShownAt(old(d), Target(c.excerpt), c.range)
         /\ \A d \in own : Holds(new(d), meant) => c.path = from /\ c.range # NoRange
         /\ c.path # from =>
              /\ \A d \in own : ~Holds(new(d), meant)
              /\ \E d \in ToSet(Kept) : d.new = c.path /\ quoted(d, meant)
              /\ \A d, e \in ToSet(Kept) :
                   Holds(new(d), meant) /\ Holds(new(e), meant) => d = e

\* A call that was sent as a string and repaired says what was meant: no
\* comment is lost and no text is cut where a quote looked like its end.
RepairIsIntact ==
  phase = "told" /\ heard.parsed # << >> =>
    [i \in DOMAIN heard.parsed |-> <<heard.parsed[i].content, heard.parsed[i].code>>]
      = [i \in DOMAIN heard.call.meant |->
           <<Field(heard.call.meant[i], "content"), Field(heard.call.meant[i], "existing_code")>>]

\* What the tools tell about a reviewed file agrees with the diff under review,
\* line number by line number, and what they leave out of a window they say.
ToolsAgree ==
  phase = "told" /\ Steady /\ (opts.from <=> opts.to) =>
    \A d \in {d \in ToSet(Kept) : ~d.deleted} :
      LET p == EffectivePath(d)
          all == AllLines(d.content)
          until == IF answer.last <= 0 \/ answer.last > Len(all) THEN Len(all) ELSE answer.last
      IN /\ answer.tool = "file_read" /\ answer.path = p =>
              /\ \A i \in DOMAIN answer.lines : answer.lines[i] = all[answer.first + i - 1]
              /\ answer.first + Len(answer.lines) - 1 < until => answer.truncated
         /\ answer.tool = "file_read_diff" /\ answer.path = p => answer.lines = d.text
         /\ answer.tool = "code_search" =>
              \A n \in DOMAIN d.content :
                <<p, n>> \in answer.found <=> Normal(d.content[n]) = answer.word
         /\ (answer.tool = "file_find" /\ Parts[p][Len(Parts[p])] = answer.word) =>
              <<p, 0>> \in answer.found

-----------------------------------------------------------------------------
(* Claims of comments and documents that the runs refute *)

\* internal/diff/resolver.go:147-150, 248-250: the new side comes first, and
\* blank lines do not break a match.
NewSideFirst ==
  phase = "told" /\ Steady =>
    \A i \in DOMAIN heard.placed :
      \A d \in ToSet(LookedUp(Kept, heard.parsed[i].path[1])) :
        LET meant == Target(ExcerptOf(heard.parsed[i].code))
        IN Holds(d.content, meant) => ShownAt(d.content, meant, heard.placed[i].range)

\* internal/diff/resolver.go:88-91: a comment is re-filed to the true home of
\* its excerpt, so its path is a path under review.
FiledUnderReview ==
  phase = "told" => \A i \in DOMAIN heard.placed :
    heard.placed[i].range # NoRange =>
      \E d \in ToSet(Kept) : EffectivePath(d) = heard.placed[i].path

\* docs/THREAT_MODEL.md:187-192: a comment outside the hunks is dropped.
PlacedInsideHunks ==
  phase = "told" => \A i \in DOMAIN heard.placed :
    LET c == heard.placed[i]
    IN c.range # NoRange =>
         \E d \in ToSet(Kept) : EffectivePath(d) = c.path /\
           \E h \in ToSet(ParseHunks(d.text)) :
             \E l \in ToSet(Side(h, TRUE)) : l.num = c.range[2]

\* cmd/sacr/review_cmd.go:90: the head of a range is HEAD when --to is absent,
\* so that is what the tools read.
ToolsReadTheHead ==
  phase = "told" /\ answer.tool = "file_read" /\ Mode = "range" =>
    /\ RefTree[answer.path] # Gone
    /\ \A i \in DOMAIN answer.lines :
         answer.lines[i] = AllLines(RefTree[answer.path])[answer.first + i - 1]
=============================================================================
