--------------------------- MODULE MCReviewInputs ----------------------------
(***************************************************************************)
(* Small repositories for ReviewInputs: three files, one of them ignored;  *)
(* a change in two hunks, a new file, a deletion, a rename, a binary file, *)
(* a staged change that was taken back and a branch without commits.  The  *)
(* hunks of git are computed here, with one line of context.               *)
(***************************************************************************)
EXTENDS ReviewInputs

L(t) == <<"", t>>
x == L("x")
y == L("y")
z == L("z")
q == L("q")
item == <<"-", "item">>
dashes == <<"-", "- /dev/null">>

none == <<L("<none>")>>
bin == <<L("<binary>")>>
long == <<x, y, z, y, x>>
longEdited == <<q, y, z, y, q>>
short == <<y, Blank, z>>
listing == <<dashes, item, x>>
listingCut == <<item, x>>

Contents == {<< >>, long, longEdited, short, listing, listingCut, <<x>>}

Tree(a, b, v) == [p \in Paths |-> CASE p = "a.go" -> a [] p = "b.go" -> b [] OTHER -> v]
base1 == Tree(long, none, none)
edited == Tree(longEdited, short, <<x>>)
renamed == Tree(none, long, none)
lists == Tree(listing, short, none)
listsCut == Tree(listingCut, bin, <<x>>)
lost == Tree(<<x>>, none, none)

MCPaths == {"a.go", "b.go", "v.go"}
MCOrder == <<"a.go", "b.go", "v.go">>
MCParts == [p \in MCPaths |-> IF p = "v.go" THEN <<"gen", p>> ELSE <<p>>]
MCTrees == {edited, renamed, listsCut}
MCPatterns == <<[negated |-> FALSE, body |-> <<MCPaths>>, anchored |-> FALSE, dirOnly |-> FALSE],
                [negated |-> TRUE, body |-> <<{"a.go", "b.go"}>>, anchored |-> FALSE, dirOnly |-> FALSE],
                [negated |-> TRUE, body |-> <<{"gen"}>>, anchored |-> FALSE, dirOnly |-> TRUE]>>
Repo(h, i, w) == [history |-> h, index |-> i, work |-> w]
MCRepositories ==
  {Repo(<<base1, edited>>, edited, edited),
   Repo(<<base1, renamed>>, renamed, edited),
   Repo(<<lists, listsCut>>, listsCut, lost),
   Repo(<<lists, edited, lost>>, lost, lost),
   Repo(<<base1>>, base1, edited),
   Repo(<<base1>>, edited, base1),
   Repo(<<lists>>, lost, listsCut),
   Repo(<< >>, edited, edited)}

-----------------------------------------------------------------------------
(* The hunks of git *)

Ascending(S) == SetToSortSeq(S, <)
Alignments(old, new) ==
  {al \in (SUBSET DOMAIN old) \X (SUBSET DOMAIN new) :
     /\ Cardinality(al[1]) = Cardinality(al[2])
     /\ LET o == Ascending(al[1])
            n == Ascending(al[2])
        IN \A i \in DOMAIN o : old[o[i]] = new[n[i]]}
Longest(old, new) ==
  LET all == Alignments(old, new)
  IN CHOOSE al \in all : \A other \in all : Cardinality(other[1]) <= Cardinality(al[1])

\* Removed lines, added lines, then the common line they stand before.
Script(old, new) ==
  LET al == Longest(old, new)
      o == Append(Ascending(al[1]), Len(old) + 1)
      n == Append(Ascending(al[2]), Len(new) + 1)
      before(s, k) == IF k = 1 THEN 0 ELSE s[k - 1]
      part(k) ==
        [i \in 1..(o[k] - before(o, k) - 1) |-> Content("-", old[before(o, k) + i])]
        \o [i \in 1..(n[k] - before(n, k) - 1) |-> Content("+", new[before(n, k) + i])]
        \o (IF k = Len(o) THEN << >> ELSE <<Content(" ", old[o[k]])>>)
  IN Folded(LAMBDA s, k : s \o part(k), << >>, [k \in DOMAIN o |-> k])

HunksBetween(old, new) ==
  LET s == Script(old, new)
      shown(i) == \E j \in DOMAIN s : s[j].kind # " " /\ i - j \in -1..1
      start(i, gone) ==
        1 + Cardinality({j \in 1..(i - 1) : s[j].kind # gone})
      header(i) == T("@@", "", Blank, <<IF old = << >> THEN 0 ELSE start(i, "+"),
                                        IF new = << >> THEN 0 ELSE start(i, "-")>>)
  IN Folded(LAMBDA out, i : IF ~shown(i) THEN out
                              ELSE IF i > 1 /\ shown(i - 1) THEN Append(out, s[i])
                              ELSE out \o <<header(i), s[i]>>,
              << >>, [i \in DOMAIN s |-> i])
MCHunks == [p \in Contents \X Contents |-> HunksBetween(p[1], p[2])]

-----------------------------------------------------------------------------
(* Calls of code_comment *)

MCExcerpts == [one |-> <<x>>, two |-> <<<<"+", "z">>, y>>, gap |-> <<y, z>>,
               old |-> <<x, y>>, bullet |-> <<L("item")>>, fresh |-> <<q>>]
Said(words, code) == [content |-> words, existing_code |-> <<code>>]
Array(entries) ==
  [args |-> [serialized |-> FALSE, text |-> << >>, entries |-> entries], meant |-> entries]
AsText(entries) ==
  [args |-> [serialized |-> TRUE, text |-> Serialized(entries), entries |-> << >>],
   meant |-> entries]

\* A quoted term has a word before its end, and punctuation only after it.
term == <<"q", "word", "q">>
prose == {<<"word">>, <<"word">> \o term, <<"word">> \o term \o <<",", "word">>,
          <<"word", "\\", "ctl">>,
          <<"word">> \o term \o <<",">> \o <<"q", "existing_code", "q", ":", "q", "word", "q", "word">>,
          <<"word">> \o term \o <<"}", ",", "{", "q", "content", "q", ":", "q", "word", "q", "word">>}
MCCalls == {Array(<<Said(<<"word">>, e)>>) : e \in DOMAIN MCExcerpts}
           \cup {Array(<<Said(<<"word">>, "gap"), Said(<<"word">>, "one")>>)}
           \cup {AsText(<<Said(t, "one")>>) : t \in prose}
           \cup {AsText(<<Said(<<"word">>, "one"), Said(t, "gap")>>) : t \in prose}
MCRewrites == {<< >>, <<z>>}
MCWindows == {<<0, 0>>, <<2, 3>>, <<3, 2>>, <<4, 9>>}
=============================================================================
