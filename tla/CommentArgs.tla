----------------------------- MODULE CommentArgs -----------------------------
(***************************************************************************)
(* The argument of a code_comment call (internal/comment/parse.go,         *)
(* args_repair.go).  The schema asks for an array; a model sometimes sends *)
(* the array as a string, and forgets one level of escaping when it does.  *)
(*                                                                         *)
(* Such a string is a sequence of tokens: structural characters, the       *)
(* double quote "q", an illegal backslash "\\", a control character "ctl", *)
(* and words.  An escaped token is the pair of "esc" and the token.        *)
(***************************************************************************)
EXTENDS Folding, FiniteSets, SequencesExt

Structural == {",", "}", "]", ":"}
KnownFields == {"content", "existing_code", "suggestion_code", "category", "severity",
                "path", "thinking"}
TextFields == {"content", "existing_code", "suggestion_code", "path"}
Absent == << >>
Field(entry, f) == IF f \in DOMAIN entry THEN entry[f] ELSE Absent

\* A quote ends its string when a structural character, or nothing, follows.
Terminates(s, i) == i = Len(s) \/ s[i + 1] \in Structural

\* repairSerializedComments: the text, and how many characters it escaped.
Repair(s) ==
  Folded(LAMBDA st, i :
             LET plain == [st EXCEPT !.text = Append(@, s[i])]
                 escape == [st EXCEPT !.text = @ \o <<"esc", s[i]>>, !.escaped = @ + 1]
             IN IF ~st.inside THEN [plain EXCEPT !.inside = s[i] = "q"]
                ELSE IF s[i] = "q" /\ Terminates(s, i) THEN [plain EXCEPT !.inside = FALSE]
                ELSE IF s[i] \in {"q", "\\", "ctl"} THEN escape
                ELSE plain,
           [text |-> << >>, escaped |-> 0, inside |-> FALSE],
           [i \in 1..Len(s) |-> i])

\* What JSON lets follow where an array of flat objects of strings stands.
Grammar == {<<"start", "[", "item">>, <<"item", "{", "key">>, <<"colon", ":", "value">>,
            <<"field", ",", "key">>, <<"field", "}", "entry">>,
            <<"entry", ",", "item">>, <<"entry", "]", "end">>}
After(at, t) == IF \E g \in Grammar : g[1] = at /\ g[2] = t
                THEN (CHOOSE g \in Grammar : g[1] = at /\ g[2] = t)[3] ELSE "bad"

\* A string is complete: it is a key, or the value of the last key.
Completed(st) ==
  IF st.at = "key" THEN [st EXCEPT !.open = FALSE, !.at = "colon",
                                   !.key = IF Len(st.text) = 1 THEN st.text[1] ELSE "other"]
  ELSE LET last == st.entries[Len(st.entries)]
           fields == DOMAIN last \cup {st.key}
       IN [st EXCEPT !.open = FALSE, !.at = "field",
                     !.entries[Len(st.entries)] =
                        [f \in fields |-> IF f = st.key THEN st.text ELSE last[f]]]

\* json.Unmarshal
Unmarshal(s) ==
  Folded(LAMBDA st, t :
             IF st.open THEN
               IF st.escape THEN [st EXCEPT !.escape = FALSE, !.text = Append(@, t)]
               ELSE IF t = "esc" THEN [st EXCEPT !.escape = TRUE]
               ELSE IF t = "q" THEN Completed(st)
               ELSE IF t \in {"\\", "ctl"} THEN [st EXCEPT !.open = FALSE, !.at = "bad"]
               ELSE [st EXCEPT !.text = Append(@, t)]
             ELSE IF t = "q" /\ st.at \in {"key", "value"}
               THEN [st EXCEPT !.open = TRUE, !.text = << >>]
             ELSE [st EXCEPT !.at = After(@, t),
                             !.entries = IF st.at = "item" /\ t = "{" THEN Append(@, << >>) ELSE @],
           [at |-> "start", entries |-> << >>, key |-> "other", text |-> << >>,
            open |-> FALSE, escape |-> FALSE], s)
Parses(s) == LET st == Unmarshal(s) IN st.at = "end" /\ ~st.open

\* repairedCommentsAcceptable
Described(s) ==
  Cardinality({i \in 1..(Len(s) - 3) : SubSeq(s, i, i + 3) = <<"q", "content", "q", ":">>})
Acceptable(entries, s) ==
  /\ entries # << >>
  /\ \A e \in ToSet(entries) : Field(e, "content") # Absent /\ DOMAIN e \subseteq KnownFields
  /\ Len(entries) >= Described(s)

\* Mutant of OddQuotes: no value is suspected.
OddQuotes_Never(v) == FALSE

OddQuotes(v) == Len(SelectSeq(v, LAMBDA t : t = "q")) % 2 = 1
Suspect(entries) ==
  \E e \in ToSet(entries) : \E f \in TextFields \cap DOMAIN e : OddQuotes(e[f])

\* parseRepairedComments: the entries, or none.
RepairedEntries(s) ==
  LET repaired == Repair(s)
      entries == Unmarshal(repaired.text).entries
  IN IF /\ repaired.escaped > 0
        /\ Parses(repaired.text)
        /\ Acceptable(entries, s)
        /\ ~Suspect(entries)
     THEN entries ELSE << >>

\* The raw entries of a call: an array, or a string that parses or is repaired.
RawEntries(args) ==
  IF ~args.serialized THEN args.entries
  ELSE IF Parses(args.text) THEN Unmarshal(args.text).entries
  ELSE RepairedEntries(args.text)

\* parseCommentsInner: an entry without content is skipped, one without a path
\* is about the file under review.  No entries at all is an error.
ParsedComments(args, default) ==
  LET raw == RawEntries(args)
      named == [i \in DOMAIN raw |->
                  [content |-> Field(raw[i], "content"),
                   code |-> Field(raw[i], "existing_code"),
                   path |-> IF Field(raw[i], "path") = Absent THEN <<default>>
                            ELSE raw[i]["path"]]]
  IN SelectSeq(named, LAMBDA c : c.content # Absent)

\* How a model writes entries with content and code into a string, without the
\* escapes that quotes, backslashes and control characters need.
Quoted(v) == <<"q">> \o v \o <<"q">>
Serialized(entries) ==
  LET one(e) == <<"{">> \o Quoted(<<"content">>) \o <<":">> \o Quoted(e["content"]) \o <<",">>
                \o Quoted(<<"existing_code">>) \o <<":">> \o Quoted(e["existing_code"]) \o <<"}">>
  IN <<"[">> \o Folded(LAMBDA s, e : IF s = << >> THEN one(e) ELSE s \o <<",">> \o one(e),
                         << >>, entries) \o <<"]">>
=============================================================================
