------------------------- MODULE SessionLog_proofs --------------------------
(***************************************************************************)
(* Theorems about SessionLog, for every number of files, goroutines, runs, *)
(* records and faults.  The invariant is about Log, the file with what     *)
(* bufio still holds: what a run has written so far is a prefix of it, and *)
(* a write cut short leaves a prefix of a longer one and at most one torn  *)
(* record, so that what holds of whole logs and of their prefixes holds of *)
(* the file whatever was lost.                                             *)
(***************************************************************************)
EXTENDS SessionLog, SequenceTheorems, FiniteSetTheorems, TLAPS

WholeIn(d) == {i \in DOMAIN d : IsRecord(d[i])}
Request(p) == p.type = "llm_request"
SameRequest(p, q) == p.file = q.file /\ p.task = q.task /\ p.no = q.no

\* ChainUnbroken, EndIsLast and NumbersUnique of any log, whose runs are 1..r.
Chained(d) ==
  \A i \in WholeIn(d) :
    \/ /\ \A k \in WholeIn(d) : d[k].run = d[i].run => k >= i
       /\ d[i].type = "session_start" /\ d[i].parent = 0
    \/ \E k \in WholeIn(d) :
         /\ d[k].run = d[i].run /\ k < i /\ d[i].parent = d[k].uuid
         /\ \A m \in WholeIn(d) : d[m].run = d[i].run /\ m < i => m <= k
Ended(d) ==
  \A i, k \in WholeIn(d) : d[i].type = "session_end" /\ d[k].run = d[i].run => k <= i
Unique(d) ==
  \A i, k \in WholeIn(d) :
    Request(d[i]) /\ Request(d[k]) /\ d[i].run = d[k].run /\ SameRequest(d[i], d[k]) => i = k
Known(d, r) == \A i \in WholeIn(d) : d[i].run \in 1..r
Good(d, r) == Chained(d) /\ Ended(d) /\ Unique(d) /\ Known(d, r)

\* The last record of run r is the one of uuid u.
Link(d, r, u) ==
  \E k \in WholeIn(d) :
    /\ d[k].run = r /\ d[k].uuid = u
    /\ \A m \in WholeIn(d) : d[m].run = r => m <= k
Live(d, r) == \A i \in WholeIn(d) : d[i].run = r => d[i].type # "session_end"

Log == disk \o buffer

\* The requests of the run carry numbers that were given out, and one that is
\* about to be written carries a number nobody else has.
Counted(d, r) ==
  /\ \A i \in WholeIn(d) : Request(d[i]) /\ d[i].run = r =>
       /\ d[i].file \in Files /\ d[i].task \in Tasks
       /\ d[i].no <= numbers[<<d[i].file, d[i].task>>]
       /\ \A w \in Writers : writer[w].at = "numbered" => ~SameRequest(d[i], writer[w])
  /\ \A w \in Writers : writer[w].at = "numbered" =>
       writer[w].no <= numbers[<<writer[w].file, writer[w].task>>]
  /\ \A v, w \in Writers :
       writer[v].at = "numbered" /\ writer[w].at = "numbered" /\ SameRequest(writer[v], writer[w])
         => v = w

OffTogether == writer[Main].at = "off" => \A w \in Writers : writer[w].at = "off"

LogInv ==
  /\ OffTogether
  /\ Good(Log, run)
  /\ ~open => buffer = << >>
  /\ open => Link(Log, run, lastUUID) /\ Live(Log, run) /\ Counted(Log, run)

-----------------------------------------------------------------------------
(* Pieces and lines *)

LEMMA MainIsWriter == Main \in Writers /\ \A j \in Jobs : j \in Writers
PROOF BY BoundsAssumption DEF Main, Writers, Jobs

LEMMA MarksType == /\ Newline \in Piece /\ ~IsRecord(Newline)
                   /\ Torn \in Piece /\ ~IsRecord(Torn)
PROOF BY BoundsAssumption DEF Newline, Torn, Mark, Piece, IsRecord

\* A record of a request, its answer or its error, or of a tool call.
LEMMA RecordType ==
  ASSUME TypeOK, NEW w \in Writers,
         NEW type \in {"llm_request", "llm_response", "llm_error", "tool_call"}
  PROVE  /\ Record(type, w) \in Piece /\ IsRecord(Record(type, w))
         /\ Record(type, w).type = type
         /\ Record(type, w).run = run /\ Record(type, w).parent = lastUUID
         /\ Record(type, w).uuid = minted + 1
         /\ type = "llm_request" => SameRequest(Record(type, w), writer[w])
PROOF
  <1>1. /\ writer[w] \in Writer /\ run \in 0..MaxRuns
        /\ minted \in Nat /\ lastUUID \in Nat
    BY DEF TypeOK
  <1>2. writer[w].file \in 0..NumFiles /\ writer[w].task \in Tasks /\ writer[w].no \in Nat
    BY <1>1, BoundsAssumption DEF Writer, Files
  <1>3. Record(type, w) \in Piece
    BY <1>1, <1>2 DEF Record, Piece
  <1>4. QED
    BY <1>3 DEF Record, IsRecord, SameRequest

LEMMA EndType ==
  ASSUME TypeOK
  PROVE  /\ SessionEnd \in Piece /\ IsRecord(SessionEnd)
         /\ SessionEnd.type = "session_end"
         /\ SessionEnd.run = run /\ SessionEnd.parent = lastUUID /\ SessionEnd.uuid = minted + 1
PROOF
  <1>1. run \in 0..MaxRuns /\ minted \in Nat /\ lastUUID \in Nat /\ failures \in Nat
    BY DEF TypeOK
  <1>2. Cardinality(seen) \in Nat
    <2>1. IsFiniteSet(Files)
      BY FS_Interval, BoundsAssumption DEF Files
    <2>2. IsFiniteSet(seen)
      BY <2>1, FS_Subset DEF TypeOK
    <2>3. QED
      BY <2>2, FS_CardinalityType
  <1>4. 0 \in 0..NumFiles
    BY BoundsAssumption
  <1>5. QED
    BY <1>1, <1>2, <1>4 DEF SessionEnd, Piece, IsRecord

LEMMA StartType ==
  ASSUME TypeOK, run < MaxRuns
  PROVE  /\ SessionStart \in Piece /\ IsRecord(SessionStart)
         /\ SessionStart.type = "session_start"
         /\ SessionStart.run = run + 1 /\ SessionStart.parent = 0
         /\ SessionStart.uuid = minted + 1
PROOF
  <1>1. run + 1 \in 0..MaxRuns /\ minted \in Nat
    BY BoundsAssumption DEF TypeOK
  <1>3. 0 \in 0..NumFiles
    BY BoundsAssumption
  <1>4. QED
    BY <1>1, <1>3 DEF SessionStart, Piece, IsRecord

\* A record and its newline at the end of a log.
LEMMA LineAdded ==
  ASSUME NEW d \in Seq(Piece), NEW rec \in Piece, IsRecord(rec)
  PROVE  LET e == d \o <<rec, Newline>> IN
           /\ e \in Seq(Piece) /\ Len(e) = Len(d) + 2
           /\ WholeIn(e) = WholeIn(d) \union {Len(d) + 1}
           /\ \A i \in WholeIn(d) : i \in 1..Len(d) /\ e[i] = d[i]
           /\ e[Len(d) + 1] = rec /\ e[Len(d) + 2] = Newline
PROOF
  <1> DEFINE two == <<rec, Newline>>
             e == d \o two
  <1>0. rec \in Piece /\ Newline \in Piece
    BY MarksType
  <1>1. two \in Seq(Piece) /\ Len(two) = 2
    BY <1>0
  <1>a. two[1] = rec /\ two[2] = Newline
    OBVIOUS
  <1> HIDE DEF two
  <1>2. e \in Seq(Piece) /\ Len(e) = Len(d) + 2
    <2>1. e \in Seq(Piece)
      BY <1>1, ConcatProperties
    <2>2. Len(e) = Len(d) + Len(two)
      BY <1>1, ConcatProperties
    <2>3. QED
      BY <1>1, <2>1, <2>2
  <1>3. \A i \in 1..(Len(d) + 2) : e[i] = IF i <= Len(d) THEN d[i] ELSE two[i - Len(d)]
    BY <1>1, ConcatProperties
  <1> HIDE DEF e
  <1>4. Len(d) \in Nat /\ DOMAIN d = 1..Len(d) /\ DOMAIN e = 1..(Len(d) + 2)
    BY <1>2
  <1>5. e[Len(d) + 1] = rec /\ e[Len(d) + 2] = Newline
    BY <1>a, <1>3, <1>4
  <1>6. \A i \in WholeIn(d) : i \in 1..Len(d) /\ e[i] = d[i]
    BY <1>3, <1>4 DEF WholeIn
  <1>7. WholeIn(e) = WholeIn(d) \union {Len(d) + 1}
    <2>1. \A i \in WholeIn(e) : i \in 1..Len(d) \/ i = Len(d) + 1
      BY <1>4, <1>5, MarksType DEF WholeIn
    <2>2. \A i \in WholeIn(e) : i \in 1..Len(d) => i \in WholeIn(d)
      BY <1>3, <1>4 DEF WholeIn
    <2>3. WholeIn(d) \subseteq WholeIn(e)
      BY <1>4, <1>6 DEF WholeIn
    <2>4. Len(d) + 1 \in WholeIn(e)
      BY <1>4, <1>5 DEF WholeIn
    <2>5. QED
      BY <2>1, <2>2, <2>3, <2>4
  <1>8. QED
    BY <1>2, <1>5, <1>6, <1>7 DEF e, two

\* A write cut short leaves some of its pieces and at most one torn record.
LEMMA CutPieces ==
  ASSUME NEW line \in Seq(Piece), NEW part \in CutShort(line)
  PROVE  \E n \in 0..Len(line) :
           /\ part \in Seq(Piece) /\ Len(part) \in {n, n + 1}
           /\ \A j \in 1..n : part[j] = line[j]
           /\ Len(part) = n + 1 => part[n + 1] = Torn /\ n < Len(line) /\ IsRecord(line[n + 1])
PROOF
  <1>1. PICK i \in 0..(Len(line) - 1) :
          \/ part = SubSeq(line, 1, i)
          \/ part = SubSeq(line, 1, i) \o <<Torn>> /\ IsRecord(line[i + 1])
    BY DEF CutShort
  <1>2. Len(line) \in Nat /\ i \in Nat /\ i \in 0..Len(line)
    BY <1>1
  <1> DEFINE s == SubSeq(line, 1, i)
  <1>3. \A j \in 1..i : line[j] \in Piece
    BY <1>2
  <1>4. 1 \in Int /\ i \in Int /\ i - 1 + 1 = i
    BY <1>2
  <1>5. s \in Seq(Piece) /\ Len(s) = i /\ \A j \in 1..i : s[j] = line[j]
    <2>1. s \in Seq(Piece)
      BY <1>3, <1>4, SubSeqProperties
    <2>2. Len(s) = i
      BY <1>2, <1>3, <1>4, SubSeqProperties
    <2>3. \A j \in 1..i : s[j] = line[j]
      BY <1>2, <1>3, <1>4, SubSeqProperties
    <2>4. QED
      BY <2>1, <2>2, <2>3
  <1> HIDE DEF s
  <1>6. CASE part = s
    <2>1. part \in Seq(Piece) /\ Len(part) = i /\ \A j \in 1..i : part[j] = line[j]
      BY <1>5, <1>6
    <2>2. Len(part) # i + 1
      BY <1>2, <2>1
    <2>3. QED
      BY <1>2, <2>1, <2>2
  <1>7. CASE part = s \o <<Torn>> /\ IsRecord(line[i + 1])
    <2> DEFINE one == <<Torn>>
    <2>1. one \in Seq(Piece) /\ Len(one) = 1
      BY MarksType
    <2>2. one[1] = Torn
      OBVIOUS
    <2>3. part = s \o one
      BY <1>7
    <2> HIDE DEF one
    <2>4. part \in Seq(Piece)
      BY <1>5, <2>1, <2>3, ConcatProperties
    <2>5. Len(part) = Len(s) + Len(one)
      BY <1>5, <2>1, <2>3, ConcatProperties
    <2>6. \A j \in 1..(Len(s) + Len(one)) : part[j] = IF j <= Len(s) THEN s[j] ELSE one[j - Len(s)]
      BY <1>5, <2>1, <2>3, ConcatProperties
    <2>7. Len(part) = i + 1
      BY <1>5, <2>1, <2>5
    <2>8. \A j \in 1..(i + 1) : part[j] = IF j <= i THEN s[j] ELSE one[j - i]
      BY <1>5, <2>1, <2>6
    <2>9. part[i + 1] = Torn
      BY <1>2, <2>2, <2>8
    <2>10. \A j \in 1..i : part[j] = line[j]
      BY <1>2, <1>5, <2>8
    <2>11. i \in 0..Len(line) /\ i < Len(line) /\ Len(part) \in {i, i + 1} /\ IsRecord(line[i + 1])
      BY <1>2, <1>7, <2>7
    <2> HIDE DEF s
    <2>12. QED
      BY <2>4, <2>9, <2>10, <2>11
  <1>8. QED
    BY <1>1, <1>6, <1>7 DEF s

\* Its records are those of the whole write up to some point.
LEMMA CutRecords ==
  ASSUME NEW d \in Seq(Piece), NEW line \in Seq(Piece), NEW part \in CutShort(line)
  PROVE  /\ part \in Seq(Piece)
         /\ \E n \in Nat :
              /\ WholeIn(d \o part) = {k \in WholeIn(d \o line) : k <= n}
              /\ \A k \in WholeIn(d \o part) : (d \o part)[k] = (d \o line)[k]
PROOF
  <1>1. PICK i \in 0..Len(line) :
           /\ part \in Seq(Piece) /\ Len(part) \in {i, i + 1}
           /\ \A j \in 1..i : part[j] = line[j]
           /\ Len(part) = i + 1 => part[i + 1] = Torn
    BY CutPieces
  <1> DEFINE short == d \o part
             full == d \o line
             n == Len(d) + i
  <1>2. Len(d) \in Nat /\ Len(line) \in Nat /\ Len(part) \in Nat /\ i \in Nat /\ i <= Len(line)
    BY <1>1
  <1>3. /\ DOMAIN short = 1..(Len(d) + Len(part))
        /\ \A k \in 1..(Len(d) + Len(part)) :
             short[k] = IF k <= Len(d) THEN d[k] ELSE part[k - Len(d)]
    <2>1. short \in Seq(Piece) /\ Len(short) = Len(d) + Len(part)
      BY <1>1, ConcatProperties
    <2>2. \A k \in 1..(Len(d) + Len(part)) :
             short[k] = IF k <= Len(d) THEN d[k] ELSE part[k - Len(d)]
      BY <1>1, ConcatProperties
    <2> HIDE DEF short
    <2>3. QED
      BY <2>1, <2>2
  <1>4. /\ DOMAIN full = 1..(Len(d) + Len(line))
        /\ \A k \in 1..(Len(d) + Len(line)) :
             full[k] = IF k <= Len(d) THEN d[k] ELSE line[k - Len(d)]
    <2>1. full \in Seq(Piece) /\ Len(full) = Len(d) + Len(line)
      BY ConcatProperties
    <2>2. \A k \in 1..(Len(d) + Len(line)) :
             full[k] = IF k <= Len(d) THEN d[k] ELSE line[k - Len(d)]
      BY ConcatProperties
    <2> HIDE DEF full
    <2>3. QED
      BY <2>1, <2>2
  <1> HIDE DEF short, full
  <1>5. \A k \in 1..n : /\ k \in DOMAIN short /\ k \in DOMAIN full
                        /\ short[k] = full[k]
    <2>1. SUFFICES ASSUME NEW k \in 1..n
                   PROVE  k \in DOMAIN short /\ k \in DOMAIN full /\ short[k] = full[k]
      OBVIOUS
    <2>2. k \in 1..(Len(d) + Len(part)) /\ k \in 1..(Len(d) + Len(line))
      BY <1>1, <1>2, <2>1
    <2>3. CASE k <= Len(d)
      BY <1>3, <1>4, <2>2, <2>3
    <2>4. CASE ~(k <= Len(d))
      <3>1. k - Len(d) \in 1..i
        BY <1>2, <2>1, <2>4
      <3>2. QED
        BY <1>1, <1>3, <1>4, <2>2, <2>4, <3>1
    <2>5. QED
      BY <2>3, <2>4
  <1>6. \A k \in WholeIn(short) : k \in 1..n
    <2>1. SUFFICES ASSUME NEW k \in WholeIn(short), k \notin 1..n
                   PROVE  FALSE
      OBVIOUS
    <2>2. k \in 1..(Len(d) + Len(part)) /\ IsRecord(short[k])
      BY <1>3, <2>1 DEF WholeIn
    <2>3. k = n + 1 /\ Len(part) = i + 1
      BY <1>1, <1>2, <2>1, <2>2
    <2>4. ~(k <= Len(d)) /\ k - Len(d) = i + 1
      BY <1>2, <2>3
    <2>5. short[k] = Torn
      BY <1>1, <1>3, <2>2, <2>3, <2>4
    <2>6. QED
      BY <2>2, <2>5, MarksType
  <1>7. \A k \in WholeIn(full) : k \in Nat /\ (k <= n => k \in 1..n)
    BY <1>2, <1>4 DEF WholeIn
  <1>8. WholeIn(short) = {k \in WholeIn(full) : k <= n}
    <2>1. \A k \in 1..n : k \in WholeIn(short) <=> k \in WholeIn(full)
      BY <1>5 DEF WholeIn
    <2>2. \A k \in 1..n : k <= n
      OBVIOUS
    <2> HIDE DEF n
    <2>3. QED
      BY <1>6, <1>7, <2>1, <2>2
  <1>9. \A k \in WholeIn(short) : short[k] = full[k]
    BY <1>5, <1>6
  <1>10. n \in Nat
    BY <1>2
  <1>11. QED
    BY <1>1, <1>8, <1>9, <1>10 DEF short, full

-----------------------------------------------------------------------------
(* What holds of a log holds of its prefixes, and of longer logs *)

LEMMA PositionsAreInt ==
  ASSUME NEW d \in Seq(Piece)
  PROVE  WholeIn(d) \subseteq Int /\ \A i \in WholeIn(d) : i \in 1..Len(d)
PROOF
  <1>1. DOMAIN d = 1..Len(d) /\ Len(d) \in Nat
    OBVIOUS
  <1>2. QED
    BY <1>1 DEF WholeIn

LEMMA PrefixIsGood ==
  ASSUME NEW d, NEW e, NEW r, NEW n \in Nat,
         WholeIn(d) \subseteq Int, Good(d, r),
         WholeIn(e) = {k \in WholeIn(d) : k <= n},
         \A k \in WholeIn(e) : e[k] = d[k]
  PROVE  Good(e, r)
PROOF
  <1>1. WholeIn(e) \subseteq WholeIn(d) /\ WholeIn(e) \subseteq Int
    OBVIOUS
  <1>2. Ended(e) /\ Unique(e) /\ Known(e, r)
    BY <1>1 DEF Good, Ended, Unique, Known, Request, SameRequest
  <1>3. Chained(e)
    <2>1. SUFFICES ASSUME NEW i \in WholeIn(e),
                          ~(/\ \A k \in WholeIn(e) : e[k].run = e[i].run => k >= i
                            /\ e[i].type = "session_start" /\ e[i].parent = 0)
                   PROVE  \E k \in WholeIn(e) :
                            /\ e[k].run = e[i].run /\ k < i /\ e[i].parent = e[k].uuid
                            /\ \A m \in WholeIn(e) : e[m].run = e[i].run /\ m < i => m <= k
      BY DEF Chained
    <2>2. i \in WholeIn(d) /\ i \in Int /\ i <= n /\ e[i] = d[i]
      BY <1>1
    <2>3. PICK k \in WholeIn(d) :
            /\ d[k].run = d[i].run /\ k < i /\ d[i].parent = d[k].uuid
            /\ \A m \in WholeIn(d) : d[m].run = d[i].run /\ m < i => m <= k
      BY <1>1, <2>1, <2>2 DEF Good, Chained
    <2>4. k \in Int /\ k <= n
      BY <2>2, <2>3
    <2>5. k \in WholeIn(e) /\ e[k] = d[k]
      BY <2>4
    <2>6. QED
      BY <1>1, <2>2, <2>3, <2>5
  <1>4. QED
    BY <1>2, <1>3 DEF Good

\* The next record of a run that has not ended.
LEMMA RunGoesOn ==
  ASSUME NEW d \in Seq(Piece), NEW r \in Nat, NEW u, NEW rec \in Piece, IsRecord(rec),
         rec.run = r, rec.parent = u,
         Good(d, r), Link(d, r, u), Live(d, r),
         Request(rec) => \A i \in WholeIn(d) :
           Request(d[i]) /\ d[i].run = r => ~SameRequest(d[i], rec)
  PROVE  LET e == d \o <<rec, Newline>> IN
           /\ Good(e, r) /\ Link(e, r, rec.uuid)
           /\ rec.type # "session_end" => Live(e, r)
PROOF
  <1> DEFINE e == d \o <<rec, Newline>>
             last == Len(d) + 1
  <1>1. /\ e \in Seq(Piece)
        /\ WholeIn(e) = WholeIn(d) \union {last}
        /\ \A i \in WholeIn(d) : i \in 1..Len(d) /\ e[i] = d[i]
        /\ e[last] = rec
    BY LineAdded
  <1> HIDE DEF e
  <1>2. Len(d) \in Nat
    OBVIOUS
  <1>3. last \in Int /\ \A i \in WholeIn(d) : i \in Int /\ i < last /\ ~(last <= i)
    BY <1>1, <1>2
  <1> HIDE DEF last
  <1>4. PICK k \in WholeIn(d) :
          /\ d[k].run = r /\ d[k].uuid = u
          /\ \A m \in WholeIn(d) : d[m].run = r => m <= k
    BY DEF Link
  <1>5. Known(e, r)
    <2>1. r \in 1..r
      BY <1>4 DEF Good, Known
    <2>2. QED
      BY <1>1, <2>1 DEF Good, Known
  <1>6. Link(e, r, rec.uuid)
    <2>1. \A m \in WholeIn(e) : m <= last
      BY <1>1, <1>3
    <2>2. QED
      BY <1>1, <2>1 DEF Link
  <1>7. rec.type # "session_end" => Live(e, r)
    BY <1>1 DEF Live
  <1>8. Ended(e)
    <2>1. SUFFICES ASSUME NEW i \in WholeIn(e), NEW m \in WholeIn(e),
                          e[i].type = "session_end", e[m].run = e[i].run
                   PROVE  m <= i
      BY DEF Ended
    <2>2. CASE i = last
      BY <1>1, <1>3, <2>2
    <2>3. CASE i \in WholeIn(d) /\ m \in WholeIn(d)
      BY <1>1, <2>1, <2>3 DEF Good, Ended
    <2>4. CASE i \in WholeIn(d) /\ m = last
      BY <1>1, <2>1, <2>4 DEF Live
    <2>5. QED
      BY <1>1, <2>2, <2>3, <2>4
  <1>9. Unique(e)
    <2>1. SUFFICES ASSUME NEW i \in WholeIn(e), NEW m \in WholeIn(e), Request(e[i]), Request(e[m]),
                          e[i].run = e[m].run, SameRequest(e[i], e[m])
                   PROVE  i = m
      BY DEF Unique
    <2>2. CASE i \in WholeIn(d) /\ m \in WholeIn(d)
      BY <1>1, <2>1, <2>2 DEF Good, Unique
    <2>3. CASE i \in WholeIn(d) /\ m = last
      BY <1>1, <2>1, <2>3
    <2>4. CASE i = last /\ m \in WholeIn(d)
      <3>1. SameRequest(e[m], e[i])
        BY <2>1 DEF SameRequest
      <3>2. QED
        BY <1>1, <2>1, <2>4, <3>1
    <2>5. QED
      BY <1>1, <2>2, <2>3, <2>4
  <1>10. Chained(e)
    <2>1. SUFFICES ASSUME NEW i \in WholeIn(e)
                   PROVE  \/ /\ \A m \in WholeIn(e) : e[m].run = e[i].run => m >= i
                             /\ e[i].type = "session_start" /\ e[i].parent = 0
                          \/ \E m \in WholeIn(e) :
                               /\ e[m].run = e[i].run /\ m < i /\ e[i].parent = e[m].uuid
                               /\ \A j \in WholeIn(e) : e[j].run = e[i].run /\ j < i => j <= m
      BY DEF Chained
    <2>2. CASE i = last
      <3>1. \A j \in WholeIn(e) : j < last => j \in WholeIn(d)
        BY <1>1, <1>3
      <3>2. QED
        BY <1>1, <1>3, <1>4, <2>2, <3>1
    <2>3. CASE i \in WholeIn(d)
      <3>1. \A j \in WholeIn(e) : j < i => j \in WholeIn(d)
        BY <1>1, <1>3, <2>3
      <3>2. \A j \in WholeIn(e) : j \in WholeIn(d) \/ j >= i
        BY <1>1, <1>3, <2>3
      <3>3. CASE /\ \A m \in WholeIn(d) : d[m].run = d[i].run => m >= i
                 /\ d[i].type = "session_start" /\ d[i].parent = 0
        BY <1>1, <2>3, <3>2, <3>3
      <3>4. CASE \E m \in WholeIn(d) :
                   /\ d[m].run = d[i].run /\ m < i /\ d[i].parent = d[m].uuid
                   /\ \A j \in WholeIn(d) : d[j].run = d[i].run /\ j < i => j <= m
        BY <1>1, <2>3, <3>1, <3>4
      <3>5. QED
        BY <2>3, <3>3, <3>4 DEF Good, Chained
    <2>4. QED
      BY <1>1, <2>2, <2>3
  <1>11. QED
    BY <1>5, <1>6, <1>7, <1>8, <1>9, <1>10 DEF Good, e

\* The first record of the next run.
LEMMA RunStarts ==
  ASSUME NEW d \in Seq(Piece), NEW r \in Nat, NEW rec \in Piece, IsRecord(rec),
         rec.type = "session_start", rec.run = r + 1, rec.parent = 0, Good(d, r)
  PROVE  LET e == d \o <<rec, Newline>> IN
           Good(e, r + 1) /\ Link(e, r + 1, rec.uuid) /\ Live(e, r + 1)
PROOF
  <1> DEFINE e == d \o <<rec, Newline>>
             last == Len(d) + 1
  <1>1. /\ e \in Seq(Piece)
        /\ WholeIn(e) = WholeIn(d) \union {last}
        /\ \A i \in WholeIn(d) : i \in 1..Len(d) /\ e[i] = d[i]
        /\ e[last] = rec
    BY LineAdded
  <1> HIDE DEF e
  <1>2. Len(d) \in Nat
    OBVIOUS
  <1>3. last \in Int /\ \A i \in WholeIn(d) : i \in Int /\ i < last /\ ~(last <= i)
    BY <1>1, <1>2
  <1> HIDE DEF last
  <1>4. \A i \in WholeIn(d) : d[i].run \in 1..r /\ e[i].run # rec.run
    BY <1>1 DEF Good, Known
  <1>5. Known(e, r + 1) /\ Live(e, r + 1)
    BY <1>1, <1>4 DEF Known, Live
  <1>6. Link(e, r + 1, rec.uuid)
    <2>1. \A m \in WholeIn(e) : m <= last
      BY <1>1, <1>3
    <2>2. QED
      BY <1>1, <2>1 DEF Link
  <1>7. Ended(e)
    BY <1>1, <1>4 DEF Good, Ended
  <1>8. Unique(e)
    BY <1>1, <1>4 DEF Good, Unique, SameRequest, Request
  <1>9. Chained(e)
    <2>1. SUFFICES ASSUME NEW i \in WholeIn(e)
                   PROVE  \/ /\ \A m \in WholeIn(e) : e[m].run = e[i].run => m >= i
                             /\ e[i].type = "session_start" /\ e[i].parent = 0
                          \/ \E m \in WholeIn(e) :
                               /\ e[m].run = e[i].run /\ m < i /\ e[i].parent = e[m].uuid
                               /\ \A j \in WholeIn(e) : e[j].run = e[i].run /\ j < i => j <= m
      BY DEF Chained
    <2>2. CASE i = last
      BY <1>1, <1>3, <1>4, <2>2
    <2>3. CASE i \in WholeIn(d)
      <3>1. \A j \in WholeIn(e) : e[j].run = e[i].run => j \in WholeIn(d)
        BY <1>1, <1>4, <2>3
      <3>2. QED
        BY <1>1, <2>3, <3>1 DEF Good, Chained
    <2>4. QED
      BY <1>1, <2>2, <2>3
  <1>10. QED
    BY <1>5, <1>6, <1>7, <1>8, <1>9 DEF Good, e

-----------------------------------------------------------------------------
(* Types *)

LEMMA GoesFacts ==
  ASSUME TypeOK, NEW w \in Writers, NEW to \in Places, Goes(w, to)
  PROVE  /\ writer' \in [Writers -> Writer]
         /\ writer'[w].at = to
         /\ \A v \in Writers : v # w => writer'[v] = writer[v]
         /\ to \in {"asked", "failing"} => SameRequest(writer'[w], writer[w])
PROOF
  <1> DEFINE old == writer[w]
             new == CASE to = "off" -> Off
                      [] to \in {"asked", "failing"} -> [old EXCEPT !.at = to]
                      [] OTHER -> [old EXCEPT !.at = to, !.task = "main_task", !.no = 0]
  <1>1. writer \in [Writers -> Writer] /\ old \in Writer
    BY DEF TypeOK
  <1>2. writer' = [writer EXCEPT ![w] = new]
    BY DEF Goes
  <1>3. "main_task" \in Tasks /\ 0 \in Nat /\ 1 \in Files
    BY BoundsAssumption DEF Tasks, Files
  <1>4. Off \in Writer /\ Off.at = "off"
    BY <1>3 DEF Off, Writer, Places
  <1>5. new \in Writer /\ new.at = to /\ (to \in {"asked", "failing"} => SameRequest(new, old))
    <2>1. CASE to = "off"
      BY <1>4, <2>1
    <2>2. CASE to \in {"asked", "failing"}
      <3>1. new = [old EXCEPT !.at = to]
        BY <2>2
      <3> HIDE DEF new, old
      <3>2. QED
        BY <1>1, <3>1 DEF Writer, SameRequest
    <2>3. CASE to \notin {"off", "asked", "failing"}
      <3>1. new = [old EXCEPT !.at = to, !.task = "main_task", !.no = 0]
        BY <2>3
      <3> HIDE DEF new, old
      <3>2. new = [at |-> to, file |-> old.file, task |-> "main_task", no |-> 0]
        BY <1>1, <3>1 DEF Writer
      <3>3. QED
        BY <1>1, <1>3, <2>3, <3>2 DEF Writer
    <2>4. QED
      BY <2>1, <2>2, <2>3
  <1> HIDE DEF new
  <1>6. QED
    BY <1>1, <1>2, <1>5

LEMMA CommitTyped ==
  ASSUME TypeOK, NEW rec \in Piece, rec.uuid = minted + 1, Commit(rec)
  PROVE  /\ disk' \in Seq(Piece) /\ buffer' \in Seq(Piece) /\ open' \in BOOLEAN
         /\ minted' \in Nat /\ lastUUID' \in 0..minted'
         /\ faults' \in 0..MaxFaults
PROOF
  <1> DEFINE line == buffer \o <<rec, Newline>>
  <1>1. /\ disk \in Seq(Piece) /\ buffer \in Seq(Piece) /\ open \in BOOLEAN
        /\ minted \in Nat /\ faults \in 0..MaxFaults
    BY DEF TypeOK
  <1>2. <<rec, Newline>> \in Seq(Piece)
    BY MarksType
  <1>3. line \in Seq(Piece)
    BY <1>1, <1>2, ConcatProperties
  <1> HIDE DEF line
  <1>4. minted' \in Nat /\ lastUUID' \in 0..minted'
    BY <1>1 DEF Commit
  <1>5. \A part \in CutShort(line) : disk \o part \in Seq(Piece)
    BY <1>1, <1>3, CutRecords, ConcatProperties
  <1>6. disk \o line \in Seq(Piece)
    BY <1>1, <1>3, ConcatProperties
  <1>7. << >> \in Seq(Piece)
    OBVIOUS
  <1>8. CASE ~open
    BY <1>1, <1>4, <1>8 DEF Commit
  <1>9. CASE open /\ disk' = disk \o line /\ buffer' = << >> /\ UNCHANGED <<open, faults>>
    BY <1>1, <1>4, <1>6, <1>7, <1>9
  <1>10. CASE /\ open /\ faults < MaxFaults /\ faults' = faults + 1
              /\ \E part \in CutShort(line) : disk' = disk \o part
              /\ open' = FALSE /\ buffer' = << >>
    <2>1. faults' \in 0..MaxFaults
      BY <1>1, <1>10, BoundsAssumption
    <2>2. QED
      BY <1>4, <1>5, <1>7, <1>10, <2>1
  <1>11. QED
    BY <1>8, <1>9, <1>10 DEF Commit, line

LEMMA DiesTyped ==
  ASSUME TypeOK, Dies
  PROVE  /\ run' \in 0..MaxRuns /\ open' \in BOOLEAN /\ buffer' \in Seq(Piece)
         /\ minted' \in Nat /\ lastUUID' \in 0..minted'
         /\ numbers' \in [Files \X Tasks -> Nat]
         /\ seen' \subseteq Files /\ failures' \in Nat
         /\ writer' \in [Writers -> Writer]
         /\ pending' \in 0..NumJobs
PROOF
  <1>1. Off \in Writer
    BY BoundsAssumption DEF Off, Writer, Places, Tasks, Files
  <1>2. 0 \in 0..NumJobs
    BY BoundsAssumption
  <1>3. run' \in 0..MaxRuns /\ minted' \in Nat /\ lastUUID' \in 0..minted'
    BY DEF Dies, TypeOK
  <1>4. << >> \in Seq(Piece)
    OBVIOUS
  <1>5. buffer' \in Seq(Piece)
    BY <1>4 DEF Dies
  <1>6. QED
    BY <1>1, <1>2, <1>3, <1>5 DEF Dies

LEMMA AsksTyped ==
  ASSUME TypeOK, NEW w \in Writers, NEW task \in Tasks, NEW f \in Files, Asks(w, task, f)
  PROVE  /\ numbers' \in [Files \X Tasks -> Nat] /\ seen' \subseteq Files
         /\ writer' \in [Writers -> Writer]
PROOF
  <1>1. <<f, task>> \in Files \X Tasks
    OBVIOUS
  <1>2. numbers[<<f, task>>] \in Nat
    BY <1>1 DEF TypeOK
  <1>3. [at |-> "numbered", file |-> f, task |-> task, no |-> numbers[<<f, task>>] + 1] \in Writer
    BY <1>2 DEF Writer, Places
  <1>4. QED
    BY <1>1, <1>2, <1>3 DEF Asks, TypeOK

\* Every disjunct of Next keeps the types.
LEMMA TypeNext == TypeOK /\ [Next]_vars => TypeOK'
PROOF
  <1> SUFFICES ASSUME TypeOK, [Next]_vars
               PROVE  TypeOK'
    OBVIOUS
  <1> USE DEF sessionVars, countVars
  <1>t. /\ disk \in Seq(Piece) /\ buffer \in Seq(Piece)
        /\ run \in 0..MaxRuns /\ open \in BOOLEAN
        /\ minted \in Nat /\ lastUUID \in 0..minted
        /\ numbers \in [Files \X Tasks -> Nat]
        /\ seen \subseteq Files /\ failures \in Nat
        /\ writer \in [Writers -> Writer]
        /\ pending \in 0..NumJobs
        /\ faults \in 0..MaxFaults
    BY DEF TypeOK
  <1>0. 0 \in 0..NumJobs /\ Main \in Writers
    BY BoundsAssumption, MainIsWriter
  <1>1. CASE New
    <2>1. buffer' \in Seq(Piece)
      BY <1>1, StartType, MarksType DEF New
    <2>2. run' \in 0..MaxRuns
      <3>1. run' = run + 1 /\ run < MaxRuns
        BY <1>1 DEF New
      <3>2. run \in 0..MaxRuns /\ MaxRuns \in Nat
        BY <1>t, BoundsAssumption
      <3> QED BY <3>1, <3>2
    <2>3. writer' \in [Writers -> Writer]
      BY <1>t, <1>0, <1>1 DEF New, Writer, Places
    <2>4. minted' \in Nat /\ lastUUID' \in 0..minted'
      BY <1>t, <1>1 DEF New
    <2>5. QED
      BY <1>t, <1>1, <2>1, <2>2, <2>3, <2>4 DEF New, TypeOK
  <1>2. CASE Close
    <2> DEFINE line == buffer \o <<SessionEnd, Newline>>
    <2>1. line \in Seq(Piece)
      <3>1. <<SessionEnd, Newline>> \in Seq(Piece)
        BY MarksType, EndType
      <3>2. QED
        BY <1>t, <3>1, ConcatProperties
    <2> HIDE DEF line
    <2>2. disk \o line \in Seq(Piece) /\ \A part \in CutShort(line) : disk \o part \in Seq(Piece)
      BY <1>t, <2>1, CutRecords, ConcatProperties
    <2>3. disk' \in Seq(Piece)
      BY <1>t, <1>2, <2>2 DEF Close, line
    <2>4. faults' \in 0..MaxFaults
      BY <1>t, <1>2, BoundsAssumption DEF Close
    <2>5. writer' \in [Writers -> Writer]
      BY <1>0, <1>2, GoesFacts DEF Close, Places
    <2>6. minted' = minted + 1 /\ lastUUID' = minted + 1 /\ open' = FALSE
      BY <1>2 DEF Close
    <2>7. << >> \in Seq(Piece)
      OBVIOUS
    <2>8. buffer' \in Seq(Piece)
      BY <1>2, <2>7 DEF Close
    <2>9. minted' \in Nat /\ lastUUID' \in 0..minted'
      BY <1>t, <2>6
    <2>10. QED
      BY <1>t, <1>2, <2>3, <2>4, <2>5, <2>6, <2>8, <2>9 DEF Close, TypeOK
  <1>3. CASE Exit
    BY <1>t, <1>3, DiesTyped DEF Exit, TypeOK
  <1>4. CASE Kill
    <2>1. faults' \in 0..MaxFaults
      BY <1>t, <1>4, BoundsAssumption DEF Kill
    <2>2. disk' \in Seq(Piece)
      <3>1. CASE UNCHANGED disk
        BY <1>t, <3>1
      <3>2. ASSUME NEW w \in Writers, NEW rec \in Writing(w),
                   NEW part \in CutShort(buffer \o <<rec, Newline>>), disk' = disk \o part
            PROVE  disk' \in Seq(Piece)
        <4>1. rec \in Piece
          BY <1>4, <3>2, RecordType, EndType DEF Writing
        <4>2. <<rec, Newline>> \in Seq(Piece)
          BY <4>1, MarksType
        <4>3. buffer \o <<rec, Newline>> \in Seq(Piece)
          BY <1>t, <4>2, ConcatProperties
        <4>4. part \in Seq(Piece)
          BY <1>t, <3>2, <4>3, CutRecords
        <4>5. QED
          BY <1>t, <3>2, <4>4, ConcatProperties
      <3>3. QED
        BY <1>4, <3>1, <3>2 DEF Kill
    <2>3. QED
      BY <1>4, <2>1, <2>2, DiesTyped DEF Kill, TypeOK
  <1>5. CASE MainRequest
    <2>1. writer[Main].file \in Files /\ "main_task" \in Tasks
      BY <1>t, <1>0 DEF Writer, Tasks
    <2>2. QED
      BY <1>t, <1>0, <1>5, <2>1, AsksTyped DEF MainRequest, TypeOK
  <1>6. CASE InlineCompression
    <2>1. writer[Main].file \in Files /\ "memory_compression_task" \in Tasks
      BY <1>t, <1>0 DEF Writer, Tasks
    <2>2. QED
      BY <1>t, <1>0, <1>6, <2>1, AsksTyped DEF InlineCompression, TypeOK
  <1>7. CASE ToolCall
    <2>1. Commit(Record("tool_call", Main)) /\ Goes(Main, "answered")
      BY <1>7 DEF ToolCall
    <2>2. Record("tool_call", Main) \in Piece /\ Record("tool_call", Main).uuid = minted + 1
      BY <1>0, RecordType
    <2>3. writer' \in [Writers -> Writer]
      BY <1>0, <2>1, GoesFacts DEF Places
    <2>4. QED
      BY <1>t, <1>7, <2>1, <2>2, <2>3, CommitTyped DEF ToolCall, TypeOK
  <1>8. CASE TurnEnds
    <2>1. writer' \in [Writers -> Writer]
      BY <1>0, <1>8, GoesFacts DEF TurnEnds, Places
    <2>2. QED
      BY <1>t, <1>8, <2>1 DEF TurnEnds, TypeOK
  <1>9. CASE ConversationEnds
    <2> DEFINE old == writer[Main]
               new == IF old.file < NumFiles THEN [old EXCEPT !.file = old.file + 1]
                                             ELSE [old EXCEPT !.at = "waiting"]
    <2>1. old \in Writer /\ old.file \in 1..NumFiles
      BY <1>t, <1>0 DEF Writer, Files
    <2>2. new \in Writer
      <3>1. old.file < NumFiles => old.file + 1 \in Files
        BY <2>1, BoundsAssumption DEF Files
      <3>2. QED
        BY <2>1, <3>1 DEF Writer, Places
    <2>3. writer' = [writer EXCEPT ![Main] = new]
      BY <1>9 DEF ConversationEnds
    <2> HIDE DEF new
    <2>4. writer' \in [Writers -> Writer]
      BY <1>t, <1>0, <2>2, <2>3
    <2>5. QED
      BY <1>t, <1>0, <1>9, <2>4 DEF ConversationEnds, TypeOK
  <1>10. CASE ConversationFails
    <2>1. writer' \in [Writers -> Writer]
      BY <1>0, <1>10, GoesFacts DEF ConversationFails, Places
    <2>2. QED
      BY <1>t, <1>0, <1>10, <2>1 DEF ConversationFails, TypeOK
  <1>11. CASE WaitBackground
    <2>1. writer' \in [Writers -> Writer]
      BY <1>0, <1>11, GoesFacts DEF WaitBackground, Places
    <2>2. QED
      BY <1>t, <1>11, <2>1 DEF WaitBackground, TypeOK
  <1>12. ASSUME NEW j \in Jobs, StartJob(j) PROVE TypeOK'
    <2>1. [at |-> "idle", file |-> writer[Main].file, task |-> "memory_compression_task",
           no |-> 0] \in Writer
      BY <1>t, <1>0 DEF Writer, Places, Tasks
    <2>2. j \in Writers /\ j \in 0..NumJobs
      BY MainIsWriter DEF Writers
    <2>3. writer' \in [Writers -> Writer] /\ pending' \in 0..NumJobs
      BY <1>t, <1>12, <2>1, <2>2 DEF StartJob
    <2>4. QED
      BY <1>t, <1>12, <2>3 DEF StartJob, TypeOK
  <1>13. ASSUME NEW j \in Jobs, JobRequest(j) PROVE TypeOK'
    <2>1. j \in Writers
      BY MainIsWriter
    <2>2. writer[j].file \in Files /\ "memory_compression_task" \in Tasks
      BY <1>t, <2>1 DEF Writer, Tasks
    <2>3. QED
      BY <1>t, <1>13, <2>1, <2>2, AsksTyped DEF JobRequest, TypeOK
  <1>14. ASSUME NEW w \in Writers, AppendTaskRecord(w) PROVE TypeOK'
    <2>1. Commit(Record("llm_request", w)) /\ Goes(w, "asked")
      BY <1>14 DEF AppendTaskRecord
    <2>2. Record("llm_request", w) \in Piece /\ Record("llm_request", w).uuid = minted + 1
      BY RecordType
    <2>3. writer' \in [Writers -> Writer]
      BY <2>1, GoesFacts DEF Places
    <2>4. QED
      BY <1>t, <1>14, <2>1, <2>2, <2>3, CommitTyped DEF AppendTaskRecord, TypeOK
  <1>15. ASSUME NEW w \in Writers, SetResponse(w) PROVE TypeOK'
    <2>1. Commit(Record("llm_response", w)) /\ Goes(w, AfterAnswer(w))
      BY <1>15 DEF SetResponse
    <2>2. Record("llm_response", w) \in Piece /\ Record("llm_response", w).uuid = minted + 1
      BY RecordType
    <2>3. writer' \in [Writers -> Writer]
      BY <2>1, GoesFacts DEF Places, AfterAnswer
    <2>4. QED
      BY <1>t, <1>15, <2>1, <2>2, <2>3, CommitTyped DEF SetResponse, TypeOK
  <1>16. ASSUME NEW w \in Writers, CountFailure(w) PROVE TypeOK'
    <2>1. writer' \in [Writers -> Writer]
      BY <1>16, GoesFacts DEF CountFailure, Places
    <2>2. failures' \in Nat
      BY <1>t, <1>16 DEF CountFailure
    <2>3. QED
      BY <1>t, <1>16, <2>1, <2>2 DEF CountFailure, TypeOK
  <1>17. ASSUME NEW w \in Writers, SetError(w) PROVE TypeOK'
    <2>1. Commit(Record("llm_error", w))
      BY <1>17 DEF SetError
    <2>2. Record("llm_error", w) \in Piece /\ Record("llm_error", w).uuid = minted + 1
      BY RecordType
    <2>3. writer' \in [Writers -> Writer] /\ pending' \in 0..NumJobs
      BY <1>t, <1>0, <1>17, GoesFacts DEF SetError, AfterError, Places
    <2>4. QED
      BY <1>t, <1>17, <2>1, <2>2, <2>3, CommitTyped DEF SetError, TypeOK
  <1>18. CASE UNCHANGED vars
    BY <1>t, <1>18 DEF vars, TypeOK
  <1>19. QED
    BY <1>1, <1>2, <1>3, <1>4, <1>5, <1>6, <1>7, <1>8, <1>9, <1>10, <1>11, <1>12,
       <1>13, <1>14, <1>15, <1>16, <1>17, <1>18 DEF Next

LEMMA TypeInit == Init => TypeOK
PROOF
  <1> SUFFICES ASSUME Init PROVE TypeOK
    OBVIOUS
  <1>1. Off \in Writer /\ 0 \in 0..NumJobs /\ 0 \in 0..MaxRuns /\ 0 \in 0..MaxFaults
    BY BoundsAssumption DEF Off, Writer, Places, Tasks, Files
  <1>2. << >> \in Seq(Piece)
    OBVIOUS
  <1>3. disk \in Seq(Piece) /\ buffer \in Seq(Piece)
    BY <1>2 DEF Init
  <1>4. minted \in Nat /\ lastUUID \in 0..minted
    BY DEF Init
  <1>5. numbers \in [Files \X Tasks -> Nat] /\ writer \in [Writers -> Writer]
    BY <1>1 DEF Init
  <1>6. QED
    BY <1>1, <1>3, <1>4, <1>5 DEF Init, TypeOK

\* The fields of the log and of its writers stay in their types, for any
\* number of goroutines, runs and faults.
THEOREM TypeCorrect == Spec => []TypeOK
PROOF
  <1>1. QED
    BY TypeInit, TypeNext, PTL DEF Spec

-----------------------------------------------------------------------------
(* What one write does to the log *)

\* The record a goroutine is about to write: it goes on the chain, and the
\* number of a request is not in the log yet.
NextRecord(rec) ==
  /\ rec \in Piece /\ IsRecord(rec)
  /\ rec.run = run /\ rec.parent = lastUUID /\ rec.uuid = minted + 1
  /\ open /\ Request(rec) => \A i \in WholeIn(Log) :
       Request(Log[i]) /\ Log[i].run = run => ~SameRequest(Log[i], rec)

LEMMA LogType ==
  ASSUME TypeOK
  PROVE  Log \in Seq(Piece) /\ (buffer = << >> => Log = disk)
PROOF
  <1>1. disk \in Seq(Piece) /\ buffer \in Seq(Piece)
    BY DEF TypeOK
  <1>2. disk \o << >> = disk
    BY <1>1, ConcatEmptySeq
  <1>3. QED
    BY <1>1, <1>2, ConcatProperties DEF Log

LEMMA LineType ==
  ASSUME TypeOK, NEW rec \in Piece
  PROVE  /\ buffer \o <<rec, Newline>> \in Seq(Piece)
         /\ disk \o (buffer \o <<rec, Newline>>) = Log \o <<rec, Newline>>
PROOF
  <1>1. disk \in Seq(Piece) /\ buffer \in Seq(Piece)
    BY DEF TypeOK
  <1>2. <<rec, Newline>> \in Seq(Piece)
    BY MarksType
  <1>3. QED
    BY <1>1, <1>2, ConcatProperties, ConcatAssociative DEF Log

LEMMA WholeLineGood ==
  ASSUME TypeOK, LogInv, open, NEW rec, NextRecord(rec)
  PROVE  LET e == Log \o <<rec, Newline>> IN
           /\ e \in Seq(Piece) /\ Good(e, run) /\ Link(e, run, rec.uuid)
           /\ rec.type # "session_end" => Live(e, run)
PROOF
  <1>1. rec \in Piece /\ IsRecord(rec) /\ run \in Nat /\ Log \in Seq(Piece)
    BY LogType, BoundsAssumption DEF NextRecord, TypeOK
  <1>2. Log \o <<rec, Newline>> \in Seq(Piece)
    BY <1>1, LineAdded
  <1>3. QED
    BY <1>1, <1>2, RunGoesOn DEF LogInv, NextRecord

LEMMA CutIsGood ==
  ASSUME TypeOK, LogInv, open, NEW rec, NextRecord(rec),
         NEW part \in CutShort(buffer \o <<rec, Newline>>)
  PROVE  part \in Seq(Piece) /\ disk \o part \in Seq(Piece) /\ Good(disk \o part, run)
PROOF
  <1> DEFINE line == buffer \o <<rec, Newline>>
             full == disk \o line
  <1>1. rec \in Piece /\ disk \in Seq(Piece) /\ line \in Seq(Piece)
    BY LineType DEF NextRecord, TypeOK
  <1>2. full \in Seq(Piece) /\ Good(full, run)
    BY <1>1, LineType, WholeLineGood
  <1>3. part \in CutShort(line)
    OBVIOUS
  <1> HIDE DEF line
  <1>4. part \in Seq(Piece)
    BY <1>1, <1>3, CutRecords
  <1>5. PICK n \in Nat : /\ WholeIn(disk \o part) = {k \in WholeIn(full) : k <= n}
                         /\ \A k \in WholeIn(disk \o part) : (disk \o part)[k] = full[k]
    BY <1>1, <1>3, CutRecords
  <1> HIDE DEF full
  <1>6. WholeIn(full) \subseteq Int
    BY <1>2, PositionsAreInt
  <1>7. disk \o part \in Seq(Piece)
    BY <1>1, <1>4, ConcatProperties
  <1>8. Good(disk \o part, run)
    BY <1>2, <1>5, <1>6, PrefixIsGood
  <1>9. QED
    BY <1>4, <1>7, <1>8

\* The file is a prefix of the log.
LEMMA DiskIsGood ==
  ASSUME TypeOK, LogInv
  PROVE  Good(disk, run)
PROOF
  <1>1. disk \in Seq(Piece) /\ buffer \in Seq(Piece) /\ Log \in Seq(Piece)
    BY LogType DEF TypeOK
  <1>2. Len(disk) \in Nat /\ DOMAIN disk = 1..Len(disk) /\ Len(buffer) \in Nat
    BY <1>1
  <1>3. Len(Log) = Len(disk) + Len(buffer)
    BY <1>1, ConcatProperties DEF Log
  <1>4. \A i \in 1..(Len(disk) + Len(buffer)) :
          Log[i] = IF i <= Len(disk) THEN disk[i] ELSE buffer[i - Len(disk)]
    BY <1>1, ConcatProperties DEF Log
  <1>5. DOMAIN Log = 1..(Len(disk) + Len(buffer))
    BY <1>1, <1>3
  <1>6. \A i \in 1..Len(disk) : i \in DOMAIN Log /\ Log[i] = disk[i] /\ i <= Len(disk)
    BY <1>2, <1>4, <1>5
  <1>7. \A i \in DOMAIN Log : i <= Len(disk) => i \in 1..Len(disk)
    BY <1>2, <1>5
  <1>8. WholeIn(disk) = {i \in WholeIn(Log) : i <= Len(disk)}
    BY <1>2, <1>6, <1>7 DEF WholeIn
  <1>9. \A i \in WholeIn(disk) : disk[i] = Log[i]
    BY <1>2, <1>6 DEF WholeIn
  <1>10. WholeIn(Log) \subseteq Int
    BY <1>1, PositionsAreInt
  <1>11. QED
    BY <1>2, <1>8, <1>9, <1>10, PrefixIsGood DEF LogInv

LEMMA CommitGrows ==
  ASSUME TypeOK, LogInv, NEW rec, NextRecord(rec), Commit(rec), run' = run, TypeOK'
  PROVE  /\ Good(Log, run)'
         /\ ~open' => buffer' = << >>
         /\ open' => /\ open /\ Log' = Log \o <<rec, Newline>> /\ disk' = Log'
                     /\ Link(Log, run, lastUUID)'
                     /\ rec.type # "session_end" => Live(Log, run)'
PROOF
  <1> DEFINE line == buffer \o <<rec, Newline>>
  <1>1. rec \in Piece /\ disk \o line = Log \o <<rec, Newline>> /\ lastUUID' = rec.uuid
    BY LineType DEF NextRecord, Commit
  <1>2. CASE ~open
    <2>1. UNCHANGED <<disk, open, buffer>>
      BY <1>2 DEF Commit
    <2>2. Log' = Log
      BY <2>1 DEF Log
    <2>3. Good(Log, run)'
      BY <2>2 DEF LogInv
    <2>4. QED
      BY <1>2, <2>1, <2>3 DEF LogInv
  <1>3. CASE open /\ disk' = disk \o line /\ buffer' = << >> /\ open' = open
    <2>1. Log' = disk'
      <3>1. disk' \in Seq(Piece)
        BY DEF TypeOK
      <3>2. disk' \o << >> = disk'
        BY <3>1, ConcatEmptySeq
      <3>3. QED
        BY <1>3, <3>2 DEF Log
    <2>2. Log' = Log \o <<rec, Newline>>
      BY <1>1, <1>3, <2>1
    <2> HIDE DEF line
    <2>3. /\ Good(Log', run) /\ Link(Log', run, rec.uuid)
          /\ rec.type # "session_end" => Live(Log', run)
      BY <1>3, <2>2, WholeLineGood
    <2>4. QED
      BY <1>1, <1>3, <2>1, <2>2, <2>3
  <1>4. CASE /\ open /\ \E part \in CutShort(line) : disk' = disk \o part
             /\ open' = FALSE /\ buffer' = << >>
    <2>1. PICK part \in CutShort(line) : disk' = disk \o part
      BY <1>4
    <2>2. disk' \in Seq(Piece) /\ Good(disk', run)
      BY <1>4, <2>1, CutIsGood
    <2>3. Log' = disk'
      <3>1. disk' \o << >> = disk'
        BY <2>2, ConcatEmptySeq
      <3>2. QED
        BY <1>4, <3>1 DEF Log
    <2>4. Good(Log', run)
      BY <2>2, <2>3
    <2>5. QED
      BY <1>4, <2>4
  <1>5. QED
    BY <1>2, <1>3, <1>4 DEF Commit

LEMMA CountedGrows ==
  ASSUME TypeOK, Counted(Log, run), NEW w \in Writers, NEW rec, NextRecord(rec),
         run' = run, numbers' = numbers, Log' = Log \o <<rec, Newline>>,
         writer'[w].at # "numbered",
         \A v \in Writers : v # w => writer'[v] = writer[v],
         Request(rec) => writer[w].at = "numbered" /\ SameRequest(rec, writer[w])
  PROVE  Counted(Log, run)'
PROOF
  <1> DEFINE last == Len(Log) + 1
  <1>1. /\ WholeIn(Log') = WholeIn(Log) \union {last}
        /\ \A i \in WholeIn(Log) : Log'[i] = Log[i]
        /\ Log'[last] = rec
    BY LogType, LineAdded DEF NextRecord
  <1> HIDE DEF last
  <1>2. writer[w].file \in Files /\ writer[w].task \in Tasks
    BY DEF TypeOK, Writer
  <1>3. \A v \in Writers : writer'[v].at = "numbered" =>
          v # w /\ writer'[v] = writer[v] /\ writer[v].at = "numbered"
    OBVIOUS
  <1>4. ASSUME NEW i \in WholeIn(Log'), Request(Log'[i]), Log'[i].run = run
        PROVE  /\ Log'[i].file \in Files /\ Log'[i].task \in Tasks
               /\ Log'[i].no <= numbers[<<Log'[i].file, Log'[i].task>>]
               /\ \A v \in Writers : writer'[v].at = "numbered" => ~SameRequest(Log'[i], writer'[v])
    <2>1. CASE i \in WholeIn(Log)
      BY <1>1, <1>3, <1>4, <2>1 DEF Counted
    <2>2. CASE i = last
      <3>1. SameRequest(rec, writer[w]) /\ writer[w].at = "numbered" /\ Log'[i] = rec
        BY <1>1, <1>4, <2>2
      <3>2. /\ rec.file = writer[w].file /\ rec.task = writer[w].task
            /\ rec.no = writer[w].no
        BY <3>1 DEF SameRequest
      <3>3. rec.no <= numbers[<<rec.file, rec.task>>]
        BY <3>1, <3>2 DEF Counted
      <3>4. \A v \in Writers : writer'[v].at = "numbered" => ~SameRequest(rec, writer'[v])
        BY <1>3, <3>1, <3>2 DEF Counted, SameRequest
      <3>5. QED
        BY <1>2, <3>1, <3>2, <3>3, <3>4
    <2>3. QED
      BY <1>1, <2>1, <2>2
  <1>5. QED
    BY <1>3, <1>4 DEF Counted

LEMMA CountedKept ==
  ASSUME Counted(Log, run), Log' = Log, run' = run, numbers' = numbers,
         \A v \in Writers : writer'[v].at = "numbered" => writer'[v] = writer[v]
  PROVE  Counted(Log, run)'
PROOF BY DEF Counted

LEMMA CountedAsks ==
  ASSUME TypeOK, Counted(Log, run), Log' = Log, run' = run,
         NEW w \in Writers, NEW task \in Tasks, NEW f \in Files, Asks(w, task, f)
  PROVE  Counted(Log, run)'
PROOF
  <1> DEFINE n == numbers[<<f, task>>]
  <1>1. numbers \in [Files \X Tasks -> Nat] /\ <<f, task>> \in Files \X Tasks /\ n \in Nat
    BY DEF TypeOK
  <1>2. numbers' = [numbers EXCEPT ![<<f, task>>] = n + 1]
    BY DEF Asks
  <1>3. /\ \A k \in Files \X Tasks : k # <<f, task>> => numbers'[k] = numbers[k]
        /\ numbers'[<<f, task>>] = n + 1
    BY <1>1, <1>2
  <1>4. /\ writer'[w] = [at |-> "numbered", file |-> f, task |-> task, no |-> n + 1]
        /\ \A v \in Writers : v # w => writer'[v] = writer[v]
    BY DEF Asks, TypeOK
  <1> HIDE DEF n
  <1>5. /\ writer'[w].at = "numbered" /\ writer'[w].file = f /\ writer'[w].task = task
        /\ writer'[w].no = n + 1
    BY <1>4
  <1>6. ASSUME NEW k \in Files \X Tasks, NEW m \in Int, m <= numbers[k]
        PROVE  m <= numbers'[k] /\ (k = <<f, task>> => m # n + 1)
    <2>1. numbers[k] \in Nat
      BY <1>1
    <2>2. CASE k = <<f, task>>
      BY <1>1, <1>3, <1>6, <2>1, <2>2 DEF n
    <2>3. CASE k # <<f, task>>
      BY <1>3, <1>6, <2>3
    <2>4. QED
      BY <2>2, <2>3
  <1>7. \A v \in Writers : /\ writer[v].file \in Files /\ writer[v].task \in Tasks
                           /\ writer[v].no \in Int
    BY DEF TypeOK, Writer
  <1>8. ASSUME NEW i \in WholeIn(Log), Request(Log[i]), Log[i].run = run
        PROVE  /\ Log[i].file \in Files /\ Log[i].task \in Tasks
               /\ Log[i].no <= numbers'[<<Log[i].file, Log[i].task>>]
               /\ \A v \in Writers : writer'[v].at = "numbered" => ~SameRequest(Log[i], writer'[v])
    <2>1. /\ Log[i].file \in Files /\ Log[i].task \in Tasks
          /\ Log[i].no <= numbers[<<Log[i].file, Log[i].task>>]
          /\ \A v \in Writers : writer[v].at = "numbered" => ~SameRequest(Log[i], writer[v])
      BY <1>8 DEF Counted
    <2>2. Log[i] \in Piece
      BY LogType DEF WholeIn
    <2>3. Log[i].no \in Int
      BY <2>2 DEF Piece
    <2>4. /\ Log[i].no <= numbers'[<<Log[i].file, Log[i].task>>]
          /\ <<Log[i].file, Log[i].task>> = <<f, task>> => Log[i].no # n + 1
      BY <1>6, <2>1, <2>3
    <2>5. ~SameRequest(Log[i], writer'[w])
      BY <1>5, <2>4 DEF SameRequest
    <2>6. QED
      BY <1>4, <2>1, <2>4, <2>5
  <1>9. ASSUME NEW v \in Writers, v # w, writer[v].at = "numbered"
        PROVE  /\ writer[v].no <= numbers'[<<writer[v].file, writer[v].task>>]
               /\ ~SameRequest(writer[v], writer'[w])
    <2>1. writer[v].no <= numbers[<<writer[v].file, writer[v].task>>]
      BY <1>9 DEF Counted
    <2>2. /\ writer[v].no <= numbers'[<<writer[v].file, writer[v].task>>]
          /\ <<writer[v].file, writer[v].task>> = <<f, task>> => writer[v].no # n + 1
      BY <1>6, <1>7, <2>1
    <2>3. QED
      BY <1>5, <2>2 DEF SameRequest
  <1>10. ASSUME NEW v \in Writers, writer'[v].at = "numbered"
         PROVE  writer'[v].no <= numbers'[<<writer'[v].file, writer'[v].task>>]
    <2>1. CASE v = w
      BY <1>1, <1>3, <1>5, <2>1 DEF n
    <2>2. CASE v # w
      BY <1>4, <1>9, <1>10, <2>2
    <2>3. QED
      BY <2>1, <2>2
  <1>11. ASSUME NEW u \in Writers, NEW v \in Writers, writer'[u].at = "numbered",
                writer'[v].at = "numbered", SameRequest(writer'[u], writer'[v])
         PROVE  u = v
    <2>1. CASE u # w /\ v # w
      BY <1>4, <1>11, <2>1 DEF Counted
    <2>2. CASE u = w /\ v # w
      <3>1. SameRequest(writer[v], writer'[w])
        BY <1>4, <1>11, <2>2 DEF SameRequest
      <3>2. QED
        BY <1>4, <1>9, <1>11, <2>2, <3>1
    <2>3. CASE u # w /\ v = w
      BY <1>4, <1>9, <1>11, <2>3
    <2>4. QED
      BY <2>1, <2>2, <2>3
  <1>12. QED
    BY <1>8, <1>10, <1>11 DEF Counted

-----------------------------------------------------------------------------
(* The invariant of the log *)

LEMMA RecordIsNext ==
  ASSUME TypeOK, LogInv, NEW w \in Writers,
         NEW type \in {"llm_request", "llm_response", "llm_error", "tool_call"},
         type = "llm_request" => writer[w].at = "numbered"
  PROVE  NextRecord(Record(type, w))
PROOF
  <1> DEFINE rec == Record(type, w)
  <1>1. /\ rec \in Piece /\ IsRecord(rec) /\ rec.type = type
        /\ rec.run = run /\ rec.parent = lastUUID /\ rec.uuid = minted + 1
        /\ type = "llm_request" => SameRequest(rec, writer[w])
    BY RecordType
  <1> HIDE DEF rec
  <1>2. ASSUME open, Request(rec), NEW i \in WholeIn(Log), Request(Log[i]), Log[i].run = run
        PROVE  ~SameRequest(Log[i], rec)
    <2>1. ~SameRequest(Log[i], writer[w])
      BY <1>1, <1>2 DEF LogInv, Counted, Request
    <2>2. QED
      BY <1>1, <1>2, <2>1 DEF SameRequest, Request
  <1>3. QED
    BY <1>1, <1>2 DEF NextRecord, rec

LEMMA EndIsNext ==
  ASSUME TypeOK
  PROVE  NextRecord(SessionEnd)
PROOF BY EndType DEF NextRecord, Request

LEMMA OffKept ==
  ASSUME OffTogether, NEW w \in Writers, writer[w].at # "off",
         \A v \in Writers : v # w => writer'[v] = writer[v],
         w = Main => writer'[w].at # "off"
  PROVE  OffTogether'
PROOF BY MainIsWriter DEF OffTogether

\* A goroutine writes a record that does not end the session.
LEMMA RecordKeepsLog ==
  ASSUME TypeOK, TypeOK', LogInv, NEW w \in Writers, NEW to \in Places, Goes(w, to),
         NEW type \in {"llm_request", "llm_response", "llm_error", "tool_call"},
         type = "llm_request" => writer[w].at = "numbered",
         writer[w].at # "off", to # "numbered", w = Main => to # "off",
         Commit(Record(type, w)), run' = run, numbers' = numbers
  PROVE  LogInv'
PROOF
  <1> DEFINE rec == Record(type, w)
  <1>1. NextRecord(rec) /\ rec.type = type /\ (Request(rec) => SameRequest(rec, writer[w]))
    BY RecordIsNext, RecordType DEF Request
  <1>2. Commit(rec)
    OBVIOUS
  <1> HIDE DEF rec
  <1>3. /\ writer'[w].at = to
        /\ \A v \in Writers : v # w => writer'[v] = writer[v]
    BY GoesFacts
  <1>4. OffTogether'
    BY <1>3, OffKept DEF LogInv
  <1>5. /\ Good(Log, run)'
        /\ ~open' => buffer' = << >>
        /\ open' => /\ open /\ Log' = Log \o <<rec, Newline>> /\ disk' = Log'
                    /\ Link(Log, run, lastUUID)'
                    /\ rec.type # "session_end" => Live(Log, run)'
    BY <1>1, <1>2, CommitGrows
  <1>6. ASSUME open' PROVE Counted(Log, run)'
    <2>1. Request(rec) => writer[w].at = "numbered" /\ SameRequest(rec, writer[w])
      BY <1>1 DEF Request
    <2>2. Counted(Log, run)
      BY <1>5, <1>6 DEF LogInv
    <2>3. QED
      BY <1>1, <1>3, <1>5, <1>6, <2>1, <2>2, CountedGrows
  <1>7. QED
    BY <1>1, <1>4, <1>5, <1>6 DEF LogInv

\* Nothing is written, and no number is given out.
LEMMA QuietKeepsLog ==
  ASSUME LogInv, UNCHANGED <<disk, run, open, buffer, lastUUID, numbers>>, OffTogether',
         \A v \in Writers : writer'[v].at = "numbered" => writer'[v] = writer[v]
  PROVE  LogInv'
PROOF
  <1>1. Log' = Log
    BY DEF Log
  <1>2. Good(Log, run)'
    BY <1>1 DEF LogInv
  <1>3. open => Link(Log, run, lastUUID)' /\ Live(Log, run)' /\ Counted(Log, run)'
    BY <1>1, CountedKept DEF LogInv
  <1>4. QED
    BY <1>2, <1>3 DEF LogInv

LEMMA QuietGoes ==
  ASSUME TypeOK, LogInv, UNCHANGED <<disk, run, open, buffer, lastUUID, numbers>>,
         NEW w \in Writers, NEW to \in Places \ {"numbered", "off"}, Goes(w, to),
         writer[w].at # "off"
  PROVE  LogInv'
PROOF
  <1>1. writer'[w].at = to /\ \A v \in Writers : v # w => writer'[v] = writer[v]
    BY GoesFacts
  <1>2. OffTogether'
    BY <1>1, OffKept DEF LogInv
  <1>3. QED
    BY <1>1, <1>2, QuietKeepsLog

\* A number is given out.
LEMMA AsksKeepsLog ==
  ASSUME TypeOK, LogInv, UNCHANGED <<disk, run, open, buffer, lastUUID>>,
         NEW w \in Writers, NEW task \in Tasks, NEW f \in Files, Asks(w, task, f),
         writer[w].at # "off"
  PROVE  LogInv'
PROOF
  <1>1. Log' = Log
    BY DEF Log
  <1>2. writer'[w].at = "numbered" /\ \A v \in Writers : v # w => writer'[v] = writer[v]
    BY DEF Asks, TypeOK
  <1>3. OffTogether'
    BY <1>2, OffKept DEF LogInv
  <1>4. Good(Log, run)'
    BY <1>1 DEF LogInv
  <1>5. open => Link(Log, run, lastUUID)' /\ Live(Log, run)' /\ Counted(Log, run)'
    BY <1>1, CountedAsks DEF LogInv
  <1>6. QED
    BY <1>3, <1>4, <1>5 DEF LogInv

\* The process is gone; what is in the file is a prefix of the log.
LEMMA DiesKeepsLog ==
  ASSUME TypeOK', Dies, Good(disk', run)
  PROVE  LogInv'
PROOF
  <1>1. run' = run /\ open' = FALSE /\ buffer' = << >>
    BY DEF Dies
  <1>2. disk' \o << >> = disk'
    BY ConcatEmptySeq DEF TypeOK
  <1>3. Log' = disk'
    BY <1>1, <1>2 DEF Log
  <1>4. OffTogether'
    BY DEF Dies, OffTogether, Off
  <1>5. Good(Log, run)'
    BY <1>1, <1>3
  <1>6. QED
    BY <1>1, <1>4, <1>5 DEF LogInv

LEMMA NewKeepsLog ==
  ASSUME TypeOK, TypeOK', LogInv, New
  PROVE  LogInv'
PROOF
  <1>1. run < MaxRuns /\ run \in Nat
    BY BoundsAssumption DEF New, TypeOK
  <1>2. /\ SessionStart \in Piece /\ IsRecord(SessionStart)
        /\ SessionStart.type = "session_start"
        /\ SessionStart.run = run + 1 /\ SessionStart.parent = 0
        /\ SessionStart.uuid = minted + 1
    BY <1>1, StartType
  <1>3. disk \in Seq(Piece) /\ Good(disk, run)
    BY DiskIsGood DEF TypeOK
  <1>4. /\ run' = run + 1 /\ open' = TRUE /\ lastUUID' = minted + 1
        /\ buffer' = <<SessionStart, Newline>> /\ disk' = disk
    BY DEF New
  <1>5. Log' = disk \o <<SessionStart, Newline>>
    BY <1>4 DEF Log
  <1>6. /\ Good(Log', run + 1) /\ Link(Log', run + 1, SessionStart.uuid)
        /\ Live(Log', run + 1)
    BY <1>1, <1>2, <1>3, <1>5, RunStarts
  <1>7. /\ writer'[Main].at = "idle"
        /\ \A w \in Writers : writer'[w].at # "numbered"
    BY MainIsWriter DEF New, TypeOK, LogInv, OffTogether
  <1>8. Counted(Log, run)'
    <2>1. /\ WholeIn(Log') = WholeIn(disk) \union {Len(disk) + 1}
          /\ \A i \in WholeIn(disk) : Log'[i] = disk[i]
          /\ Log'[Len(disk) + 1] = SessionStart
      BY <1>2, <1>3, <1>5, LineAdded
    <2>2. \A i \in WholeIn(disk) : disk[i].run # run + 1
      BY <1>1, <1>3 DEF Good, Known
    <2>3. \A i \in WholeIn(Log') : ~(Request(Log'[i]) /\ Log'[i].run = run')
      BY <1>2, <1>4, <2>1, <2>2 DEF Request
    <2>4. QED
      BY <1>7, <2>3 DEF Counted
  <1>9. OffTogether'
    BY <1>7 DEF OffTogether
  <1>10. Good(Log, run)' /\ Link(Log, run, lastUUID)' /\ Live(Log, run)'
    BY <1>2, <1>4, <1>6
  <1>11. QED
    BY <1>4, <1>8, <1>9, <1>10 DEF LogInv

LEMMA CloseKeepsLog ==
  ASSUME TypeOK, TypeOK', LogInv, Close
  PROVE  LogInv'
PROOF
  <1> DEFINE line == buffer \o <<SessionEnd, Newline>>
  <1>1. SessionEnd \in Piece /\ NextRecord(SessionEnd) /\ run' = run
    BY EndType, EndIsNext DEF Close
  <1>2. open' = FALSE /\ buffer' = << >>
    BY DEF Close
  <1>3. Log' = disk'
    <2>1. disk' \o << >> = disk'
      BY ConcatEmptySeq DEF TypeOK
    <2>2. QED
      BY <1>2, <2>1 DEF Log
  <1>4. Good(disk', run)
    <2>1. CASE open /\ disk' = disk \o line
      BY <1>1, <2>1, LineType, WholeLineGood
    <2>2. CASE disk' = disk
      BY <2>2, DiskIsGood
    <2>3. CASE open /\ \E part \in CutShort(line) : disk' = disk \o part
      BY <1>1, <2>3, CutIsGood
    <2>4. QED
      BY <2>1, <2>2, <2>3 DEF Close
  <1>5. OffTogether'
    <2>1. Goes(Main, "exiting") /\ writer[Main].at = "closing" /\ "exiting" \in Places
      BY DEF Close, Places
    <2>2. writer'[Main].at = "exiting"
      BY <2>1, GoesFacts, MainIsWriter
    <2>3. QED
      BY <2>2 DEF OffTogether
  <1>6. Good(Log, run)'
    BY <1>1, <1>3, <1>4
  <1>7. QED
    BY <1>2, <1>5, <1>6 DEF LogInv

LEMMA KillKeepsLog ==
  ASSUME TypeOK, TypeOK', LogInv, Kill
  PROVE  LogInv'
PROOF
  <1>1. CASE UNCHANGED disk
    BY <1>1, DiskIsGood, DiesKeepsLog DEF Kill
  <1>2. ASSUME open, NEW w \in Writers, NEW rec \in Writing(w),
               NEW part \in CutShort(buffer \o <<rec, Newline>>), disk' = disk \o part
        PROVE  LogInv'
    <2>1. NextRecord(rec)
      <3>1. CASE writer[w].at = "numbered"
        <4>1. rec = Record("llm_request", w)
          BY <1>2, <3>1 DEF Writing
        <4>2. QED
          BY <3>1, <4>1, RecordIsNext
      <3>2. CASE writer[w].at = "asked"
        BY <1>2, <3>2, RecordIsNext DEF Writing
      <3>3. CASE writer[w].at = "failing"
        BY <1>2, <3>3, RecordIsNext DEF Writing
      <3>4. CASE writer[w].at = "answered"
        BY <1>2, <3>4, RecordIsNext DEF Writing
      <3>5. CASE writer[w].at = "closing"
        BY <1>2, <3>5, EndIsNext DEF Writing
      <3>6. QED
        BY <1>2, <3>1, <3>2, <3>3, <3>4, <3>5 DEF Writing
    <2>2. Good(disk', run)
      BY <1>2, <2>1, CutIsGood
    <2>3. QED
      BY <2>2, DiesKeepsLog DEF Kill
  <1>3. QED
    BY <1>1, <1>2 DEF Kill

LEMMA LogNext == TypeOK /\ TypeOK' /\ LogInv /\ [Next]_vars => LogInv'
PROOF
  <1> SUFFICES ASSUME TypeOK, TypeOK', LogInv, [Next]_vars
               PROVE  LogInv'
    OBVIOUS
  <1> USE DEF sessionVars, countVars
  <1>0. Main \in Writers
    BY MainIsWriter
  <1>1. CASE New
    BY <1>1, NewKeepsLog
  <1>2. CASE Close
    BY <1>2, CloseKeepsLog
  <1>3. CASE Exit
    BY <1>3, DiskIsGood, DiesKeepsLog DEF Exit
  <1>4. CASE Kill
    BY <1>4, KillKeepsLog
  <1>5. CASE MainRequest
    <2>1. writer[Main].file \in Files /\ "main_task" \in Tasks
      BY <1>0 DEF TypeOK, Writer, Tasks
    <2>2. QED
      BY <1>0, <1>5, <2>1, AsksKeepsLog DEF MainRequest
  <1>6. CASE InlineCompression
    <2>1. writer[Main].file \in Files /\ "memory_compression_task" \in Tasks
      BY <1>0 DEF TypeOK, Writer, Tasks
    <2>2. QED
      BY <1>0, <1>6, <2>1, AsksKeepsLog DEF InlineCompression
  <1>7. CASE ToolCall
    BY <1>0, <1>7, RecordKeepsLog DEF ToolCall, Places
  <1>8. CASE TurnEnds
    BY <1>0, <1>8, QuietGoes DEF TurnEnds, Places
  <1>9. CASE ConversationEnds
    <2>1. \A v \in Writers : v # Main => writer'[v] = writer[v]
      BY <1>9 DEF ConversationEnds, TypeOK
    <2>2. writer[Main].at = "idle" /\ writer'[Main].at \in {"idle", "waiting"}
      BY <1>0, <1>9 DEF ConversationEnds, TypeOK, Writer
    <2>3. OffTogether'
      BY <1>0, <2>1, <2>2, OffKept DEF LogInv
    <2>4. QED
      BY <1>9, <2>1, <2>2, <2>3, QuietKeepsLog DEF ConversationEnds
  <1>10. CASE ConversationFails
    BY <1>0, <1>10, QuietGoes DEF ConversationFails, Places
  <1>11. CASE WaitBackground
    BY <1>0, <1>11, QuietGoes DEF WaitBackground, Places
  <1>12. ASSUME NEW j \in Jobs, StartJob(j) PROVE LogInv'
    <2>1. \A v \in Writers : v # j => writer'[v] = writer[v]
      BY <1>12 DEF StartJob, TypeOK
    <2>2. j \in Writers /\ writer'[j].at = "idle"
      BY <1>12, MainIsWriter DEF StartJob, TypeOK
    <2>3. j # Main
      BY DEF Jobs, Main
    <2>4. OffTogether'
      BY <1>0, <1>12, <2>1, <2>3 DEF StartJob, OffTogether
    <2>5. QED
      BY <1>12, <2>1, <2>2, <2>4, QuietKeepsLog DEF StartJob
  <1>13. ASSUME NEW j \in Jobs, JobRequest(j) PROVE LogInv'
    <2>1. j \in Writers
      BY MainIsWriter
    <2>2. writer[j].file \in Files /\ "memory_compression_task" \in Tasks
      BY <2>1 DEF TypeOK, Writer, Tasks
    <2>3. QED
      BY <1>13, <2>1, <2>2, AsksKeepsLog DEF JobRequest
  <1>14. ASSUME NEW w \in Writers, AppendTaskRecord(w) PROVE LogInv'
    BY <1>14, RecordKeepsLog DEF AppendTaskRecord, Places
  <1>15. ASSUME NEW w \in Writers, SetResponse(w) PROVE LogInv'
    <2>1. AfterAnswer(w) \in Places /\ AfterAnswer(w) # "numbered" /\ (w = Main => AfterAnswer(w) # "off")
      BY DEF AfterAnswer, Places
    <2>2. QED
      BY <1>15, <2>1, RecordKeepsLog DEF SetResponse
  <1>16. ASSUME NEW w \in Writers, CountFailure(w) PROVE LogInv'
    BY <1>16, QuietGoes DEF CountFailure, Places
  <1>17. ASSUME NEW w \in Writers, SetError(w) PROVE LogInv'
    <2>1. PICK to \in AfterError(w) : Goes(w, to)
      BY <1>17 DEF SetError
    <2>2. to \in Places /\ to # "numbered" /\ (w = Main => to # "off")
      BY DEF AfterError, Places
    <2>3. QED
      BY <1>17, <2>1, <2>2, RecordKeepsLog DEF SetError
  <1>18. CASE UNCHANGED vars
    <2>1. UNCHANGED <<disk, run, open, buffer, lastUUID, numbers, writer>>
      BY <1>18 DEF vars
    <2>2. OffTogether'
      BY <2>1 DEF LogInv, OffTogether
    <2>3. QED
      BY <2>1, <2>2, QuietKeepsLog
  <1>19. QED
    BY <1>1, <1>2, <1>3, <1>4, <1>5, <1>6, <1>7, <1>8, <1>9, <1>10, <1>11, <1>12,
       <1>13, <1>14, <1>15, <1>16, <1>17, <1>18 DEF Next

LEMMA LogInit == Init => LogInv
PROOF
  <1> SUFFICES ASSUME Init PROVE LogInv
    OBVIOUS
  <1>1. disk = << >> /\ buffer = << >> /\ ~open
    BY DEF Init
  <1>2. Log = << >>
    BY <1>1 DEF Log
  <1>3. DOMAIN << >> = {}
    OBVIOUS
  <1>4. WholeIn(Log) = {}
    BY <1>2, <1>3 DEF WholeIn
  <1>5. Good(Log, run)
    BY <1>4 DEF Good, Chained, Ended, Unique, Known
  <1>6. OffTogether
    BY DEF Init, OffTogether, Off
  <1>7. QED
    BY <1>1, <1>5, <1>6 DEF LogInv

LEMMA LogAlways == Spec => [](TypeOK /\ LogInv)
PROOF
  <1>1. Init => TypeOK /\ LogInv
    BY TypeInit, LogInit
  <1>2. TypeOK /\ LogInv /\ [Next]_vars => (TypeOK /\ LogInv)'
    BY TypeNext, LogNext
  <1>3. QED
    BY <1>1, <1>2, PTL DEF Spec

\* Every whole record names the record before it of its run, whatever
\* goroutine wrote that and wherever a process was killed.
THEOREM ChainNeverBreaks == Spec => []ChainUnbroken
PROOF
  <1>1. TypeOK /\ LogInv => ChainUnbroken
    <2>1. SUFFICES ASSUME TypeOK, Chained(disk) PROVE ChainUnbroken
      BY DiskIsGood DEF Good
    <2>2. SUFFICES ASSUME NEW i \in Whole
                   PROVE  LET before == {k \in WholeOf(disk[i].run) : k < i} IN
                            IF before = {} THEN disk[i].type = "session_start" /\ disk[i].parent = 0
                            ELSE \E k \in before : disk[i].parent = disk[k].uuid /\ \A m \in before : m <= k
      BY DEF ChainUnbroken
    <2> DEFINE before == {k \in WholeOf(disk[i].run) : k < i}
    <2>3. Whole = WholeIn(disk)
      BY DEF Whole, WholeIn
    <2>4. \A k : k \in before <=> k \in WholeIn(disk) /\ disk[k].run = disk[i].run /\ k < i
      BY <2>3 DEF WholeOf
    <2> HIDE DEF before
    <2>5. CASE /\ \A k \in WholeIn(disk) : disk[k].run = disk[i].run => k >= i
               /\ disk[i].type = "session_start" /\ disk[i].parent = 0
      <3>1. \A k \in WholeIn(disk) : k \in Int
        <4>1. disk \in Seq(Piece)
          BY <2>1 DEF TypeOK
        <4>2. WholeIn(disk) \subseteq Int
          BY <4>1, PositionsAreInt
        <4>3. QED
          BY <4>2
      <3>2. \A k \in WholeIn(disk) : disk[k].run = disk[i].run => ~(k < i)
        BY <2>3, <2>5, <3>1
      <3>3. before = {}
        BY <2>4, <3>2
      <3>4. QED
        BY <2>5, <3>3 DEF before
    <2>6. CASE \E k \in WholeIn(disk) :
                 /\ disk[k].run = disk[i].run /\ k < i /\ disk[i].parent = disk[k].uuid
                 /\ \A m \in WholeIn(disk) : disk[m].run = disk[i].run /\ m < i => m <= k
      BY <2>4, <2>6 DEF before
    <2>7. QED
      BY <2>1, <2>3, <2>5, <2>6 DEF Chained
  <1>2. QED
    BY <1>1, LogAlways, PTL

\* No record of a run follows its session_end, not even one of a background
\* compression that outlives Close.
THEOREM EndStaysLast == Spec => []EndIsLast
PROOF
  <1>1. TypeOK /\ LogInv => EndIsLast
    BY DiskIsGood DEF Good, Ended, EndIsLast, WholeOf, Whole, WholeIn
  <1>2. QED
    BY <1>1, LogAlways, PTL

\* A request number names one request of its run, file and task, for any
\* number of compressions that take numbers from the same counter.
THEOREM NumbersStayUnique == Spec => []NumbersUnique
PROOF
  <1>1. TypeOK /\ LogInv => NumbersUnique
    <2>1. Whole = WholeIn(disk)
      BY DEF Whole, WholeIn
    <2>2. QED
      BY <2>1, DiskIsGood DEF Good, Unique, NumbersUnique, SameRequest, Request
  <1>2. QED
    BY <1>1, LogAlways, PTL

-----------------------------------------------------------------------------
(* A request is on disk before it is with the model *)

Witnessed(w) ==
  \E i \in WholeIn(disk) :
    /\ Request(disk[i]) /\ disk[i].run = run /\ SameRequest(disk[i], writer[w])
    /\ i < Len(disk) /\ disk[i + 1] = Newline
Asked(w) == open /\ writer[w].at = "asked"
AllWitnessed == \A w \in Writers : Asked(w) => Witnessed(w)

LEMMA MoreKeepsWitness ==
  ASSUME TypeOK, NEW more \in Seq(Piece), disk' = disk \o more, run' = run,
         NEW w \in Writers, Witnessed(w), SameRequest(writer'[w], writer[w])
  PROVE  Witnessed(w)'
PROOF
  <1>1. disk \in Seq(Piece) /\ Len(disk) \in Nat /\ Len(more) \in Nat /\ DOMAIN disk = 1..Len(disk)
    BY DEF TypeOK
  <1>2. Len(disk') = Len(disk) + Len(more)
    BY <1>1, ConcatProperties
  <1>3. disk' \in Seq(Piece)
    BY <1>1, ConcatProperties
  <1>4. \A i \in 1..(Len(disk) + Len(more)) :
          disk'[i] = IF i <= Len(disk) THEN disk[i] ELSE more[i - Len(disk)]
    BY <1>1, ConcatProperties
  <1>5. DOMAIN disk' = 1..(Len(disk) + Len(more))
    BY <1>2, <1>3
  <1>6. PICK i \in WholeIn(disk) :
          /\ Request(disk[i]) /\ disk[i].run = run /\ SameRequest(disk[i], writer[w])
          /\ i < Len(disk) /\ disk[i + 1] = Newline
    BY DEF Witnessed
  <1>7. i \in 1..Len(disk) /\ IsRecord(disk[i])
    BY <1>1, <1>6 DEF WholeIn
  <1>8. /\ i \in 1..(Len(disk) + Len(more)) /\ i <= Len(disk)
        /\ i + 1 \in 1..(Len(disk) + Len(more)) /\ i + 1 <= Len(disk) /\ i < Len(disk')
    BY <1>1, <1>2, <1>6, <1>7
  <1>9. disk'[i] = disk[i] /\ disk'[i + 1] = Newline
    BY <1>4, <1>6, <1>8
  <1>10. i \in WholeIn(disk')
    BY <1>5, <1>7, <1>8, <1>9 DEF WholeIn
  <1>11. SameRequest(disk'[i], writer'[w])
    BY <1>6, <1>9 DEF SameRequest
  <1>12. QED
    BY <1>6, <1>8, <1>9, <1>10, <1>11 DEF Witnessed

\* Whatever is written, requests that stay with the model stay witnessed.
LEMMA WritingKeepsWitness ==
  ASSUME TypeOK, TypeOK', LogInv, AllWitnessed, NEW rec, NextRecord(rec), Commit(rec), run' = run,
         NEW w \in Writers, Asked(w)', writer[w].at = "asked", SameRequest(writer'[w], writer[w])
  PROVE  Witnessed(w)'
PROOF
  <1>1. open' /\ rec \in Piece
    BY DEF Asked, NextRecord
  <1>2. open /\ disk' = Log \o <<rec, Newline>>
    BY <1>1, CommitGrows
  <1>3. /\ buffer \o <<rec, Newline>> \in Seq(Piece)
        /\ disk' = disk \o (buffer \o <<rec, Newline>>)
    BY <1>1, <1>2, LineType
  <1>4. Witnessed(w)
    BY <1>2 DEF AllWitnessed, Asked
  <1>5. QED
    BY <1>3, <1>4, MoreKeepsWitness

\* Nothing is written.
LEMMA QuietKeepsWitness ==
  ASSUME TypeOK, AllWitnessed, disk' = disk, run' = run, open' => open,
         \A w \in Writers : writer'[w].at = "asked" => writer'[w] = writer[w]
  PROVE  AllWitnessed'
PROOF BY DEF AllWitnessed, Asked, Witnessed

LEMMA RecordKeepsWitness ==
  ASSUME TypeOK, TypeOK', LogInv, AllWitnessed,
         NEW w \in Writers, NEW to \in Places, Goes(w, to), to # "asked",
         NEW type \in {"llm_response", "llm_error", "tool_call"},
         Commit(Record(type, w)), run' = run
  PROVE  AllWitnessed'
PROOF
  <1>1. NextRecord(Record(type, w))
    BY RecordIsNext
  <1>2. writer'[w].at # "asked" /\ \A v \in Writers : v # w => writer'[v] = writer[v]
    BY GoesFacts
  <1>3. ASSUME NEW v \in Writers, Asked(v)' PROVE Witnessed(v)'
    <2>1. v # w /\ writer'[v] = writer[v] /\ writer[v].at = "asked"
      BY <1>2, <1>3 DEF Asked
    <2>2. SameRequest(writer'[v], writer[v])
      BY <2>1 DEF SameRequest
    <2>3. QED
      BY <1>1, <1>3, <2>1, <2>2, WritingKeepsWitness
  <1>4. QED
    BY <1>3 DEF AllWitnessed

LEMMA QuietGoesWitness ==
  ASSUME TypeOK, AllWitnessed, disk' = disk, run' = run, open' => open,
         NEW w \in Writers, NEW to \in Places, Goes(w, to), to # "asked"
  PROVE  AllWitnessed'
PROOF
  <1>1. \A v \in Writers : writer'[v].at = "asked" => writer'[v] = writer[v]
    BY GoesFacts
  <1>2. QED
    BY <1>1, QuietKeepsWitness

LEMMA AsksWitness ==
  ASSUME TypeOK, AllWitnessed, disk' = disk, run' = run, open' = open,
         NEW w \in Writers, NEW task \in Tasks, NEW f \in Files, Asks(w, task, f)
  PROVE  AllWitnessed'
PROOF
  <1>1. \A v \in Writers : writer'[v].at = "asked" => writer'[v] = writer[v]
    BY DEF Asks, TypeOK
  <1>2. QED
    BY <1>1, QuietKeepsWitness

\* The request itself, as a line of its own.
LEMMA RequestIsWitnessed ==
  ASSUME TypeOK, TypeOK', LogInv, AllWitnessed, NEW w \in Writers, AppendTaskRecord(w)
  PROVE  AllWitnessed'
PROOF
  <1> DEFINE rec == Record("llm_request", w)
  <1>1. Goes(w, "asked") /\ Commit(rec) /\ run' = run /\ "asked" \in Places
    BY DEF AppendTaskRecord, Places
  <1>2. NextRecord(rec)
    BY RecordIsNext DEF AppendTaskRecord
  <1>3. rec.type = "llm_request" /\ rec.run = run /\ SameRequest(rec, writer[w])
    BY RecordType
  <1> HIDE DEF rec
  <1>4. /\ SameRequest(writer'[w], writer[w])
        /\ \A v \in Writers : v # w => writer'[v] = writer[v]
    BY <1>1, GoesFacts
  <1>5. ASSUME NEW v \in Writers, v # w, Asked(v)' PROVE Witnessed(v)'
    <2>1. writer'[v] = writer[v] /\ writer[v].at = "asked"
      BY <1>4, <1>5 DEF Asked
    <2>2. SameRequest(writer'[v], writer[v])
      BY <2>1 DEF SameRequest
    <2>3. QED
      BY <1>1, <1>2, <1>5, <2>1, <2>2, WritingKeepsWitness
  <1>6. ASSUME Asked(w)' PROVE Witnessed(w)'
    <2> DEFINE last == Len(Log) + 1
    <2>1. open' /\ rec \in Piece /\ IsRecord(rec)
      BY <1>2, <1>6 DEF Asked, NextRecord
    <2>2. disk' = Log \o <<rec, Newline>>
      BY <1>1, <1>2, <2>1, CommitGrows
    <2>3. Log \in Seq(Piece) /\ Len(Log) \in Nat
      BY LogType
    <2>4. /\ last \in WholeIn(disk') /\ disk'[last] = rec
          /\ disk'[Len(Log) + 2] = Newline /\ Len(disk') = Len(Log) + 2
      BY <2>1, <2>2, <2>3, LineAdded
    <2>5. last < Len(disk') /\ last + 1 = Len(Log) + 2
      BY <2>3, <2>4
    <2>6. SameRequest(rec, writer'[w])
      BY <1>3, <1>4 DEF SameRequest
    <2>7. disk'[last + 1] = Newline
      BY <2>4, <2>5
    <2> HIDE DEF last
    <2>8. QED
      BY <1>1, <1>3, <2>4, <2>5, <2>6, <2>7 DEF Witnessed, Request
  <1>7. QED
    BY <1>5, <1>6 DEF AllWitnessed

LEMMA WitnessNext == TypeOK /\ TypeOK' /\ LogInv /\ AllWitnessed /\ [Next]_vars => AllWitnessed'
PROOF
  <1> SUFFICES ASSUME TypeOK, TypeOK', LogInv, AllWitnessed, [Next]_vars
               PROVE  AllWitnessed'
    OBVIOUS
  <1> USE DEF sessionVars, countVars
  <1>0. Main \in Writers
    BY MainIsWriter
  <1>1. CASE New
    <2>1. \A w \in Writers : writer'[w].at # "asked"
      BY <1>0, <1>1 DEF New, TypeOK, LogInv, OffTogether
    <2>2. QED
      BY <2>1 DEF AllWitnessed, Asked
  <1>2. CASE Close
    BY <1>2 DEF Close, AllWitnessed, Asked
  <1>3. CASE Exit
    BY <1>3 DEF Exit, Dies, AllWitnessed, Asked
  <1>4. CASE Kill
    BY <1>4 DEF Kill, Dies, AllWitnessed, Asked
  <1>5. CASE MainRequest
    <2>1. writer[Main].file \in Files /\ "main_task" \in Tasks
      BY <1>0 DEF TypeOK, Writer, Tasks
    <2>2. QED
      BY <1>0, <1>5, <2>1, AsksWitness DEF MainRequest
  <1>6. CASE InlineCompression
    <2>1. writer[Main].file \in Files /\ "memory_compression_task" \in Tasks
      BY <1>0 DEF TypeOK, Writer, Tasks
    <2>2. QED
      BY <1>0, <1>6, <2>1, AsksWitness DEF InlineCompression
  <1>7. CASE ToolCall
    BY <1>0, <1>7, RecordKeepsWitness DEF ToolCall, Places
  <1>8. CASE TurnEnds
    BY <1>0, <1>8, QuietGoesWitness DEF TurnEnds, Places
  <1>9. CASE ConversationEnds
    <2>1. \A v \in Writers : writer'[v].at = "asked" => writer'[v] = writer[v]
      BY <1>0, <1>9 DEF ConversationEnds, TypeOK, Writer
    <2>2. QED
      BY <1>9, <2>1, QuietKeepsWitness DEF ConversationEnds
  <1>10. CASE ConversationFails
    BY <1>0, <1>10, QuietGoesWitness DEF ConversationFails, Places
  <1>11. CASE WaitBackground
    BY <1>0, <1>11, QuietGoesWitness DEF WaitBackground, Places
  <1>12. ASSUME NEW j \in Jobs, StartJob(j) PROVE AllWitnessed'
    <2>1. \A v \in Writers : writer'[v].at = "asked" => writer'[v] = writer[v]
      BY <1>12 DEF StartJob, TypeOK
    <2>2. QED
      BY <1>12, <2>1, QuietKeepsWitness DEF StartJob
  <1>13. ASSUME NEW j \in Jobs, JobRequest(j) PROVE AllWitnessed'
    <2>1. j \in Writers
      BY MainIsWriter
    <2>2. writer[j].file \in Files /\ "memory_compression_task" \in Tasks
      BY <2>1 DEF TypeOK, Writer, Tasks
    <2>3. QED
      BY <1>13, <2>1, <2>2, AsksWitness DEF JobRequest
  <1>14. ASSUME NEW w \in Writers, AppendTaskRecord(w) PROVE AllWitnessed'
    BY <1>14, RequestIsWitnessed
  <1>15. ASSUME NEW w \in Writers, SetResponse(w) PROVE AllWitnessed'
    <2>1. AfterAnswer(w) \in Places /\ AfterAnswer(w) # "asked"
      BY DEF AfterAnswer, Places
    <2>2. QED
      BY <1>15, <2>1, RecordKeepsWitness DEF SetResponse
  <1>16. ASSUME NEW w \in Writers, CountFailure(w) PROVE AllWitnessed'
    BY <1>16, QuietGoesWitness DEF CountFailure, Places
  <1>17. ASSUME NEW w \in Writers, SetError(w) PROVE AllWitnessed'
    <2>1. PICK to \in AfterError(w) : Goes(w, to)
      BY <1>17 DEF SetError
    <2>2. to \in Places /\ to # "asked"
      BY DEF AfterError, Places
    <2>3. QED
      BY <1>17, <2>1, <2>2, RecordKeepsWitness DEF SetError
  <1>18. CASE UNCHANGED vars
    BY <1>18, QuietKeepsWitness DEF vars
  <1>19. QED
    BY <1>1, <1>2, <1>3, <1>4, <1>5, <1>6, <1>7, <1>8, <1>9, <1>10, <1>11, <1>12,
       <1>13, <1>14, <1>15, <1>16, <1>17, <1>18 DEF Next

\* While a request is with the model its record is a line of the file, so
\* that a process that dies in the middle of a call leaves a trace of it.
THEOREM RequestsAreWitnessed == Spec => []RequestWitnessed
PROOF
  <1>1. Init => AllWitnessed
    BY DEF Init, AllWitnessed, Asked
  <1>2. AllWitnessed => RequestWitnessed
    BY DEF AllWitnessed, Asked, Witnessed, RequestWitnessed, Whole, WholeIn, SameRequest, Request
  <1>3. QED
    BY <1>1, <1>2, WitnessNext, LogAlways, PTL DEF Spec
-----------------------------------------------------------------------------
(* A fault spoils one line *)

\* bufio holds lines with their newlines.
Terminated(p) ==
  \A i \in 1..Len(p) : p[i] # Newline => IsRecord(p[i]) /\ i < Len(p) /\ p[i + 1] = Newline
\* The lines of the file that are not one record and its newline.
Spoiled(d) ==
  {i \in 1..Len(d) : /\ d[i] # Newline /\ (i = 1 \/ d[i - 1] = Newline)
                     /\ ~(i < Len(d) /\ d[i] # Torn /\ d[i + 1] = Newline)}
LinesInv == Terminated(buffer) /\ Cardinality(Spoiled(disk)) <= faults

LEMMA SpoiledFinite ==
  ASSUME NEW d \in Seq(Piece)
  PROVE  IsFiniteSet(Spoiled(d)) /\ Cardinality(Spoiled(d)) \in Nat
PROOF
  <1>1. IsFiniteSet(1..Len(d))
    BY FS_Interval
  <1>2. Spoiled(d) \subseteq 1..Len(d)
    BY DEF Spoiled
  <1>3. IsFiniteSet(Spoiled(d))
    BY <1>1, <1>2, FS_Subset
  <1>4. Cardinality(Spoiled(d)) \in Nat
    BY <1>3, FS_CardinalityType
  <1> QED
    BY <1>3, <1>4

LEMMA ConcatAt ==
  ASSUME NEW d \in Seq(Piece), NEW p \in Seq(Piece)
  PROVE  /\ d \o p \in Seq(Piece) /\ Len(d \o p) = Len(d) + Len(p)
         /\ \A i \in 1..Len(d) : (d \o p)[i] = d[i]
         /\ \A j \in 1..Len(p) : (d \o p)[Len(d) + j] = p[j]
PROOF
  <1>1. d \o p \in Seq(Piece)
    BY ConcatProperties
  <1>2. Len(d \o p) = Len(d) + Len(p)
    BY ConcatProperties
  <1>3. \A i \in 1..(Len(d) + Len(p)) :
          (d \o p)[i] = IF i <= Len(d) THEN d[i] ELSE p[i - Len(d)]
    BY ConcatProperties
  <1>4. Len(d) \in Nat /\ Len(p) \in Nat
    OBVIOUS
  <1>5. \A i \in 1..Len(d) : (d \o p)[i] = d[i]
    BY <1>3, <1>4
  <1>6. \A j \in 1..Len(p) : (d \o p)[Len(d) + j] = p[j]
    <2> TAKE j \in 1..Len(p)
    <2>1. Len(d) + j \in 1..(Len(d) + Len(p)) /\ ~(Len(d) + j <= Len(d)) /\ Len(d) + j - Len(d) = j
      BY <1>4
    <2> QED
      BY <1>3, <2>1
  <1> QED
    BY <1>1, <1>2, <1>5, <1>6

\* Whatever stands at the end of the file, whole lines spoil none.
LEMMA LinesSpoilNone ==
  ASSUME NEW d \in Seq(Piece), NEW p \in Seq(Piece), Terminated(p)
  PROVE  Spoiled(d \o p) \subseteq Spoiled(d)
PROOF
  <1> DEFINE e == d \o p
  <1>1. /\ Len(e) = Len(d) + Len(p)
        /\ \A i \in 1..Len(d) : e[i] = d[i]
        /\ \A j \in 1..Len(p) : e[Len(d) + j] = p[j]
    BY ConcatAt
  <1>2. Len(d) \in Nat /\ Len(p) \in Nat
    OBVIOUS
  <1> HIDE DEF e
  <1>3. SUFFICES ASSUME NEW i \in Spoiled(e) PROVE i \in Spoiled(d)
    BY DEF e
  <1>4. /\ i \in 1..(Len(d) + Len(p)) /\ e[i] # Newline /\ (i = 1 \/ e[i - 1] = Newline)
        /\ ~(i < Len(d) + Len(p) /\ e[i] # Torn /\ e[i + 1] = Newline)
    BY <1>1, <1>3 DEF Spoiled
  <1>5. CASE i <= Len(d)
    <2>1. i \in 1..Len(d) /\ (i # 1 => i - 1 \in 1..Len(d))
      BY <1>2, <1>4, <1>5
    <2>2. d[i] # Newline /\ (i = 1 \/ d[i - 1] = Newline)
      BY <1>1, <1>4, <2>1
    <2>3. ~(i < Len(d) /\ d[i] # Torn /\ d[i + 1] = Newline)
      <3> SUFFICES ASSUME i < Len(d), d[i] # Torn, d[i + 1] = Newline PROVE FALSE
        OBVIOUS
      <3>1. i + 1 \in 1..Len(d) /\ i < Len(d) + Len(p)
        BY <1>2, <2>1
      <3> QED
        BY <1>1, <1>4, <2>1, <3>1
    <2> QED
      BY <2>1, <2>2, <2>3 DEF Spoiled
  <1>6. CASE ~(i <= Len(d))
    <2> DEFINE j == i - Len(d)
    <2>1. j \in 1..Len(p) /\ Len(d) + j = i /\ Len(d) + (j + 1) = i + 1
      BY <1>2, <1>4, <1>6
    <2> HIDE DEF j
    <2>2. IsRecord(p[j]) /\ j < Len(p) /\ p[j + 1] = Newline
      BY <1>1, <1>4, <2>1 DEF Terminated
    <2>3. j + 1 \in 1..Len(p) /\ i < Len(d) + Len(p)
      BY <1>2, <2>1, <2>2
    <2>4. e[i + 1] = Newline
      BY <1>1, <2>1, <2>2, <2>3
    <2>5. e[i] # Torn
      BY <1>1, <2>1, <2>2, MarksType
    <2> QED
      BY <1>4, <2>3, <2>4, <2>5
  <1> QED
    BY <1>5, <1>6

\* Lines of which the last is cut short spoil none but that.
LEMMA CutSpoilsOne ==
  ASSUME NEW d \in Seq(Piece), NEW p \in Seq(Piece), Terminated(p), NEW part \in CutShort(p)
  PROVE  Spoiled(d \o part) \subseteq Spoiled(d) \union {Len(d) + Len(part)}
PROOF
  <1>1. PICK n \in 0..Len(p) :
          /\ part \in Seq(Piece) /\ Len(part) \in {n, n + 1}
          /\ \A j \in 1..n : part[j] = p[j]
          /\ Len(part) = n + 1 => part[n + 1] = Torn /\ n < Len(p) /\ IsRecord(p[n + 1])
    BY CutPieces
  <1> DEFINE e == d \o part
  <1>2. /\ Len(e) = Len(d) + Len(part)
        /\ \A i \in 1..Len(d) : e[i] = d[i]
        /\ \A j \in 1..Len(part) : e[Len(d) + j] = part[j]
    BY <1>1, ConcatAt
  <1>3. Len(d) \in Nat /\ Len(part) \in Nat /\ Len(p) \in Nat /\ n \in Nat
    BY <1>1
  <1> HIDE DEF e
  <1>4. SUFFICES ASSUME NEW i \in Spoiled(e), i # Len(d) + Len(part) PROVE i \in Spoiled(d)
    BY DEF e
  <1>5. /\ i \in 1..(Len(d) + Len(part)) /\ e[i] # Newline /\ (i = 1 \/ e[i - 1] = Newline)
        /\ ~(i < Len(d) + Len(part) /\ e[i] # Torn /\ e[i + 1] = Newline)
    BY <1>2, <1>4 DEF Spoiled
  <1>6. CASE i <= Len(d)
    <2>1. i \in 1..Len(d) /\ (i # 1 => i - 1 \in 1..Len(d))
      BY <1>3, <1>5, <1>6
    <2>2. d[i] # Newline /\ (i = 1 \/ d[i - 1] = Newline)
      BY <1>2, <1>5, <2>1
    <2>3. ~(i < Len(d) /\ d[i] # Torn /\ d[i + 1] = Newline)
      <3> SUFFICES ASSUME i < Len(d), d[i] # Torn, d[i + 1] = Newline PROVE FALSE
        OBVIOUS
      <3>1. i + 1 \in 1..Len(d) /\ i < Len(d) + Len(part)
        BY <1>3, <2>1
      <3> QED
        BY <1>2, <1>5, <2>1, <3>1
    <2> QED
      BY <2>1, <2>2, <2>3 DEF Spoiled
  <1>7. CASE ~(i <= Len(d))
    <2> DEFINE j == i - Len(d)
    <2>1. /\ j \in 1..Len(part) /\ Len(d) + j = i /\ Len(d) + (j + 1) = i + 1
          /\ j < Len(part) /\ j + 1 \in 1..Len(part) /\ j \in 1..n /\ j \in 1..Len(p)
      <3>1. (Len(part) = n \/ Len(part) = n + 1) /\ n <= Len(p)
        BY <1>1
      <3> QED
        BY <1>3, <1>4, <1>5, <1>7, <3>1
    <2> HIDE DEF j
    <2>2. IsRecord(p[j]) /\ p[j + 1] = Newline
      BY <1>1, <1>2, <1>5, <2>1 DEF Terminated
    <2>3. part[j + 1] = Newline
      <3>1. CASE j + 1 \in 1..n
        BY <1>1, <2>2, <3>1
      <3>2. CASE j + 1 = n + 1 /\ Len(part) = n + 1
        BY <1>1, <2>2, <3>2, MarksType
      <3> QED
        BY <1>1, <1>3, <2>1, <3>1, <3>2
    <2>4. e[i + 1] = Newline
      BY <1>2, <2>1, <2>3
    <2>5. e[i] # Torn
      BY <1>1, <1>2, <2>1, <2>2, MarksType
    <2> QED
      BY <1>3, <1>5, <2>1, <2>4, <2>5
  <1> QED
    BY <1>6, <1>7

LEMMA LineTerminated ==
  ASSUME NEW p \in Seq(Piece), Terminated(p), NEW rec \in Piece, IsRecord(rec)
  PROVE  p \o <<rec, Newline>> \in Seq(Piece) /\ Terminated(p \o <<rec, Newline>>)
PROOF
  <1> DEFINE e == p \o <<rec, Newline>>
  <1>1. /\ e \in Seq(Piece) /\ Len(e) = Len(p) + 2
        /\ e[Len(p) + 1] = rec /\ e[Len(p) + 2] = Newline
    BY LineAdded
  <1>2. \A i \in 1..Len(p) : e[i] = p[i]
    <2>1. <<rec, Newline>> \in Seq(Piece)
      BY MarksType
    <2> QED
      BY <2>1, ConcatAt
  <1>3. Len(p) \in Nat
    OBVIOUS
  <1> HIDE DEF e
  <1>4. ASSUME NEW i \in 1..Len(e), e[i] # Newline
        PROVE  IsRecord(e[i]) /\ i < Len(e) /\ e[i + 1] = Newline
    <2>1. CASE i \in 1..Len(p)
      <3>1. IsRecord(p[i]) /\ i < Len(p) /\ p[i + 1] = Newline
        BY <1>2, <1>4, <2>1 DEF Terminated
      <3>2. i + 1 \in 1..Len(p)
        BY <1>3, <2>1, <3>1
      <3> QED
        BY <1>1, <1>2, <1>3, <2>1, <3>1, <3>2
    <2>2. CASE i = Len(p) + 1
      <3>1. i + 1 = Len(p) + 2 /\ i < Len(p) + 2
        BY <1>3, <2>2
      <3> QED
        BY <1>1, <2>2, <3>1
    <2>3. CASE i = Len(p) + 2
      BY <1>1, <1>4, <2>3
    <2> QED
      BY <1>1, <1>3, <1>4, <2>1, <2>2, <2>3
  <1> QED
    BY <1>1, <1>4 DEF Terminated, e

\* Of a step: it writes nothing, or lines, or lines cut short by a fault.
Writes(p) ==
  \/ disk' = disk /\ faults' \in {faults, faults + 1}
  \/ disk' = disk \o p /\ faults' = faults
  \/ (\E part \in CutShort(p) : disk' = disk \o part) /\ faults' = faults + 1

LEMMA WritesKeepLines ==
  ASSUME TypeOK, TypeOK', LinesInv, NEW p \in Seq(Piece), Terminated(p), Writes(p)
  PROVE  Cardinality(Spoiled(disk')) <= faults'
PROOF
  <1>1. disk \in Seq(Piece) /\ faults \in Nat
    BY BoundsAssumption DEF TypeOK
  <1>2. IsFiniteSet(Spoiled(disk)) /\ Cardinality(Spoiled(disk)) \in Nat
    BY <1>1, SpoiledFinite
  <1>3. Cardinality(Spoiled(disk)) <= faults
    BY DEF LinesInv
  <1>4. CASE disk' = disk /\ faults' \in {faults, faults + 1}
    BY <1>1, <1>2, <1>3, <1>4
  <1>5. CASE disk' = disk \o p /\ faults' = faults
    <2>1. Spoiled(disk') \subseteq Spoiled(disk)
      BY <1>1, <1>5, LinesSpoilNone
    <2>2. Cardinality(Spoiled(disk')) <= Cardinality(Spoiled(disk))
      BY <1>2, <2>1, FS_Subset
    <2>3. Cardinality(Spoiled(disk')) \in Nat
      BY SpoiledFinite DEF TypeOK
    <2> QED
      BY <1>1, <1>2, <1>3, <1>5, <2>2, <2>3
  <1>6. ASSUME NEW part \in CutShort(p), disk' = disk \o part, faults' = faults + 1
        PROVE  Cardinality(Spoiled(disk')) <= faults'
    <2> DEFINE last == Len(disk) + Len(part)
               more == Spoiled(disk) \union {last}
    <2>1. Spoiled(disk') \subseteq more
      BY <1>1, <1>6, CutSpoilsOne
    <2>2. IsFiniteSet(more) /\ Cardinality(more) \in {Cardinality(Spoiled(disk)), Cardinality(Spoiled(disk)) + 1}
      BY <1>2, FS_AddElement
    <2> HIDE DEF more
    <2>3. Cardinality(Spoiled(disk')) <= Cardinality(more)
      BY <2>1, <2>2, FS_Subset
    <2>4. Cardinality(Spoiled(disk')) \in Nat
      BY SpoiledFinite DEF TypeOK
    <2> QED
      BY <1>1, <1>2, <1>3, <1>6, <2>2, <2>3, <2>4
  <1> QED
    BY <1>4, <1>5, <1>6 DEF Writes

LEMMA CommitKeepsLines ==
  ASSUME TypeOK, TypeOK', LinesInv, NEW rec \in Piece, IsRecord(rec), Commit(rec)
  PROVE  LinesInv'
PROOF
  <1> DEFINE line == buffer \o <<rec, Newline>>
  <1>1. line \in Seq(Piece) /\ Terminated(line)
    BY LineTerminated DEF TypeOK, LinesInv
  <1>2. Writes(line)
    BY DEF Commit, Writes
  <1>3. buffer' = << >> \/ buffer' = buffer
    BY DEF Commit
  <1>4. Terminated(<< >>)
    BY DEF Terminated
  <1> HIDE DEF line
  <1>5. Cardinality(Spoiled(disk')) <= faults'
    BY <1>1, <1>2, WritesKeepLines
  <1> QED
    BY <1>3, <1>4, <1>5 DEF LinesInv

LEMMA RecordKeepsLines ==
  ASSUME TypeOK, TypeOK', LinesInv, NEW w \in Writers,
         NEW type \in {"llm_request", "llm_response", "llm_error", "tool_call"},
         Commit(Record(type, w))
  PROVE  LinesInv'
PROOF BY RecordType, CommitKeepsLines

\* What a goroutine is writing when the process is killed.
LEMMA WritingType ==
  ASSUME TypeOK, NEW w \in Writers, NEW rec \in Writing(w)
  PROVE  rec \in Piece /\ IsRecord(rec)
PROOF
  <1>1. CASE writer[w].at = "numbered"
    BY <1>1, RecordType DEF Writing
  <1>2. CASE writer[w].at = "asked"
    BY <1>2, RecordType DEF Writing
  <1>3. CASE writer[w].at = "failing"
    BY <1>3, RecordType DEF Writing
  <1>4. CASE writer[w].at = "answered"
    BY <1>4, RecordType DEF Writing
  <1>5. CASE writer[w].at = "closing"
    BY <1>5, EndType DEF Writing
  <1> QED
    BY <1>1, <1>2, <1>3, <1>4, <1>5 DEF Writing

LEMMA LinesNext == TypeOK /\ TypeOK' /\ LinesInv /\ [Next]_vars => LinesInv'
PROOF
  <1> SUFFICES ASSUME TypeOK, TypeOK', LinesInv, [Next]_vars
               PROVE  LinesInv'
    OBVIOUS
  <1> USE DEF sessionVars, countVars
  <1>0. Main \in Writers /\ \A j \in Jobs : j \in Writers
    BY MainIsWriter
  <1>a. Terminated(<< >>) /\ << >> \in Seq(Piece)
    BY DEF Terminated
  <1>b. buffer \in Seq(Piece) /\ Terminated(buffer)
    BY DEF TypeOK, LinesInv
  <1>1. CASE New
    <2>1. SessionStart \in Piece /\ IsRecord(SessionStart)
      BY <1>1, StartType DEF New
    <2>2. Terminated(<< >> \o <<SessionStart, Newline>>)
      BY <1>a, <2>1, LineTerminated
    <2>3. << >> \o <<SessionStart, Newline>> = <<SessionStart, Newline>>
      <3>1. <<SessionStart, Newline>> \in Seq(Piece)
        BY <2>1, MarksType
      <3> QED
        BY <3>1, ConcatEmptySeq
    <2> QED
      BY <1>1, <2>2, <2>3 DEF New, LinesInv
  <1>2. CASE Close
    <2> DEFINE line == buffer \o <<SessionEnd, Newline>>
    <2>1. line \in Seq(Piece) /\ Terminated(line)
      BY <1>b, EndType, LineTerminated
    <2>2. Writes(line)
      BY <1>2 DEF Close, Writes
    <2> HIDE DEF line
    <2>3. Cardinality(Spoiled(disk')) <= faults'
      BY <2>1, <2>2, WritesKeepLines
    <2> QED
      BY <1>2, <1>a, <2>3 DEF Close, LinesInv
  <1>3. CASE Exit
    BY <1>3, <1>a DEF Exit, Dies, LinesInv
  <1>4. CASE Kill
    <2>1. \E p \in Seq(Piece) : Terminated(p) /\ Writes(p)
      <3>1. CASE UNCHANGED disk
        BY <1>4, <1>a, <3>1 DEF Kill, Writes
      <3>2. ASSUME NEW w \in Writers, NEW rec \in Writing(w),
                   NEW part \in CutShort(buffer \o <<rec, Newline>>), disk' = disk \o part
            PROVE  \E p \in Seq(Piece) : Terminated(p) /\ Writes(p)
        <4> DEFINE line == buffer \o <<rec, Newline>>
        <4>1. line \in Seq(Piece) /\ Terminated(line)
          BY <1>b, WritingType, LineTerminated
        <4>2. Writes(line)
          BY <1>4, <3>2 DEF Kill, Writes
        <4> HIDE DEF line
        <4> QED
          BY <4>1, <4>2
      <3> QED
        BY <1>4, <3>1, <3>2 DEF Kill
    <2>2. Cardinality(Spoiled(disk')) <= faults'
      BY <2>1, WritesKeepLines
    <2> QED
      BY <1>4, <1>a, <2>2 DEF Kill, Dies, LinesInv
  <1>5. CASE UNCHANGED <<disk, buffer, faults>>
    BY <1>5 DEF LinesInv
  <1>6. CASE ToolCall
    BY <1>0, <1>6, RecordKeepsLines DEF ToolCall
  <1>7. ASSUME NEW w \in Writers, AppendTaskRecord(w) \/ SetResponse(w) \/ SetError(w)
        PROVE  LinesInv'
    BY <1>7, RecordKeepsLines DEF AppendTaskRecord, SetResponse, SetError
  <1>8. CASE \/ MainRequest \/ InlineCompression \/ TurnEnds
             \/ ConversationEnds \/ ConversationFails \/ WaitBackground
    BY <1>5, <1>8 DEF MainRequest, InlineCompression, TurnEnds, ConversationEnds,
                      ConversationFails, WaitBackground
  <1>9. CASE \E j \in Jobs : StartJob(j) \/ JobRequest(j)
    BY <1>5, <1>9 DEF StartJob, JobRequest
  <1>10. CASE \E w \in Writers : CountFailure(w)
    BY <1>5, <1>10 DEF CountFailure
  <1>11. CASE UNCHANGED vars
    BY <1>5, <1>11 DEF vars
  <1> QED
    BY <1>1, <1>2, <1>3, <1>4, <1>6, <1>7, <1>8, <1>9, <1>10, <1>11 DEF Next

\* Each killed process and each failed write leaves at most one line that
\* does not parse, however often the log is resumed after it.
THEOREM FaultsSpoilOneLine == Spec => []OneLinePerFault
PROOF
  <1>1. Init => LinesInv
    <2> SUFFICES ASSUME Init PROVE LinesInv
      OBVIOUS
    <2>1. Terminated(buffer)
      BY DEF Init, Terminated
    <2>2. Spoiled(disk) = {}
      BY DEF Init, Spoiled
    <2>3. Cardinality({}) = 0
      BY FS_EmptySet
    <2>4. faults = 0 /\ disk = << >>
      BY DEF Init
    <2> QED
      BY <2>1, <2>2, <2>3, <2>4 DEF LinesInv
  <1>2. TypeOK /\ LinesInv => OneLinePerFault
    <2> SUFFICES ASSUME TypeOK, LinesInv PROVE OneLinePerFault
      OBVIOUS
    <2> DEFINE bad == {i \in Lines : Unreadable(i)}
    <2>1. disk \in Seq(Piece) /\ faults \in Nat
      BY BoundsAssumption DEF TypeOK
    <2>2. bad \subseteq Spoiled(disk)
      BY <2>1 DEF Lines, Unreadable, Spoiled
    <2>3. IsFiniteSet(Spoiled(disk)) /\ Cardinality(Spoiled(disk)) \in Nat
      BY <2>1, SpoiledFinite
    <2> HIDE DEF bad
    <2>4. IsFiniteSet(bad) /\ Cardinality(bad) <= Cardinality(Spoiled(disk))
      BY <2>2, <2>3, FS_Subset
    <2>5. Cardinality(bad) \in Nat
      BY <2>4, FS_CardinalityType
    <2>6. Cardinality(bad) <= faults
      BY <2>1, <2>3, <2>4, <2>5 DEF LinesInv
    <2> QED
      BY <2>6 DEF bad, OneLinePerFault
  <1> QED
    BY <1>1, <1>2, LinesNext, TypeCorrect, TypeNext, PTL DEF Spec
-----------------------------------------------------------------------------
(* The end of a run accounts for all of it *)

ErrorsIn(d, r) == {i \in WholeIn(d) : d[i].run = r /\ d[i].type = "llm_error"}
FilesIn(d, r) == {f \in Files : \E i \in WholeIn(d) : d[i].run = r /\ d[i].file = f}
Accounts(d) ==
  \A i \in WholeIn(d) : d[i].type = "session_end" =>
    /\ Cardinality(ErrorsIn(d, d[i].run)) <= d[i].errors
    /\ Cardinality(FilesIn(d, d[i].run)) <= d[i].files

\* A failed request was counted, logged or not yet, and the file of every
\* request was noted.
Failing == {w \in Writers : writer[w].at = "failing"}
AtWork == {"numbered", "asked", "failing", "answered"}
Tallied ==
  /\ Cardinality(ErrorsIn(Log, run)) + Cardinality(Failing) <= failures
  /\ FilesIn(Log, run) \subseteq seen
  /\ \A w \in Writers : writer[w].at \in AtWork => writer[w].file \in seen
AccountInv == Accounts(Log) /\ (open => Tallied)

LEMMA PieceFields ==
  ASSUME NEW p \in Piece
  PROVE  p.errors \in Nat /\ p.files \in Nat /\ p.file \in 0..NumFiles
PROOF BY DEF Piece

LEMMA AccountsFinite ==
  ASSUME NEW d \in Seq(Piece), NEW r
  PROVE  /\ IsFiniteSet(ErrorsIn(d, r)) /\ Cardinality(ErrorsIn(d, r)) \in Nat
         /\ IsFiniteSet(FilesIn(d, r)) /\ Cardinality(FilesIn(d, r)) \in Nat
PROOF
  <1>1. IsFiniteSet(1..Len(d)) /\ IsFiniteSet(Files)
    BY FS_Interval, BoundsAssumption DEF Files
  <1>2. ErrorsIn(d, r) \subseteq 1..Len(d)
    BY PositionsAreInt DEF ErrorsIn
  <1>3. FilesIn(d, r) \subseteq Files
    BY DEF FilesIn
  <1>4. IsFiniteSet(ErrorsIn(d, r)) /\ IsFiniteSet(FilesIn(d, r))
    BY <1>1, <1>2, <1>3, FS_Subset
  <1> QED
    BY <1>4, FS_CardinalityType

LEMMA FailingFinite == IsFiniteSet(Failing) /\ Cardinality(Failing) \in Nat
PROOF
  <1>1. IsFiniteSet(Writers)
    BY FS_Interval, BoundsAssumption DEF Writers
  <1>2. Failing \subseteq Writers
    BY DEF Failing
  <1>3. IsFiniteSet(Failing)
    BY <1>1, <1>2, FS_Subset
  <1> QED
    BY <1>3, FS_CardinalityType

\* A log in which every run has at most what it has in another one, of which
\* the ends are ends too.
LEMMA LessIsAccounted ==
  ASSUME NEW d \in Seq(Piece), Accounts(d), NEW e \in Seq(Piece),
         \A i \in WholeIn(e) : i \in WholeIn(d) /\ e[i] = d[i]
  PROVE  Accounts(e)
PROOF
  <1> SUFFICES ASSUME NEW i \in WholeIn(e), e[i].type = "session_end"
               PROVE  /\ Cardinality(ErrorsIn(e, e[i].run)) <= e[i].errors
                      /\ Cardinality(FilesIn(e, e[i].run)) <= e[i].files
    BY DEF Accounts
  <1> DEFINE r == e[i].run
  <1>1. i \in WholeIn(d) /\ e[i] = d[i] /\ r = d[i].run
    OBVIOUS
  <1>2. Cardinality(ErrorsIn(d, r)) <= e[i].errors /\ Cardinality(FilesIn(d, r)) <= e[i].files
    BY <1>1 DEF Accounts
  <1>3. e[i].errors \in Nat /\ e[i].files \in Nat
    <2>1. i \in 1..Len(e)
      BY PositionsAreInt
    <2>2. e[i] \in Piece
      BY <2>1
    <2> QED
      BY <2>2, PieceFields
  <1> HIDE DEF r
  <1>4. ErrorsIn(e, r) \subseteq ErrorsIn(d, r) /\ FilesIn(e, r) \subseteq FilesIn(d, r)
    BY DEF ErrorsIn, FilesIn
  <1>5. /\ IsFiniteSet(ErrorsIn(d, r)) /\ Cardinality(ErrorsIn(d, r)) \in Nat
        /\ IsFiniteSet(FilesIn(d, r)) /\ Cardinality(FilesIn(d, r)) \in Nat
    BY AccountsFinite
  <1>6. Cardinality(ErrorsIn(e, r)) \in Nat /\ Cardinality(FilesIn(e, r)) \in Nat
    BY AccountsFinite
  <1>7. Cardinality(ErrorsIn(e, r)) <= Cardinality(ErrorsIn(d, r))
    BY <1>4, <1>5, FS_Subset
  <1>8. Cardinality(FilesIn(e, r)) <= Cardinality(FilesIn(d, r))
    BY <1>4, <1>5, FS_Subset
  <1>9. /\ Cardinality(ErrorsIn(e, r)) <= e[i].errors
        /\ Cardinality(FilesIn(e, r)) <= e[i].files
    BY <1>2, <1>3, <1>5, <1>6, <1>7, <1>8
  <1> QED
    BY <1>9 DEF r

\* What a record adds to the counts of its run.
LEMMA CountsGrow ==
  ASSUME NEW d \in Seq(Piece), NEW rec \in Piece, IsRecord(rec)
  PROVE  LET e == d \o <<rec, Newline>> IN
           /\ \A r : r # rec.run =>
                ErrorsIn(e, r) = ErrorsIn(d, r) /\ FilesIn(e, r) = FilesIn(d, r)
           /\ rec.type # "llm_error" => ErrorsIn(e, rec.run) = ErrorsIn(d, rec.run)
           /\ rec.type = "llm_error" =>
                ErrorsIn(e, rec.run) = ErrorsIn(d, rec.run) \union {Len(d) + 1}
           /\ FilesIn(e, rec.run) \subseteq FilesIn(d, rec.run) \union {rec.file}
           /\ rec.file \notin Files => FilesIn(e, rec.run) = FilesIn(d, rec.run)
PROOF
  <1> DEFINE e == d \o <<rec, Newline>>
             last == Len(d) + 1
  <1>1. /\ e \in Seq(Piece) /\ WholeIn(e) = WholeIn(d) \union {last}
        /\ \A i \in WholeIn(d) : e[i] = d[i]
        /\ e[last] = rec
    BY LineAdded
  <1> HIDE DEF e, last
  <1>2. \A r : r # rec.run => ErrorsIn(e, r) = ErrorsIn(d, r)
    BY <1>1 DEF ErrorsIn
  <1>3. \A r : r # rec.run => FilesIn(e, r) = FilesIn(d, r)
    BY <1>1 DEF FilesIn
  <1>4. rec.type # "llm_error" => ErrorsIn(e, rec.run) = ErrorsIn(d, rec.run)
    BY <1>1 DEF ErrorsIn
  <1>5. rec.type = "llm_error" => ErrorsIn(e, rec.run) = ErrorsIn(d, rec.run) \union {last}
    BY <1>1 DEF ErrorsIn
  <1>6. FilesIn(e, rec.run) \subseteq FilesIn(d, rec.run) \union {rec.file}
    BY <1>1 DEF FilesIn
  <1>7. rec.file \notin Files => FilesIn(e, rec.run) = FilesIn(d, rec.run)
    BY <1>1 DEF FilesIn
  <1> QED
    BY <1>2, <1>3, <1>4, <1>5, <1>6, <1>7 DEF e, last

\* The file accounts for what the log does, and so does a write cut short.
LEMMA DiskAccounts ==
  ASSUME TypeOK, AccountInv
  PROVE  Accounts(disk)
PROOF
  <1>1. disk \in Seq(Piece) /\ buffer \in Seq(Piece) /\ Log \in Seq(Piece)
    BY LogType DEF TypeOK
  <1>2. /\ Len(Log) = Len(disk) + Len(buffer)
        /\ \A i \in 1..Len(disk) : Log[i] = disk[i]
    BY <1>1, ConcatAt DEF Log
  <1>3. Len(disk) \in Nat /\ Len(buffer) \in Nat
    BY <1>1
  <1>4. \A i \in WholeIn(disk) : i \in WholeIn(Log) /\ disk[i] = Log[i]
    BY <1>1, <1>2, <1>3 DEF WholeIn
  <1> QED
    BY <1>1, <1>4, LessIsAccounted DEF AccountInv

LEMMA CutAccounts ==
  ASSUME NEW d \in Seq(Piece), NEW line \in Seq(Piece), Accounts(d \o line),
         NEW part \in CutShort(line)
  PROVE  Accounts(d \o part)
PROOF
  <1>1. part \in Seq(Piece)
    BY CutRecords
  <1>2. PICK n \in Nat : /\ WholeIn(d \o part) = {k \in WholeIn(d \o line) : k <= n}
                         /\ \A k \in WholeIn(d \o part) : (d \o part)[k] = (d \o line)[k]
    BY CutRecords
  <1>3. d \o part \in Seq(Piece) /\ d \o line \in Seq(Piece)
    BY <1>1, ConcatProperties
  <1> QED
    BY <1>2, <1>3, LessIsAccounted

\* The record a goroutine writes: no end, of a file that was noted, and of an
\* error that was counted.
Due(rec) ==
  /\ rec \in Piece /\ IsRecord(rec) /\ rec.run = run
  /\ open => \/ rec.type # "session_end" /\ rec.file \in seen
             \/ rec.type = "session_end" /\ rec.file = 0
                /\ rec.errors = failures /\ rec.files = Cardinality(seen)

LEMMA LineAccounts ==
  ASSUME TypeOK, LogInv, AccountInv, open, NEW rec, Due(rec)
  PROVE  Accounts(Log \o <<rec, Newline>>)
PROOF
  <1> DEFINE e == Log \o <<rec, Newline>>
             last == Len(Log) + 1
  <1>1. Log \in Seq(Piece) /\ rec \in Piece /\ IsRecord(rec) /\ rec.run = run
    BY LogType DEF Due
  <1>2. /\ e \in Seq(Piece) /\ WholeIn(e) = WholeIn(Log) \union {last}
        /\ \A i \in WholeIn(Log) : e[i] = Log[i]
        /\ e[last] = rec
    BY <1>1, LineAdded
  <1>3. /\ \A r : r # run => ErrorsIn(e, r) = ErrorsIn(Log, r) /\ FilesIn(e, r) = FilesIn(Log, r)
        /\ rec.type # "llm_error" => ErrorsIn(e, run) = ErrorsIn(Log, run)
        /\ rec.file \notin Files => FilesIn(e, run) = FilesIn(Log, run)
    BY <1>1, CountsGrow
  <1> HIDE DEF e, last
  <1> SUFFICES ASSUME NEW i \in WholeIn(e), e[i].type = "session_end"
               PROVE  /\ Cardinality(ErrorsIn(e, e[i].run)) <= e[i].errors
                      /\ Cardinality(FilesIn(e, e[i].run)) <= e[i].files
    BY DEF Accounts, e
  <1>4. CASE i \in WholeIn(Log)
    <2>1. e[i] = Log[i] /\ Log[i].run # run
      BY <1>2, <1>4 DEF LogInv, Live
    <2> QED
      BY <1>3, <1>4, <2>1 DEF AccountInv, Accounts
  <1>5. CASE i = last
    <2>1. e[i] = rec /\ rec.type = "session_end" /\ rec.file = 0
          /\ rec.errors = failures /\ rec.files = Cardinality(seen)
      BY <1>2, <1>5 DEF Due
    <2>2. 0 \notin Files
      BY DEF Files
    <2>3. ErrorsIn(e, run) = ErrorsIn(Log, run) /\ FilesIn(e, run) = FilesIn(Log, run)
      BY <1>3, <2>1, <2>2
    <2>4. Cardinality(ErrorsIn(Log, run)) + Cardinality(Failing) <= failures
      BY DEF AccountInv, Tallied
    <2>5. Cardinality(ErrorsIn(Log, run)) <= failures
      BY <1>1, <2>4, AccountsFinite, FailingFinite DEF TypeOK
    <2>6. IsFiniteSet(seen)
      <3>1. IsFiniteSet(Files)
        BY FS_Interval, BoundsAssumption DEF Files
      <3> QED
        BY <3>1, FS_Subset DEF TypeOK
    <2>7. FilesIn(Log, run) \subseteq seen
      BY DEF AccountInv, Tallied
    <2>8. Cardinality(FilesIn(Log, run)) <= Cardinality(seen)
      BY <2>6, <2>7, FS_Subset
    <2> QED
      BY <1>1, <2>1, <2>3, <2>5, <2>8
  <1> QED
    BY <1>2, <1>4, <1>5

\* What a step may leave of the file: all of it, or the next line, or a part.
LEMMA WriteAccounts ==
  ASSUME TypeOK, LogInv, AccountInv, NEW rec, Due(rec),
         \/ disk' = disk
         \/ open /\ disk' = disk \o (buffer \o <<rec, Newline>>)
         \/ open /\ \E part \in CutShort(buffer \o <<rec, Newline>>) : disk' = disk \o part
  PROVE  Accounts(disk')
PROOF
  <1> DEFINE line == buffer \o <<rec, Newline>>
  <1>1. disk \in Seq(Piece) /\ line \in Seq(Piece) /\ disk \o line = Log \o <<rec, Newline>>
    BY LineType DEF Due, TypeOK
  <1>2. open => Accounts(disk \o line)
    BY <1>1, LineAccounts
  <1> HIDE DEF line
  <1>3. open => \A part \in CutShort(line) : Accounts(disk \o part)
    BY <1>1, <1>2, CutAccounts
  <1> QED
    BY <1>2, <1>3, DiskAccounts DEF line

LEMMA GoesOn ==
  ASSUME TypeOK, NEW w \in Writers, NEW to \in Places, Goes(w, to), to # "off"
  PROVE  writer'[w].file = writer[w].file
PROOF
  <1>1. writer \in [Writers -> Writer] /\ writer[w] \in Writer
    BY DEF TypeOK
  <1>2. CASE to \in {"asked", "failing"}
    <2>1. writer' = [writer EXCEPT ![w] = [@ EXCEPT !.at = to]]
      BY <1>2 DEF Goes
    <2> QED
      BY <1>1, <2>1 DEF Writer
  <1>3. CASE to \notin {"asked", "failing"}
    <2>1. writer' = [writer EXCEPT ![w] = [@ EXCEPT !.at = to, !.task = "main_task", !.no = 0]]
      BY <1>3 DEF Goes
    <2> QED
      BY <1>1, <2>1 DEF Writer
  <1> QED
    BY <1>2, <1>3

\* Nothing is written; a goroutine that comes to fail has been counted.
LEMMA QuietKeepsAccounts ==
  ASSUME TypeOK, TypeOK', AccountInv, UNCHANGED <<disk, run, open, buffer>>, seen \subseteq seen',
         \/ Failing' = Failing /\ failures' = failures
         \/ failures' = failures + 1 /\ \E w \in Writers : Failing' = Failing \union {w},
         \A v \in Writers : writer'[v].at \in AtWork => writer'[v].file \in seen'
  PROVE  AccountInv'
PROOF
  <1>1. Log' = Log
    BY DEF Log
  <1>2. Accounts(Log)' /\ FilesIn(Log, run)' = FilesIn(Log, run) /\ ErrorsIn(Log, run)' = ErrorsIn(Log, run)
    BY <1>1 DEF AccountInv
  <1>3. SUFFICES ASSUME open PROVE Cardinality(ErrorsIn(Log, run)) + Cardinality(Failing') <= failures'
    BY <1>2 DEF AccountInv, Tallied
  <1>4. Cardinality(ErrorsIn(Log, run)) + Cardinality(Failing) <= failures
    BY <1>3 DEF AccountInv, Tallied
  <1>5. /\ Cardinality(ErrorsIn(Log, run)) \in Nat /\ Cardinality(Failing) \in Nat
        /\ IsFiniteSet(Failing) /\ failures \in Nat
    BY LogType, AccountsFinite, FailingFinite DEF TypeOK
  <1>6. CASE Failing' = Failing /\ failures' = failures
    BY <1>4, <1>6
  <1>7. ASSUME failures' = failures + 1, NEW w \in Writers, Failing' = Failing \union {w}
        PROVE  Cardinality(ErrorsIn(Log, run)) + Cardinality(Failing') <= failures'
    <2>1. Cardinality(Failing') \in {Cardinality(Failing), Cardinality(Failing) + 1}
      BY <1>5, <1>7, FS_AddElement
    <2> QED
      BY <1>4, <1>5, <1>7, <2>1
  <1> QED
    BY <1>6, <1>7

LEMMA QuietGoesAccounts ==
  ASSUME TypeOK, TypeOK', AccountInv, UNCHANGED <<disk, run, open, buffer, seen, failures>>,
         NEW w \in Writers, NEW to \in Places \ AtWork, Goes(w, to), writer[w].at # "failing"
  PROVE  AccountInv'
PROOF
  <1>1. writer'[w].at = to /\ \A v \in Writers : v # w => writer'[v] = writer[v]
    BY GoesFacts
  <1>2. Failing' = Failing
    BY <1>1 DEF Failing, AtWork
  <1> SUFFICES open => \A v \in Writers : writer'[v].at \in AtWork => writer'[v].file \in seen
    <2>1. ASSUME ~open PROVE AccountInv'
      BY <2>1 DEF AccountInv, Log
    <2> QED
      BY <1>2, <2>1, QuietKeepsAccounts
  <1> QED
    BY <1>1 DEF AccountInv, Tallied

LEMMA AsksAccounts ==
  ASSUME TypeOK, TypeOK', AccountInv, UNCHANGED <<disk, run, open, buffer, failures>>,
         NEW w \in Writers, NEW task \in Tasks, NEW f \in Files, Asks(w, task, f),
         writer[w].at # "failing"
  PROVE  AccountInv'
PROOF
  <1>1. /\ writer'[w].at = "numbered" /\ writer'[w].file = f
        /\ \A v \in Writers : v # w => writer'[v] = writer[v]
        /\ seen' = seen \union {f}
    BY DEF Asks, TypeOK
  <1>2. Failing' = Failing
    BY <1>1 DEF Failing
  <1> SUFFICES open => \A v \in Writers : writer'[v].at \in AtWork => writer'[v].file \in seen'
    <2>1. ASSUME ~open PROVE AccountInv'
      BY <2>1 DEF AccountInv, Log
    <2> QED
      BY <1>1, <1>2, <2>1, QuietKeepsAccounts
  <1> QED
    BY <1>1 DEF AccountInv, Tallied

LEMMA CountsFailure ==
  ASSUME TypeOK, TypeOK', AccountInv, NEW w \in Writers, CountFailure(w)
  PROVE  AccountInv'
PROOF
  <1>1. /\ UNCHANGED <<disk, run, open, buffer, seen>> /\ failures' = failures + 1
        /\ writer[w].at = "asked" /\ Goes(w, "failing") /\ "failing" \in Places
    BY DEF CountFailure, Places, sessionVars
  <1>2. /\ writer'[w].at = "failing" /\ writer'[w].file = writer[w].file
        /\ \A v \in Writers : v # w => writer'[v] = writer[v]
    BY <1>1, GoesFacts, GoesOn
  <1>3. Failing' = Failing \union {w}
    BY <1>2 DEF Failing
  <1>4. ASSUME open PROVE \A v \in Writers : writer'[v].at \in AtWork => writer'[v].file \in seen'
    BY <1>1, <1>2, <1>4 DEF AccountInv, Tallied, AtWork
  <1>5. ASSUME ~open PROVE AccountInv'
    BY <1>1, <1>5 DEF AccountInv, Log
  <1> QED
    BY <1>1, <1>3, <1>4, <1>5, QuietKeepsAccounts

\* A goroutine writes a record that does not end the session.
LEMMA RecordIsDue ==
  ASSUME TypeOK, AccountInv, NEW w \in Writers, writer[w].at \in AtWork,
         NEW type \in {"llm_request", "llm_response", "llm_error", "tool_call"}
  PROVE  Due(Record(type, w)) /\ Record(type, w).file = writer[w].file
PROOF
  <1>1. /\ Record(type, w) \in Piece /\ IsRecord(Record(type, w))
        /\ Record(type, w).type = type /\ Record(type, w).run = run
    BY RecordType
  <1>2. Record(type, w).file = writer[w].file
    BY DEF Record
  <1>3. open => writer[w].file \in seen
    BY DEF AccountInv, Tallied
  <1> QED
    BY <1>1, <1>2, <1>3 DEF Due

LEMMA RecordKeepsAccounts ==
  ASSUME TypeOK, TypeOK', LogInv, AccountInv, NEW w \in Writers, NEW to \in Places, Goes(w, to),
         NEW type \in {"llm_request", "llm_response", "llm_error", "tool_call"},
         type = "llm_request" => writer[w].at = "numbered",
         type = "llm_error" <=> writer[w].at = "failing",
         writer[w].at \in AtWork, to # "failing",
         Commit(Record(type, w)), UNCHANGED <<run, seen, failures>>
  PROVE  AccountInv'
PROOF
  <1> DEFINE rec == Record(type, w)
  <1>1. NextRecord(rec) /\ rec.type = type /\ Due(rec) /\ rec.file = writer[w].file
    BY RecordIsNext, RecordType, RecordIsDue
  <1>2. Commit(rec)
    OBVIOUS
  <1> HIDE DEF rec
  <1>3. /\ writer'[w].at = to /\ (to # "off" => writer'[w].file = writer[w].file)
        /\ \A v \in Writers : v # w => writer'[v] = writer[v]
    BY GoesFacts, GoesOn
  <1>4. /\ ~open' => buffer' = << >>
        /\ open' => open /\ Log' = Log \o <<rec, Newline>> /\ disk' = Log'
    BY <1>1, <1>2, CommitGrows
  <1>5. Log' = disk'
    <2>1. disk' \o << >> = disk'
      BY ConcatEmptySeq DEF TypeOK
    <2> QED
      BY <1>4, <2>1 DEF Log
  <1>6. Accounts(disk')
    <2>1. \/ disk' = disk
          \/ open /\ disk' = disk \o (buffer \o <<rec, Newline>>)
          \/ open /\ \E part \in CutShort(buffer \o <<rec, Newline>>) : disk' = disk \o part
      BY <1>2 DEF Commit
    <2> QED
      BY <1>1, <2>1, WriteAccounts
  <1>7. ASSUME open' PROVE Tallied'
    <2>1. /\ open /\ Log' = Log \o <<rec, Newline>> /\ Log \in Seq(Piece) /\ Log' \in Seq(Piece)
          /\ rec \in Piece /\ IsRecord(rec) /\ rec.run = run
      BY <1>1, <1>4, <1>5, <1>7, LogType DEF Due, TypeOK
    <2>2. Tallied
      BY <2>1 DEF AccountInv
    <2>3. /\ rec.type # "llm_error" => ErrorsIn(Log', run) = ErrorsIn(Log, run)
          /\ rec.type = "llm_error" => ErrorsIn(Log', run) = ErrorsIn(Log, run) \union {Len(Log) + 1}
          /\ FilesIn(Log', run) \subseteq FilesIn(Log, run) \union {rec.file}
      BY <2>1, CountsGrow
    <2>4. writer[w].file \in seen
      BY <2>2 DEF Tallied
    <2>5. FilesIn(Log', run) \subseteq seen
      BY <1>1, <2>2, <2>3, <2>4 DEF Tallied
    <2>6. \A v \in Writers : writer'[v].at \in AtWork => writer'[v].file \in seen
      BY <1>3, <2>2, <2>4 DEF Tallied, AtWork
    <2>7. /\ Cardinality(ErrorsIn(Log, run)) \in Nat /\ IsFiniteSet(ErrorsIn(Log, run))
          /\ Cardinality(Failing) \in Nat /\ IsFiniteSet(Failing)
          /\ Cardinality(ErrorsIn(Log, run)) + Cardinality(Failing) <= failures
      BY <2>1, <2>2, AccountsFinite, FailingFinite DEF Tallied
    <2>8. CASE type = "llm_error"
      <3>1. w \in Failing /\ Failing' = Failing \ {w}
        BY <1>3, <2>8 DEF Failing
      <3>2. Cardinality(Failing') = Cardinality(Failing) - 1
        BY <2>7, <3>1, FS_RemoveElement
      <3>3. ErrorsIn(Log', run) = ErrorsIn(Log, run) \union {Len(Log) + 1}
        BY <1>1, <2>3, <2>8
      <3>4. Cardinality(ErrorsIn(Log', run)) \in
              {Cardinality(ErrorsIn(Log, run)), Cardinality(ErrorsIn(Log, run)) + 1}
        <4> DEFINE old == ErrorsIn(Log, run)
                   more == old \union {Len(Log) + 1}
        <4>1. IsFiniteSet(old)
          BY <2>7
        <4> HIDE DEF old
        <4>2. Cardinality(more) \in {Cardinality(old), Cardinality(old) + 1}
          BY <4>1, FS_AddElement
        <4>3. ErrorsIn(Log', run) = more
          BY <3>3 DEF old
        <4> QED
          BY <4>2, <4>3 DEF old
      <3>5. Cardinality(ErrorsIn(Log', run)) + Cardinality(Failing') <= failures
        <4>1. failures \in Nat
          BY DEF TypeOK
        <4> DEFINE written == Cardinality(ErrorsIn(Log, run))
                   now == Cardinality(ErrorsIn(Log', run))
                   waiting == Cardinality(Failing)
                   left == Cardinality(Failing')
        <4>2. /\ written \in Nat /\ waiting \in Nat /\ written + waiting <= failures
              /\ left = waiting - 1 /\ now \in {written, written + 1}
          BY <2>7, <3>2, <3>4
        <4> HIDE DEF written, now, waiting, left
        <4>3. now + left <= failures
          BY <4>1, <4>2
        <4> QED
          BY <4>3 DEF now, left
      <3> QED
        BY <2>5, <2>6, <3>5 DEF Tallied
    <2>9. CASE type # "llm_error"
      <3>1. Failing' = Failing
        BY <1>3, <2>9 DEF Failing
      <3>2. ErrorsIn(Log', run) = ErrorsIn(Log, run)
        BY <1>1, <2>3, <2>9
      <3> QED
        BY <2>5, <2>6, <2>7, <3>1, <3>2 DEF Tallied
    <2> QED
      BY <2>8, <2>9
  <1> QED
    BY <1>5, <1>6, <1>7 DEF AccountInv

LEMMA EndIsDue ==
  ASSUME TypeOK
  PROVE  Due(SessionEnd)
PROOF
  <1>1. /\ SessionEnd \in Piece /\ IsRecord(SessionEnd)
        /\ SessionEnd.type = "session_end" /\ SessionEnd.run = run
    BY EndType
  <1>2. /\ SessionEnd.file = 0 /\ SessionEnd.errors = failures
        /\ SessionEnd.files = Cardinality(seen)
    BY DEF SessionEnd
  <1> QED
    BY <1>1, <1>2 DEF Due

\* The file is closed, or its process gone.
LEMMA ClosedAccounts ==
  ASSUME TypeOK', Accounts(disk'), open' = FALSE, buffer' = << >>
  PROVE  AccountInv'
PROOF
  <1>1. disk' \o << >> = disk'
    BY ConcatEmptySeq DEF TypeOK
  <1> QED
    BY <1>1 DEF AccountInv, Log

LEMMA NewAccounts ==
  ASSUME TypeOK, TypeOK', LogInv, AccountInv, New
  PROVE  AccountInv'
PROOF
  <1>1. run < MaxRuns /\ run \in Nat
    BY BoundsAssumption DEF New, TypeOK
  <1>2. /\ SessionStart \in Piece /\ IsRecord(SessionStart)
        /\ SessionStart.type = "session_start" /\ SessionStart.run = run + 1
    BY <1>1, StartType
  <1>3. disk \in Seq(Piece) /\ Known(disk, run) /\ Accounts(disk)
    BY DiskIsGood, DiskAccounts DEF TypeOK, Good
  <1>4. run' = run + 1 /\ Log' = disk \o <<SessionStart, Newline>> /\ failures' \in Nat
    BY DEF New, Log, TypeOK
  <1>5. /\ WholeIn(Log') = WholeIn(disk) \union {Len(disk) + 1}
        /\ \A i \in WholeIn(disk) : Log'[i] = disk[i]
        /\ Log'[Len(disk) + 1] = SessionStart
    BY <1>2, <1>3, <1>4, LineAdded
  <1>6. SessionStart.file \notin Files
    BY DEF SessionStart, Files
  <1>7. /\ \A r : r # run + 1 =>
             ErrorsIn(Log', r) = ErrorsIn(disk, r) /\ FilesIn(Log', r) = FilesIn(disk, r)
        /\ ErrorsIn(Log', run + 1) = ErrorsIn(disk, run + 1)
        /\ FilesIn(Log', run + 1) = FilesIn(disk, run + 1)
    BY <1>2, <1>3, <1>4, <1>6, CountsGrow
  <1>8. \A i \in WholeIn(disk) : disk[i].run # run + 1
    BY <1>1, <1>3 DEF Known
  <1>9. ErrorsIn(disk, run + 1) = {} /\ FilesIn(disk, run + 1) = {}
    BY <1>8 DEF ErrorsIn, FilesIn
  <1>10. \A w \in Writers : writer'[w].at \in {"off", "idle"}
    BY MainIsWriter DEF New, TypeOK, LogInv, OffTogether
  <1>11. Failing' = {} /\ \A w \in Writers : writer'[w].at \notin AtWork
    BY <1>10 DEF Failing, AtWork
  <1>12. Accounts(Log')
    BY <1>2, <1>3, <1>5, <1>7, <1>8 DEF Accounts
  <1>13. Tallied'
    <2>1. ErrorsIn(Log, run)' = {} /\ FilesIn(Log, run)' = {}
      BY <1>4, <1>7, <1>9
    <2>2. Cardinality({}) = 0
      BY FS_EmptySet
    <2>3. 0 + 0 <= failures'
      BY <1>4
    <2>4. Cardinality(ErrorsIn(Log, run)') = 0 /\ Cardinality(Failing') = 0
      BY <1>11, <2>1, <2>2
    <2>5. Cardinality(ErrorsIn(Log, run)') + Cardinality(Failing') <= failures'
      BY <2>3, <2>4
    <2> QED
      BY <1>11, <2>1, <2>5 DEF Tallied
  <1> QED
    BY <1>12, <1>13 DEF AccountInv

LEMMA AccountsNext == TypeOK /\ TypeOK' /\ LogInv /\ AccountInv /\ [Next]_vars => AccountInv'
PROOF
  <1> SUFFICES ASSUME TypeOK, TypeOK', LogInv, AccountInv, [Next]_vars
               PROVE  AccountInv'
    OBVIOUS
  <1> USE DEF sessionVars, countVars
  <1>0. Main \in Writers /\ \A j \in Jobs : j \in Writers
    BY MainIsWriter
  <1>1. CASE New
    BY <1>1, NewAccounts
  <1>2. CASE Close
    <2>1. Accounts(disk')
      BY <1>2, EndIsDue, WriteAccounts DEF Close
    <2> QED
      BY <1>2, <2>1, ClosedAccounts DEF Close
  <1>3. CASE Exit
    BY <1>3, DiskAccounts, ClosedAccounts DEF Exit, Dies
  <1>4. CASE Kill
    <2>1. CASE UNCHANGED disk
      BY <1>4, <2>1, DiskAccounts, ClosedAccounts DEF Kill, Dies
    <2>2. ASSUME open, NEW w \in Writers, NEW rec \in Writing(w),
                 NEW part \in CutShort(buffer \o <<rec, Newline>>), disk' = disk \o part
          PROVE  AccountInv'
      <3>1. Due(rec)
        <4>1. CASE writer[w].at = "numbered"
          BY <2>2, <4>1, RecordIsDue DEF Writing, AtWork
        <4>2. CASE writer[w].at = "asked"
          BY <2>2, <4>2, RecordIsDue DEF Writing, AtWork
        <4>3. CASE writer[w].at = "failing"
          BY <2>2, <4>3, RecordIsDue DEF Writing, AtWork
        <4>4. CASE writer[w].at = "answered"
          BY <2>2, <4>4, RecordIsDue DEF Writing, AtWork
        <4>5. CASE writer[w].at = "closing"
          BY <2>2, <4>5, EndIsDue DEF Writing
        <4> QED
          BY <2>2, <4>1, <4>2, <4>3, <4>4, <4>5 DEF Writing
      <3>2. Accounts(disk')
        BY <2>2, <3>1, WriteAccounts
      <3> QED
        BY <1>4, <3>2, ClosedAccounts DEF Kill, Dies
    <2> QED
      BY <1>4, <2>1, <2>2 DEF Kill
  <1>5. CASE MainRequest
    <2>1. writer[Main].file \in Files /\ "main_task" \in Tasks
      BY <1>0 DEF TypeOK, Writer, Tasks
    <2> QED
      BY <1>0, <1>5, <2>1, AsksAccounts DEF MainRequest
  <1>6. CASE InlineCompression
    <2>1. writer[Main].file \in Files /\ "memory_compression_task" \in Tasks
      BY <1>0 DEF TypeOK, Writer, Tasks
    <2> QED
      BY <1>0, <1>6, <2>1, AsksAccounts DEF InlineCompression
  <1>7. CASE ToolCall
    BY <1>0, <1>7, RecordKeepsAccounts DEF ToolCall, Places, AtWork
  <1>8. CASE TurnEnds
    BY <1>0, <1>8, QuietGoesAccounts DEF TurnEnds, Places, AtWork
  <1>9. CASE ConversationEnds
    <2>1. \A v \in Writers : v # Main => writer'[v] = writer[v]
      BY <1>9 DEF ConversationEnds, TypeOK
    <2>2. writer[Main].at = "idle" /\ writer'[Main].at \in {"idle", "waiting"}
      BY <1>0, <1>9 DEF ConversationEnds, TypeOK, Writer
    <2>3. Failing' = Failing
      BY <2>1, <2>2 DEF Failing
    <2>4. ASSUME open PROVE \A v \in Writers : writer'[v].at \in AtWork => writer'[v].file \in seen
      BY <2>1, <2>2, <2>4 DEF AccountInv, Tallied, AtWork
    <2>5. UNCHANGED <<disk, run, open, buffer, seen, failures>>
      BY <1>9 DEF ConversationEnds
    <2>6. ASSUME ~open PROVE AccountInv'
      BY <2>5, <2>6 DEF AccountInv, Log
    <2> QED
      BY <2>3, <2>4, <2>5, <2>6, QuietKeepsAccounts
  <1>10. CASE ConversationFails
    BY <1>0, <1>10, QuietGoesAccounts DEF ConversationFails, Places, AtWork
  <1>11. CASE WaitBackground
    BY <1>0, <1>11, QuietGoesAccounts DEF WaitBackground, Places, AtWork
  <1>12. ASSUME NEW j \in Jobs, StartJob(j) PROVE AccountInv'
    <2>1. /\ j \in Writers /\ writer[j].at = "off" /\ writer'[j].at = "idle"
          /\ \A v \in Writers : v # j => writer'[v] = writer[v]
      BY <1>0, <1>12 DEF StartJob, TypeOK
    <2>2. Failing' = Failing
      BY <2>1 DEF Failing
    <2>3. ASSUME open PROVE \A v \in Writers : writer'[v].at \in AtWork => writer'[v].file \in seen
      BY <2>1, <2>3 DEF AccountInv, Tallied, AtWork
    <2>4. UNCHANGED <<disk, run, open, buffer, seen, failures>>
      BY <1>12 DEF StartJob
    <2>5. ASSUME ~open PROVE AccountInv'
      BY <2>4, <2>5 DEF AccountInv, Log
    <2> QED
      BY <2>2, <2>3, <2>4, <2>5, QuietKeepsAccounts
  <1>13. ASSUME NEW j \in Jobs, JobRequest(j) PROVE AccountInv'
    <2>1. j \in Writers
      BY <1>0
    <2>2. writer[j].file \in Files /\ "memory_compression_task" \in Tasks
      BY <2>1 DEF TypeOK, Writer, Tasks
    <2> QED
      BY <1>13, <2>1, <2>2, AsksAccounts DEF JobRequest
  <1>14. ASSUME NEW w \in Writers, AppendTaskRecord(w) PROVE AccountInv'
    BY <1>14, RecordKeepsAccounts DEF AppendTaskRecord, Places, AtWork
  <1>15. ASSUME NEW w \in Writers, SetResponse(w) PROVE AccountInv'
    <2>1. AfterAnswer(w) \in Places /\ AfterAnswer(w) # "failing"
      BY DEF AfterAnswer, Places
    <2> QED
      BY <1>15, <2>1, RecordKeepsAccounts DEF SetResponse, AtWork
  <1>16. ASSUME NEW w \in Writers, CountFailure(w) PROVE AccountInv'
    BY <1>16, CountsFailure
  <1>17. ASSUME NEW w \in Writers, SetError(w) PROVE AccountInv'
    <2>1. PICK to \in AfterError(w) : Goes(w, to)
      BY <1>17 DEF SetError
    <2>2. to \in Places /\ to # "failing"
      BY DEF AfterError, Places
    <2> QED
      BY <1>17, <2>1, <2>2, RecordKeepsAccounts DEF SetError, AtWork
  <1>18. CASE UNCHANGED vars
    BY <1>18 DEF vars, AccountInv, Tallied, Failing, Log
  <1> QED
    BY <1>1, <1>2, <1>3, <1>4, <1>5, <1>6, <1>7, <1>8, <1>9, <1>10, <1>11, <1>12,
       <1>13, <1>14, <1>15, <1>16, <1>17, <1>18 DEF Next

\* session_end accounts for every error and every file of its run that the
\* log shows, those of compressions included that outlive the conversation.
THEOREM EndAccountsForAll == Spec => []EndCountsAll
PROOF
  <1>1. Init => AccountInv
    <2> SUFFICES ASSUME Init PROVE AccountInv
      OBVIOUS
    <2>1. ~open /\ disk = << >> /\ buffer = << >>
      BY DEF Init
    <2>2. Log = << >>
      BY <2>1 DEF Log
    <2>3. DOMAIN << >> = {}
      OBVIOUS
    <2>4. WholeIn(Log) = {}
      BY <2>2, <2>3 DEF WholeIn
    <2> QED
      BY <2>1, <2>4 DEF AccountInv, Accounts
  <1>2. TypeOK /\ LogInv /\ AccountInv => EndCountsAll
    <2> SUFFICES ASSUME TypeOK, AccountInv, NEW i \in Whole, disk[i].type = "session_end"
                 PROVE  LET others == WholeOf(disk[i].run) IN
                          /\ Cardinality({k \in others : disk[k].type = "llm_error"}) <= disk[i].errors
                          /\ Cardinality({disk[k].file : k \in others} \ {0}) <= disk[i].files
      BY DEF EndCountsAll
    <2> DEFINE r == disk[i].run
               errors == {k \in WholeOf(r) : disk[k].type = "llm_error"}
               files == {disk[k].file : k \in WholeOf(r)} \ {0}
    <2>1. disk \in Seq(Piece) /\ Accounts(disk)
      BY DiskAccounts DEF TypeOK
    <2>2. WholeIn(disk) = Whole
      BY DEF Whole, WholeIn
    <2>3. Cardinality(ErrorsIn(disk, r)) <= disk[i].errors /\ Cardinality(FilesIn(disk, r)) <= disk[i].files
      BY <2>1, <2>2 DEF Accounts
    <2>4. disk[i].errors \in Nat /\ disk[i].files \in Nat
      <3>1. i \in 1..Len(disk)
        BY <2>1, <2>2, PositionsAreInt
      <3>2. disk[i] \in Piece
        BY <2>1, <3>1
      <3> QED
        BY <3>2, PieceFields
    <2>5. errors = ErrorsIn(disk, r)
      BY <2>2 DEF ErrorsIn, WholeOf
    <2>6. files \subseteq FilesIn(disk, r)
      <3> SUFFICES ASSUME NEW k \in WholeOf(r), disk[k].file # 0 PROVE disk[k].file \in FilesIn(disk, r)
        OBVIOUS
      <3>1. k \in WholeIn(disk) /\ disk[k].run = r /\ k \in 1..Len(disk)
        BY <2>1, <2>2, PositionsAreInt DEF WholeOf
      <3>2. disk[k] \in Piece
        BY <2>1, <3>1
      <3>4. disk[k].file \in 0..NumFiles
        BY <3>2, PieceFields
      <3>3. disk[k].file \in Files
        BY <3>4, BoundsAssumption DEF Files
      <3> QED
        BY <3>1, <3>3 DEF FilesIn
    <2>7. IsFiniteSet(FilesIn(disk, r)) /\ Cardinality(FilesIn(disk, r)) \in Nat
      BY <2>1, AccountsFinite
    <2> HIDE DEF files, errors
    <2>8. IsFiniteSet(files) /\ Cardinality(files) <= Cardinality(FilesIn(disk, r))
      BY <2>6, <2>7, FS_Subset
    <2>9. Cardinality(files) \in Nat
      BY <2>8, FS_CardinalityType
    <2>10. Cardinality(errors) <= disk[i].errors /\ Cardinality(files) <= disk[i].files
      BY <2>3, <2>4, <2>5, <2>7, <2>8, <2>9
    <2> QED
      BY <2>10 DEF errors, files
  <1>3. Init => TypeOK /\ LogInv
    BY TypeInit, LogInit
  <1>4. TypeOK /\ LogInv /\ AccountInv /\ [Next]_vars => (TypeOK /\ LogInv /\ AccountInv)'
    BY TypeNext, LogNext, AccountsNext
  <1> QED
    BY <1>1, <1>2, <1>3, <1>4, PTL DEF Spec
=============================================================================
