--------------------------- MODULE Endpoint_proofs ---------------------------
(***************************************************************************)
(* Theorems about Endpoint, for every set of configuration files and       *)
(* environments, every limit on a timeout and every duration of a          *)
(* credential command:                                                     *)
(*                                                                         *)
(*   - both tiers that are returned pair a host with a credential of the   *)
(*     same source (EndpointsAreOfOneSource);                              *)
(*   - a credential command is run at most once for a tier, and the key it *)
(*     answers with stays in use, but for the entry without a host and a   *)
(*     cheap tier that cannot be resolved (PromptsAreNotWasted).           *)
(*                                                                         *)
(* Named and PlainUrls say which worlds the first is about: the ones       *)
(* outside are named where Endpoint defines the two.  The second is about  *)
(* every world.                                                            *)
(***************************************************************************)
EXTENDS Endpoint, SequenceTheorems, TLAPS

-----------------------------------------------------------------------------
(* The registry *)

Words == STRING \cup {"v1", "messages", "responses", "chat", "completions"}

\* A host and a path, a plain one when all are.
Address(u) == u \in [site : {u.site}, path : Seq(Words)] /\ (PlainUrls => PlainPath(u.path))

Names == {"anthropic", "bedrock", "openai", "openai-responses", "deepseek"}

PresetOK(p) ==
  /\ p.name \in Names /\ ValidProtocol(p.protocol) /\ Address(p.url)
  /\ p.models[1] # "" /\ p.models[1] # "[1m]"
  /\ p.name = "bedrock" =>
       p.protocol = Bedrock /\ p.ambient = TRUE /\ p.key = "" /\ p.url = NoUrl
  /\ p.name # "bedrock" =>
       /\ p.protocol # Bedrock /\ p.ambient = FALSE /\ p.key # ""
       /\ p.url.site \in {"anthropic", "openai", "deepseek"}

\* The addresses of the presets are plain.
LEMMA PresetUrls ==
  \A site : Address([site |-> site, path |-> << >>]) /\ Address([site |-> site, path |-> <<"v1">>])
PROOF
  <1>1. << >> \in Seq(Words) /\ DOMAIN << >> = {}
    OBVIOUS
  <1>2. <<"v1">> \in Seq(Words) /\ DOMAIN <<"v1">> = 1..1 /\ <<"v1">>[1] = "v1"
    BY DEF Words
  <1>3. PlainPath(<< >>)
    BY <1>1 DEF PlainPath
  <1>4. PlainPath(<<"v1">>)
    <2>1. \A i \in DOMAIN <<"v1">> : <<"v1">>[i] # "messages"
      BY <1>2
    <2> QED BY <2>1 DEF PlainPath
  <1> TAKE site
  <1>5. Address([site |-> site, path |-> << >>])
    BY <1>1, <1>3 DEF Address
  <1>6. Address([site |-> site, path |-> <<"v1">>])
    BY <1>2, <1>4 DEF Address
  <1> QED BY <1>5, <1>6

\* The registry has five.
LEMMA FivePresets == DOMAIN Registry = 1..5
PROOF BY DEF Registry

\* What the five presets have in common.
LEMMA PresetsAreOK == \A i \in DOMAIN Registry : PresetOK(Registry[i])
PROOF
  <1>1. DOMAIN Registry = 1..5
    BY FivePresets
  <1>2. PresetOK(Registry[1])
    <2>1. /\ Registry[1].name = "anthropic" /\ Registry[1].protocol = Anthropic
          /\ Registry[1].key = "ANTHROPIC_API_KEY" /\ Registry[1].ambient = FALSE
          /\ Registry[1].models[1] = "opus" /\ Registry[1].url = [site |-> "anthropic", path |-> << >>]
      BY DEF Registry
    <2>2. Address(Registry[1].url)
      BY <2>1, PresetUrls DEF NoUrl
    <2> QED
      BY <2>1, <2>2 DEF PresetOK, Names, ValidProtocol, Anthropic, OpenAI, Responses, Bedrock, NoUrl
  <1>3. PresetOK(Registry[2])
    <2>1. /\ Registry[2].name = "bedrock" /\ Registry[2].protocol = Bedrock
          /\ Registry[2].key = "" /\ Registry[2].ambient = TRUE
          /\ Registry[2].models[1] = "us.opus" /\ Registry[2].url = NoUrl
      BY DEF Registry
    <2>2. Address(Registry[2].url)
      BY <2>1, PresetUrls DEF NoUrl
    <2> QED
      BY <2>1, <2>2 DEF PresetOK, Names, ValidProtocol, Anthropic, OpenAI, Responses, Bedrock, NoUrl
  <1>4. PresetOK(Registry[3])
    <2>1. /\ Registry[3].name = "openai" /\ Registry[3].protocol = OpenAI
          /\ Registry[3].key = "OPENAI_API_KEY" /\ Registry[3].ambient = FALSE
          /\ Registry[3].models[1] = "gpt" /\ Registry[3].url = [site |-> "openai", path |-> <<"v1">>]
      BY DEF Registry
    <2>2. Address(Registry[3].url)
      BY <2>1, PresetUrls DEF NoUrl
    <2> QED
      BY <2>1, <2>2 DEF PresetOK, Names, ValidProtocol, Anthropic, OpenAI, Responses, Bedrock, NoUrl
  <1>5. PresetOK(Registry[4])
    <2>1. /\ Registry[4].name = "openai-responses" /\ Registry[4].protocol = Responses
          /\ Registry[4].key = "OPENAI_RESPONSES_API_KEY" /\ Registry[4].ambient = FALSE
          /\ Registry[4].models[1] = "sol" /\ Registry[4].url = [site |-> "openai", path |-> <<"v1">>]
      BY DEF Registry
    <2>2. Address(Registry[4].url)
      BY <2>1, PresetUrls DEF NoUrl
    <2> QED
      BY <2>1, <2>2 DEF PresetOK, Names, ValidProtocol, Anthropic, OpenAI, Responses, Bedrock, NoUrl
  <1>6. PresetOK(Registry[5])
    <2>1. /\ Registry[5].name = "deepseek" /\ Registry[5].protocol = OpenAI
          /\ Registry[5].key = "DEEPSEEK_API_KEY" /\ Registry[5].ambient = FALSE
          /\ Registry[5].models[1] = "chat" /\ Registry[5].url = [site |-> "deepseek", path |-> << >>]
      BY DEF Registry
    <2>2. Address(Registry[5].url)
      BY <2>1, PresetUrls DEF NoUrl
    <2> QED
      BY <2>1, <2>2 DEF PresetOK, Names, ValidProtocol, Anthropic, OpenAI, Responses, Bedrock, NoUrl
  <1>7. \A i \in 1..5 : i = 1 \/ i = 2 \/ i = 3 \/ i = 4 \/ i = 5
    OBVIOUS
  <1> QED BY <1>1, <1>2, <1>3, <1>4, <1>5, <1>6, <1>7

\* The registry knows the five names and no other.
LEMMA PresetNames == \A name : IsPreset(name) <=> name \in Names
PROOF
  <1>1. DOMAIN Registry = 1..5
    BY DEF Registry
  <1>2. /\ Registry[1].name = "anthropic" /\ Registry[2].name = "bedrock"
        /\ Registry[3].name = "openai" /\ Registry[4].name = "openai-responses"
        /\ Registry[5].name = "deepseek"
    BY DEF Registry
  <1>3. ASSUME NEW name, IsPreset(name) PROVE name \in Names
    BY <1>3, PresetsAreOK DEF IsPreset, ToSet, PresetOK
  <1>4. ASSUME NEW name, name \in Names PROVE IsPreset(name)
    BY <1>1, <1>2, <1>4 DEF Names, IsPreset, ToSet
  <1> QED BY <1>3, <1>4

\* LookupProvider answers with the preset of that name.
LEMMA LookupIs ==
  ASSUME NEW name, IsPreset(name)
  PROVE  /\ LookupProvider(name) \in ToSet(Registry)
         /\ LookupProvider(name).name = name
         /\ PresetOK(LookupProvider(name))
PROOF
  <1>1. /\ LookupProvider(name) \in ToSet(Registry)
        /\ LookupProvider(name).name = name
    BY DEF IsPreset, LookupProvider
  <1> QED BY <1>1, PresetsAreOK DEF ToSet

-----------------------------------------------------------------------------
(* Paths *)

\* A path that ends in v1 and messages has that suffix.
LEMMA EndsInMessages ==
  ASSUME NEW p \in Seq(Words), Len(p) >= 2, p[Len(p) - 1] = "v1", p[Len(p)] = "messages"
  PROVE  IsSuffix(Messages, p)
PROOF
  <1>0. Len(p) \in Nat /\ Len(Messages) = 2 /\ Messages[1] = "v1" /\ Messages[2] = "messages"
    BY DEF Messages
  <1> DEFINE rm == Reverse(Messages)
             rp == Reverse(p)
  <1>1. rm = [i \in 1..2 |-> Messages[(2 - i) + 1]]
    BY <1>0 DEF Reverse
  <1>2. rp = [i \in 1..Len(p) |-> p[(Len(p) - i) + 1]]
    BY DEF Reverse
  <1>3. rm \in Seq(Words) /\ Len(rm) = 2 /\ rm[1] = "messages" /\ rm[2] = "v1"
    <2>1. \A i \in 1..2 : (2 - i) + 1 \in 1..2
      OBVIOUS
    <2>2. \A i \in 1..2 : Messages[i] \in Words
      BY DEF Messages, Words
    <2> HIDE DEF rm
    <2>3. rm[1] = Messages[2] /\ rm[2] = Messages[1]
      BY <1>1
    <2> QED BY <1>0, <1>1, <2>1, <2>2, <2>3
  <1>4. rp \in Seq(Words) /\ Len(rp) = Len(p) /\ rp[1] = "messages" /\ rp[2] = "v1"
    <2>1. \A i \in 1..Len(p) : (Len(p) - i) + 1 \in 1..Len(p)
      BY <1>0
    <2>2. \A i \in 1..Len(p) : p[i] \in Words
      OBVIOUS
    <2> HIDE DEF rp
    <2>3. (Len(p) - 1) + 1 = Len(p) /\ (Len(p) - 2) + 1 = Len(p) - 1
      BY <1>0
    <2>4. rp[1] = p[Len(p)] /\ rp[2] = p[Len(p) - 1]
      BY <1>0, <1>2, <2>3
    <2>5. rp \in Seq(Words) /\ Len(rp) = Len(p)
      BY <1>0, <1>2, <2>1, <2>2
    <2> QED BY <2>4, <2>5
  <1> HIDE DEF rm, rp
  <1>5. SubSeq(rm, 1, 2) = SubSeq(rp, 1, 2)
    <2>1. /\ SubSeq(rm, 1, 2) \in Seq(Words) /\ Len(SubSeq(rm, 1, 2)) = 2
          /\ \A i \in 1..2 : SubSeq(rm, 1, 2)[i] = rm[i]
      BY <1>3
    <2>2. /\ SubSeq(rp, 1, 2) \in Seq(Words) /\ Len(SubSeq(rp, 1, 2)) = 2
          /\ \A i \in 1..2 : SubSeq(rp, 1, 2)[i] = rp[i]
      BY <1>0, <1>4
    <2>3. \A i \in 1..2 : rm[i] = rp[i]
      BY <1>3, <1>4
    <2> QED BY <2>1, <2>2, <2>3, SeqEqual
  <1>6. IsPrefix(rm, rp)
    BY <1>3, <1>4, <1>5 DEF IsPrefix
  <1> QED BY <1>6 DEF IsSuffix, rm, rp

\* What the path of a request may be: the word occurs once.
Once(path) == \A i, j \in DOMAIN path : path[i] = "messages" /\ path[j] = "messages" => i = j

\* A plain path names its messages once.
LEMMA PlainIsOnce ==
  ASSUME NEW p, PlainPath(p) PROVE Once(p)
PROOF BY DEF PlainPath, Once

\* A plain path that does not end in v1 and messages has no messages.
LEMMA PlainHasNone ==
  ASSUME NEW p \in Seq(Words), PlainPath(p), ~IsSuffix(Messages, p)
  PROVE  \A i \in DOMAIN p : p[i] # "messages"
PROOF
  <1> SUFFICES ASSUME NEW i \in DOMAIN p, p[i] = "messages" PROVE FALSE
    OBVIOUS
  <1>1. i = Len(p) /\ i > 1 /\ p[i - 1] = "v1" /\ Len(p) \in Nat
    BY DEF PlainPath
  <1>2. Len(p) >= 2 /\ p[Len(p) - 1] = "v1" /\ p[Len(p)] = "messages"
    BY <1>1
  <1> QED BY <1>2, EndsInMessages

\* Appending a short tail to a path without the word.
LEMMA AppendedIsOnce ==
  ASSUME NEW p \in Seq(Words), NEW t \in Seq(Words), \A i \in DOMAIN p : p[i] # "messages", Once(t)
  PROVE  Once(p \o t)
PROOF
  <1>1. Len(p) \in Nat /\ Len(t) \in Nat /\ DOMAIN p = 1..Len(p) /\ DOMAIN t = 1..Len(t)
    OBVIOUS
  <1>2. /\ p \o t \in Seq(Words) /\ Len(p \o t) = Len(p) + Len(t)
        /\ \A i \in 1..(Len(p) + Len(t)) :
             (p \o t)[i] = IF i <= Len(p) THEN p[i] ELSE t[i - Len(p)]
    BY ConcatProperties
  <1> DEFINE q == p \o t
  <1> HIDE DEF q
  <1>3. ASSUME NEW i \in DOMAIN q, q[i] = "messages"
        PROVE  i - Len(p) \in DOMAIN t /\ t[i - Len(p)] = "messages" /\ i \in Int
    <2>1. i \in 1..(Len(p) + Len(t)) /\ q[i] = IF i <= Len(p) THEN p[i] ELSE t[i - Len(p)]
      BY <1>2 DEF q
    <2>2. ~(i <= Len(p))
      <3> SUFFICES ASSUME i <= Len(p) PROVE FALSE
        OBVIOUS
      <3>1. i \in DOMAIN p /\ q[i] = p[i]
        BY <1>1, <2>1
      <3> QED BY <1>3, <3>1
    <2>3. q[i] = t[i - Len(p)]
      BY <2>1, <2>2
    <2>4. i - Len(p) \in 1..Len(t)
      BY <1>1, <2>1, <2>2
    <2> QED BY <1>1, <1>3, <2>1, <2>3, <2>4
  <1>4. Once(q)
    <2> SUFFICES ASSUME NEW i \in DOMAIN q, NEW j \in DOMAIN q, q[i] = "messages", q[j] = "messages"
                 PROVE  i = j
      BY DEF Once
    <2>1. /\ i - Len(p) \in DOMAIN t /\ t[i - Len(p)] = "messages" /\ i \in Int
          /\ j - Len(p) \in DOMAIN t /\ t[j - Len(p)] = "messages" /\ j \in Int
      BY <1>3
    <2>2. i - Len(p) = j - Len(p)
      BY <2>1 DEF Once
    <2> QED BY <1>1, <2>1, <2>2
  <1> QED BY <1>4 DEF q

\* Appending a tail without the word.
LEMMA AddedIsOnce ==
  ASSUME NEW p \in Seq(Words), NEW t \in Seq(Words), Once(p), \A i \in DOMAIN t : t[i] # "messages"
  PROVE  Once(p \o t)
PROOF
  <1>1. Len(p) \in Nat /\ Len(t) \in Nat /\ DOMAIN p = 1..Len(p) /\ DOMAIN t = 1..Len(t)
    OBVIOUS
  <1>2. /\ p \o t \in Seq(Words) /\ Len(p \o t) = Len(p) + Len(t)
        /\ \A i \in 1..(Len(p) + Len(t)) :
             (p \o t)[i] = IF i <= Len(p) THEN p[i] ELSE t[i - Len(p)]
    BY ConcatProperties
  <1> DEFINE q == p \o t
  <1> HIDE DEF q
  <1>3. ASSUME NEW i \in DOMAIN q, q[i] = "messages"
        PROVE  i \in DOMAIN p /\ p[i] = "messages"
    <2>1. i \in 1..(Len(p) + Len(t)) /\ q[i] = IF i <= Len(p) THEN p[i] ELSE t[i - Len(p)]
      BY <1>2 DEF q
    <2>2. i <= Len(p)
      <3> SUFFICES ASSUME ~(i <= Len(p)) PROVE FALSE
        OBVIOUS
      <3>1. i - Len(p) \in DOMAIN t /\ q[i] = t[i - Len(p)]
        BY <1>1, <2>1
      <3> QED BY <1>3, <3>1
    <2> QED BY <1>1, <1>3, <2>1, <2>2
  <1>4. Once(q)
    BY <1>3 DEF Once
  <1> QED BY <1>4 DEF q

\* What a client appends names messages at most once, and only for Anthropic.
LEMMA TailsAreOnce ==
  \A protocol : /\ Endpath(protocol) \in Seq(Words) /\ Once(Endpath(protocol))
                /\ protocol # Anthropic =>
                     \A i \in DOMAIN Endpath(protocol) : Endpath(protocol)[i] # "messages"
PROOF
  <1>1. /\ Messages \in Seq(Words) /\ DOMAIN Messages = 1..2
        /\ Messages[1] = "v1" /\ Messages[2] = "messages"
    BY DEF Messages, Words
  <1>2. /\ <<"responses">> \in Seq(Words) /\ DOMAIN <<"responses">> = 1..1
        /\ <<"responses">>[1] = "responses"
    BY DEF Words
  <1>3. /\ <<"chat", "completions">> \in Seq(Words) /\ DOMAIN <<"chat", "completions">> = 1..2
        /\ <<"chat", "completions">>[1] = "chat" /\ <<"chat", "completions">>[2] = "completions"
    BY DEF Words
  <1>4. \A i \in 1..2 : i = 1 \/ i = 2
    OBVIOUS
  <1>5. \A i \in 1..1 : i = 1
    OBVIOUS
  <1>6. Once(Messages)
    <2> SUFFICES ASSUME NEW i \in 1..2, NEW j \in 1..2, Messages[i] = "messages", Messages[j] = "messages"
                 PROVE  i = j
      BY <1>1 DEF Once
    <2>1. i = 2 /\ j = 2
      BY <1>1, <1>4
    <2> QED BY <2>1
  <1>7. \A i \in DOMAIN <<"responses">> : <<"responses">>[i] # "messages"
    BY <1>2, <1>5
  <1>8. \A i \in DOMAIN <<"chat", "completions">> : <<"chat", "completions">>[i] # "messages"
    BY <1>3, <1>4
  <1> TAKE protocol
  <1> DEFINE t == Endpath(protocol)
  <1>9. t = Messages \/ (protocol # Anthropic /\ (t = <<"responses">> \/ t = <<"chat", "completions">>))
        \/ (protocol = Anthropic /\ t = Messages)
    BY DEF Endpath, Anthropic, Responses
  <1>10. protocol # Anthropic => t = <<"responses">> \/ t = <<"chat", "completions">>
    BY DEF Endpath
  <1> HIDE DEF t
  <1>11. t \in Seq(Words)
    BY <1>1, <1>2, <1>3, <1>9
  <1>12. Once(t)
    BY <1>6, <1>7, <1>8, <1>9 DEF Once
  <1>13. protocol # Anthropic => \A i \in DOMAIN t : t[i] # "messages"
    BY <1>7, <1>8, <1>10
  <1> QED BY <1>11, <1>12, <1>13 DEF t


\* A request on a host with a plain path names its messages once.
LEMMA PlainRequest ==
  ASSUME PlainUrls, NEW ep, Address(ep.url)
  PROVE  OnePath(ep)
PROOF
  <1> DEFINE p == ep.url.path
             t == Endpath(ep.protocol)
  <1>1. p \in Seq(Words) /\ PlainPath(p)
    BY DEF Address
  <1>2. t \in Seq(Words) /\ Once(t) /\ (ep.protocol # Anthropic => \A i \in DOMAIN t : t[i] # "messages")
    BY TailsAreOnce
  <1>3. ep.protocol = Anthropic => t = Messages
    BY DEF Endpath, Anthropic, Responses
  <1>4. WirePath(ep) = IF IsSuffix(t, p) THEN p ELSE p \o t
    BY DEF WirePath
  <1> HIDE DEF p, t
  <1>5. Once(p)
    BY <1>1, PlainIsOnce
  <1>6. ASSUME ~IsSuffix(t, p) PROVE Once(p \o t)
    <2>1. CASE ep.protocol = Anthropic
      <3>1. \A i \in DOMAIN p : p[i] # "messages"
        BY <1>1, <1>3, <1>6, <2>1, PlainHasNone
      <3> QED BY <1>1, <1>2, <3>1, AppendedIsOnce
    <2>2. CASE ep.protocol # Anthropic
      BY <1>1, <1>2, <1>5, <2>2, AddedIsOnce
    <2> QED BY <2>1, <2>2
  <1>7. Once(WirePath(ep))
    BY <1>4, <1>5, <1>6
  <1> QED BY <1>7 DEF OnePath, Once

\* A client leaves a path alone that ends in v1 and messages.
LEMMA WholeRequest ==
  ASSUME NEW ep, ep.protocol = Anthropic, IsSuffix(Messages, ep.url.path), Once(ep.url.path)
  PROVE  OnePath(ep)
PROOF
  <1>1. Endpath(ep.protocol) = Messages
    BY DEF Endpath, Anthropic, Responses
  <1>2. WirePath(ep) = ep.url.path
    BY <1>1 DEF WirePath
  <1> QED BY <1>2 DEF OnePath, Once

\* ensureMessagesSuffix keeps the host, and what it adds is not added twice.
LEMMA EnsuredRequest ==
  ASSUME NEW ep, NEW u, Address(u), ep.url = EnsureMessages(u), ep.protocol = Anthropic
  PROVE  ep.url.site = u.site /\ (PlainUrls => OnePath(ep))
PROOF
  <1>a. ep.url.site = u.site
    <2>1. u \in [site : {u.site}, path : Seq(Words)]
      BY DEF Address
    <2>2. \A q : [u EXCEPT !.path = q].site = u.site
      BY <2>1
    <2> QED BY <2>2 DEF EnsureMessages
  <1> SUFFICES ASSUME PlainUrls PROVE OnePath(ep)
    BY <1>a
  <1> DEFINE p == u.path
  <1>1. p \in Seq(Words) /\ PlainPath(p) /\ u \in [site : {u.site}, path : Seq(Words)]
    BY DEF Address
  <1>2. Len(p) \in Nat /\ DOMAIN p = 1..Len(p)
    BY <1>1
  <1>3. Messages \in Seq(Words) /\ Once(Messages) /\ "messages" \in Words
    <2>1. Endpath(Anthropic) = Messages
      BY DEF Endpath, Anthropic, Responses
    <2> QED BY <2>1, TailsAreOnce DEF Words
  <1>4. /\ Len(Messages) = 2 /\ Messages[1] = "v1" /\ Messages[2] = "messages"
    BY DEF Messages
  <1>5. CASE EnsureMessages(u) = u
    BY <1>5, PlainRequest
  <1>6. CASE EnsureMessages(u) # u
    <2>1. ~IsSuffix(Messages, p)
      BY <1>6 DEF EnsureMessages
    <2>2. \A i \in DOMAIN p : p[i] # "messages"
      BY <1>1, <2>1, PlainHasNone
    <2>3. \/ p # << >> /\ p[Len(p)] = "v1" /\ EnsureMessages(u) = [u EXCEPT !.path = Append(p, "messages")]
          \/ EnsureMessages(u) = [u EXCEPT !.path = p \o Messages]
      BY <1>6, <2>1 DEF EnsureMessages
    <2>4. \A q : [u EXCEPT !.path = q].site = u.site /\ [u EXCEPT !.path = q].path = q
      BY <1>1
    <2>6. IsSuffix(Messages, ep.url.path) /\ Once(ep.url.path) => OnePath(ep)
      BY WholeRequest
    <2>7. CASE p # << >> /\ p[Len(p)] = "v1" /\ EnsureMessages(u) = [u EXCEPT !.path = Append(p, "messages")]
      <3> DEFINE q == Append(p, "messages")
      <3>1. Len(p) > 0
        BY <1>1, <1>2, <2>7, EmptySeq
      <3>2. q \in Seq(Words) /\ Len(q) = Len(p) + 1 /\ q[Len(p) + 1] = "messages"
            /\ \A i \in 1..Len(p) : q[i] = p[i]
        BY <1>1, <1>2, <1>3, AppendProperties
      <3>3. ep.url.path = q
        BY <2>4, <2>7
      <3> HIDE DEF q
      <3>4. Len(q) >= 2 /\ q[Len(q) - 1] = "v1" /\ q[Len(q)] = "messages"
        <4>1. Len(q) - 1 = Len(p) /\ Len(p) \in 1..Len(p) /\ Len(q) >= 2
          BY <1>2, <3>1, <3>2
        <4> QED BY <2>7, <3>2, <4>1
      <3>5. IsSuffix(Messages, q)
        BY <3>2, <3>4, EndsInMessages
      <3>6. Once(q)
        <4>1. ASSUME NEW i \in DOMAIN q, q[i] = "messages" PROVE i = Len(p) + 1
          <5>1. i \in 1..(Len(p) + 1)
            BY <3>2
          <5>2. i \in 1..Len(p) \/ i = Len(p) + 1
            BY <1>2, <5>1
          <5> QED BY <1>2, <2>2, <3>2, <4>1, <5>2
        <4> QED BY <4>1 DEF Once
      <3> QED BY <2>6, <3>3, <3>5, <3>6
    <2>8. CASE EnsureMessages(u) = [u EXCEPT !.path = p \o Messages]
      <3> DEFINE q == p \o Messages
      <3>1. ep.url.path = q
        BY <2>4, <2>8
      <3>2. /\ q \in Seq(Words) /\ Len(q) = Len(p) + 2
            /\ \A i \in 1..(Len(p) + 2) :
                 q[i] = IF i <= Len(p) THEN p[i] ELSE Messages[i - Len(p)]
        <4> HIDE DEF p
        <4>1. /\ q \in Seq(Words) /\ Len(q) = Len(p) + Len(Messages)
              /\ \A i \in 1..(Len(p) + Len(Messages)) :
                   q[i] = IF i <= Len(p) THEN p[i] ELSE Messages[i - Len(p)]
          BY <1>1, <1>3, ConcatProperties
        <4> QED BY <1>4, <4>1
      <3>3. Once(q)
        BY <1>1, <1>3, <2>2, AppendedIsOnce
      <3> HIDE DEF q
      <3>4. Len(q) >= 2 /\ q[Len(q) - 1] = "v1" /\ q[Len(q)] = "messages"
        <4>1. Len(p) + 1 \in 1..(Len(p) + 2) /\ Len(p) + 2 \in 1..(Len(p) + 2)
              /\ ~(Len(p) + 1 <= Len(p)) /\ ~(Len(p) + 2 <= Len(p))
              /\ (Len(p) + 1) - Len(p) = 1 /\ (Len(p) + 2) - Len(p) = 2
              /\ Len(q) - 1 = Len(p) + 1 /\ Len(q) >= 2
          BY <1>2, <3>2
        <4>2. q[Len(p) + 1] = Messages[1] /\ q[Len(p) + 2] = Messages[2]
          BY <3>2, <4>1
        <4> QED BY <1>4, <3>2, <4>1, <4>2
      <3>5. IsSuffix(Messages, q)
        BY <3>2, <3>4, EndsInMessages
      <3> QED BY <2>6, <3>1, <3>3, <3>5
    <2> QED BY <2>3, <2>7, <2>8
  <1> QED BY <1>5, <1>6

-----------------------------------------------------------------------------
(* The world a run starts in *)

\* The first text that is there.
LEMMA FirstOfThree ==
  \A a, b, c : FirstOf(<<a, b, c>>) = IF a # "" THEN a ELSE IF b # "" THEN b ELSE c
PROOF
  <1> TAKE a, b, c
  <1> DEFINE t == <<a, b, c>>
             First(i) == t[i] # "" /\ \A j \in 1..(i - 1) : t[j] = ""
             k == CHOOSE i \in DOMAIN t : First(i)
  <1>1. DOMAIN t = {1, 2, 3} /\ t[1] = a /\ t[2] = b /\ t[3] = c
    OBVIOUS
  <1>2. FirstOf(t) = IF \A i \in DOMAIN t : t[i] = "" THEN "" ELSE t[k]
    BY DEF FirstOf
  <1>3. First(1) <=> a # ""
    BY <1>1
  <1>4. First(2) <=> (a = "" /\ b # "")
    <2>1. \A j \in 1..(2 - 1) : j = 1
      OBVIOUS
    <2>2. 1 \in 1..(2 - 1)
      OBVIOUS
    <2> QED BY <1>1, <2>1, <2>2
  <1>5. First(3) <=> (a = "" /\ b = "" /\ c # "")
    <2>1. \A j \in 1..(3 - 1) : j = 1 \/ j = 2
      OBVIOUS
    <2>2. 1 \in 1..(3 - 1) /\ 2 \in 1..(3 - 1)
      OBVIOUS
    <2> QED BY <1>1, <2>1, <2>2
  <1>6. (\E i \in DOMAIN t : First(i)) => k \in DOMAIN t /\ First(k)
    BY Zenon
  <1> HIDE DEF t, First, k
  <1>7. FirstOf(t) = IF a # "" THEN a ELSE IF b # "" THEN b ELSE c
    BY <1>1, <1>2, <1>3, <1>4, <1>5, <1>6
  <1> QED BY <1>7 DEF t

\* The same of two texts.
LEMMA FirstOfTwo ==
  \A a, b : FirstOf(<<a, b>>) = IF a # "" THEN a ELSE b
PROOF
  <1> TAKE a, b
  <1> DEFINE t == <<a, b>>
             First(i) == t[i] # "" /\ \A j \in 1..(i - 1) : t[j] = ""
             k == CHOOSE i \in DOMAIN t : First(i)
  <1>1. DOMAIN t = {1, 2} /\ t[1] = a /\ t[2] = b
    OBVIOUS
  <1>2. FirstOf(t) = IF \A i \in DOMAIN t : t[i] = "" THEN "" ELSE t[k]
    BY DEF FirstOf
  <1>3. First(1) <=> a # ""
    BY <1>1
  <1>4. First(2) <=> (a = "" /\ b # "")
    <2>1. \A j \in 1..(2 - 1) : j = 1
      OBVIOUS
    <2>2. 1 \in 1..(2 - 1)
      OBVIOUS
    <2> QED BY <1>1, <2>1, <2>2
  <1>5. (\E i \in DOMAIN t : First(i)) => k \in DOMAIN t /\ First(k)
    BY Zenon
  <1> HIDE DEF t, First, k
  <1>6. FirstOf(t) = IF a # "" THEN a ELSE b
    BY <1>1, <1>2, <1>3, <1>4, <1>5
  <1> QED BY <1>6 DEF t

Known == \E w \in Worlds : file = w.file /\ env = w.env
From(u, site) == Address(u) /\ (u # NoUrl => u.site = site)

\* What a configuration file and an environment are, as far as it matters here,
\* when the tier is not to be taken from an entry without a host.
Facts ==
  /\ From(file.entry.url, "file") /\ From(file.llm.url, "file") /\ From(env.sacr.url, "sacr")
  /\ env.sacr.token \in {"", "sacr"} /\ "" \notin env.keys
  /\ file.is \in {"absent", "broken", "ok"} /\ ~Bare(tier)
  /\ Named => "[1m]" \notin {env.model, env.cheapModel, env.sacr.model, file.model,
                             file.entry.model, file.llm.model}

\* A URL of a file or an environment is an address.
LEMMA UrlsAreAddresses ==
  ASSUME NEW site, site # "", NEW u \in Url(site), PlainUrls => PlainPath(u.path)
  PROVE  From(u, site)
PROOF
  <1>1. u \in [site : {"", site}, path : Seq(STRING)] /\ (u.site = "" => u.path = << >>)
    BY DEF Url
  <1>2. u.path \in Seq(Words)
    <2>1. STRING \subseteq Words
      BY DEF Words
    <2>2. u.path \in Seq(STRING)
      BY <1>1
    <2> QED BY <2>1, <2>2, SeqMonotonic
  <1>3. u \in [site : {u.site}, path : Seq(Words)]
    BY <1>1, <1>2
  <1>4. u # NoUrl => u.site = site
    BY <1>1 DEF NoUrl
  <1> QED BY <1>1, <1>3, <1>4 DEF From, Address

\* The types of the worlds give the facts.
LEMMA WorldFacts ==
  ASSUME Known, ~Bare(tier) PROVE Facts
PROOF
  <1>1. PICK w \in Worlds : file = w.file /\ env = w.env
    BY DEF Known
  <1>2. file \in FileType /\ env \in EnvType
    BY <1>1, WorldsAssumption
  <1>3. file.entry \in EntryType /\ file.llm \in EntryType /\ file.is \in {"absent", "broken", "ok"}
    BY <1>2 DEF FileType
  <1>4. file.entry.url \in Url("file") /\ file.llm.url \in Url("file")
    BY <1>3 DEF EntryType
  <1>5. /\ env.keys \in SUBSET (STRING \ {""})
        /\ env.sacr \in [url : Url("sacr"), token : {"", "sacr"}, model : STRING,
                         protocol : STRING, useAnthropic : BOOLEAN, auth : STRING]
    BY <1>2 DEF EnvType
  <1>6. env.sacr.url \in Url("sacr") /\ env.sacr.token \in {"", "sacr"} /\ "" \notin env.keys
    BY <1>5
  <1>7. From(file.entry.url, "file") /\ From(file.llm.url, "file") /\ From(env.sacr.url, "sacr")
    <2>1. PlainUrls => PlainPath(file.entry.url.path) /\ PlainPath(file.llm.url.path)
                       /\ PlainPath(env.sacr.url.path)
      BY <1>1 DEF PlainUrls
    <2> QED BY <1>4, <1>6, <2>1, UrlsAreAddresses
  <1>8. ~Bare(tier)
    OBVIOUS
  <1>9. Named => "[1m]" \notin {env.model, env.cheapModel, env.sacr.model, file.model,
                                file.entry.model, file.llm.model}
    BY <1>1 DEF Named, ModelNames
  <1> QED BY <1>3, <1>6, <1>7, <1>8, <1>9 DEF Facts

-----------------------------------------------------------------------------
(* What a source answers *)

\* An endpoint has the ten fields.
Shaped(ep) ==
  ep \in [url : {ep.url}, token : {ep.token}, model : {ep.model}, protocol : {ep.protocol},
          auth : {ep.auth}, source : {ep.source}, timeout : {ep.timeout}, codes : {ep.codes},
          headers : {ep.headers}, ambient : {ep.ambient}]

\* The endpoint is usable once it has that token.
Good(ep, token) ==
  /\ ep.model # "" /\ (Named => ep.model # "[1m]") /\ ValidProtocol(ep.protocol)
  /\ ep.protocol # Bedrock =>
       /\ ep.url.site # "" /\ token # "" /\ Paired(ep.url.site, token)
       /\ PlainUrls => OnePath(ep)

\* An answer can be used, with the key of the command when it asks for one,
\* and nothing but that key is missing.
Answered(a) ==
  /\ a.kind \in {"skip", "error", "found", "ask"}
  /\ a.kind = "found" => Shaped(a.ep) /\ Good(a.ep, a.ep.token) /\ Complete(a.ep)
  /\ a.kind = "ask" => /\ Shaped(a.ep) /\ Good(a.ep, "command")
                       /\ a.ep.token = "" /\ a.ep.protocol # Bedrock

\* Answers without an endpoint.
LEMMA SkipAndError == Answered(Skip) /\ Answered(Error)
PROOF BY DEF Answered, Skip, Error, Answer

\* An answer with a complete endpoint.
LEMMA FoundIs ==
  ASSUME NEW ep, Shaped(ep), Good(ep, ep.token), Complete(ep) PROVE Answered(Found(ep))
PROOF BY DEF Answered, Found, Answer

\* An answer that lacks its key only.
LEMMA AskIs ==
  ASSUME NEW ep, Shaped(ep), Good(ep, "command"), ep.token = "", ep.protocol # Bedrock
  PROVE  Answered(Ask(ep))
PROOF BY DEF Answered, Ask, Answer

\* A usable endpoint with a host is complete.
LEMMA HostedIsComplete ==
  ASSUME NEW ep, Good(ep, ep.token), ep.protocol # Bedrock PROVE Complete(ep)
PROOF
  <1>1. ep.model # "" /\ ep.url.site # "" /\ ep.token # ""
    BY DEF Good
  <1>2. ep.url # NoUrl
    <2>1. NoUrl.site = ""
      BY DEF NoUrl
    <2> QED BY <1>1, <2>1
  <1> QED BY <1>1, <1>2, Zenon DEF Complete

\* --model names a model.
LEMMA OverrideIsNamed == ASSUME Facts PROVE Named => Override # "[1m]"
PROOF BY DEF Facts, Override

\* The model asked for, or the one configured: named, when they are.
LEMMA SecondModel ==
  ASSUME Facts, NEW a, Named => a # "[1m]", NEW m, m = FirstOf(<<Override, a>>)
  PROVE  Named => m # "[1m]"
PROOF
  <1>1. FirstOf(<<Override, a>>) = IF Override # "" THEN Override ELSE a
    BY FirstOfTwo
  <1> QED BY <1>1, OverrideIsNamed

\* The same with a third text to fall back on.
LEMMA ThirdModel ==
  ASSUME Facts, NEW a, NEW b, Named => a # "[1m]" /\ b # "[1m]",
         NEW m, m = FirstOf(<<Override, a, b>>)
  PROVE  /\ Named => m # "[1m]"
         /\ b # "" => m # ""
PROOF
  <1>1. FirstOf(<<Override, a, b>>) = IF Override # "" THEN Override ELSE IF a # "" THEN a ELSE b
    BY FirstOfThree
  <1>2. m \in {Override, a, b} /\ (b # "" => m # "")
    BY <1>1
  <1> QED BY <1>2, OverrideIsNamed

\* A preset always has a model to name.
LEMMA PresetModel ==
  ASSUME Facts, NEW q, PresetOK(q), NEW m, m = FirstOf(<<Override, env.model, q.models[1]>>)
  PROVE  m # "" /\ (Named => m # "[1m]")
PROOF
  <1> DEFINE b == q.models[1]
  <1>1. b # "" /\ b # "[1m]"
    BY DEF PresetOK
  <1>2. Named => env.model # "[1m]"
    BY DEF Facts
  <1>3. m = FirstOf(<<Override, env.model, b>>)
    OBVIOUS
  <1> HIDE DEF b
  <1> QED BY <1>1, <1>2, <1>3, ThirdModel

\* Which token goes to which host.
LEMMA TokensOfFile ==
  /\ Paired("file", "file") /\ Paired("file", "command")
  /\ Paired("sacr", "sacr") /\ Paired("cc", "cc") /\ Paired("rc1", "rc1") /\ Paired("rc2", "rc2")
  /\ \A p \in ToSet(Registry) : Paired("file", p.key)
  /\ \A p \in ToSet(Registry) : p.name # "bedrock" =>
       Paired(p.url.site, p.key) /\ Paired(p.url.site, "file") /\ Paired(p.url.site, "command")
PROOF
  <1>1. \A site \in {"sacr", "cc", "rc1", "rc2", "file"} : ~IsPreset(site)
    BY PresetNames DEF Names
  <1>2. /\ Paired("file", "file") /\ Paired("file", "command")
        /\ \A p \in ToSet(Registry) : Paired("file", p.key)
    BY <1>1 DEF Paired
  <1>3. /\ Paired("sacr", "sacr") /\ Paired("cc", "cc") /\ Paired("rc1", "rc1")
        /\ Paired("rc2", "rc2")
    BY <1>1 DEF Paired
  <1>4. ASSUME NEW p \in ToSet(Registry), p.name # "bedrock"
        PROVE  Paired(p.url.site, p.key) /\ Paired(p.url.site, "file") /\ Paired(p.url.site, "command")
    <2>1. p.url.site \in {"anthropic", "openai", "deepseek"}
      BY <1>4, PresetsAreOK DEF ToSet, PresetOK
    <2>2. IsPreset(p.url.site) /\ p.url.site # "file"
      BY <2>1, PresetNames DEF Names
    <2> QED BY <2>2 DEF Paired
  <1> QED BY <1>2, <1>3, <1>4


\* tryCCEnv and parseShellRC.
LEMMA GatewayAnswers ==
  ASSUME Facts, NEW site, site \in {"cc", "rc1", "rc2"}, NEW has
  PROVE  Answered(Gateway(site, site, has))
PROOF
  <1> DEFINE model == FirstOf(<<Override, IF "model" \in has THEN "opus[1m]" ELSE "">>)
             u == [site |-> site, path |-> << >>]
             ep == [None EXCEPT !.url = EnsureMessages(u), !.token = site, !.model = model,
                      !.protocol = Anthropic, !.auth = "authorization", !.source = site]
  <1>1. Gateway(site, site, has) = Skip \/ (model # "" /\ Gateway(site, site, has) = Found(ep))
    BY DEF Gateway
  <1>2. Named => model # "[1m]"
    <2> DEFINE given == IF "model" \in has THEN "opus[1m]" ELSE ""
    <2>1. given # "[1m]" /\ model = FirstOf(<<Override, given>>)
      OBVIOUS
    <2> HIDE DEF given, model
    <2> QED BY <2>1, SecondModel
  <1>3. Address(u) /\ u.site = site
    BY PresetUrls
  <1>4. /\ Shaped(ep) /\ ep.url = EnsureMessages(u) /\ ep.token = site /\ ep.model = model
        /\ ep.protocol = Anthropic
    BY DEF None, Shaped
  <1> HIDE DEF model, u, ep
  <1>5. ep.url.site = site /\ (PlainUrls => OnePath(ep))
    BY <1>3, <1>4, EnsuredRequest
  <1>6. ValidProtocol(Anthropic) /\ Anthropic # Bedrock
    BY DEF ValidProtocol, Anthropic, Bedrock
  <1>7. Paired(site, site) /\ site # ""
    BY TokensOfFile
  <1>8. ASSUME model # "" PROVE Answered(Found(ep))
    <2>1. Good(ep, ep.token)
      BY <1>2, <1>4, <1>5, <1>6, <1>7, <1>8 DEF Good
    <2> QED BY <1>4, <1>6, <2>1, HostedIsComplete, FoundIs
  <1> QED BY <1>1, <1>8, SkipAndError

\* tryShellRC
LEMMA ShellAnswers == ASSUME Facts PROVE Answered(TryShellRC)
PROOF BY GatewayAnswers DEF TryShellRC

\* trysacrEnv
LEMMA SacrEnvAnswers == ASSUME Facts PROVE Answered(TrySacrEnv)
PROOF
  <1> DEFINE e == env.sacr
             protocol == ChosenProtocol(e.protocol, e.useAnthropic)
             model == FirstOf(<<Override, e.model>>)
             ep == [None EXCEPT !.url = e.url, !.token = e.token, !.model = model,
                      !.protocol = protocol, !.auth = AuthHeader(protocol, e.auth),
                      !.source = "sacr"]
  <1>1. \/ TrySacrEnv \in {Skip, Error}
        \/ /\ e.url # NoUrl /\ e.token # "" /\ model # "" /\ PlainProtocol(protocol)
           /\ TrySacrEnv = Found(ep)
    BY DEF TrySacrEnv
  <1>2. Named => model # "[1m]"
    <2>1. model = FirstOf(<<Override, e.model>>)
      OBVIOUS
    <2>2. Named => e.model # "[1m]"
      BY DEF Facts
    <2> HIDE DEF model, e
    <2> QED BY <2>1, <2>2, SecondModel
  <1>3. /\ Shaped(ep) /\ ep.url = e.url /\ ep.token = e.token /\ ep.model = model
        /\ ep.protocol = protocol
    BY DEF None, Shaped
  <1>4. From(e.url, "sacr") /\ e.token \in {"", "sacr"}
    BY DEF Facts
  <1> HIDE DEF e, protocol, model, ep
  <1>5. ASSUME e.url # NoUrl, e.token # "", model # "", PlainProtocol(protocol)
        PROVE  Answered(Found(ep))
    <2>1. ep.url.site = "sacr" /\ ep.token = "sacr" /\ (PlainUrls => OnePath(ep))
      BY <1>3, <1>4, <1>5, PlainRequest DEF From
    <2>2. ValidProtocol(protocol) /\ protocol # Bedrock
      BY <1>5 DEF PlainProtocol
    <2>3. Good(ep, ep.token)
      BY <1>2, <1>3, <1>5, <2>1, <2>2, TokensOfFile DEF Good
    <2> QED BY <1>3, <2>2, <2>3, HostedIsComplete, FoundIs
  <1> QED BY <1>1, <1>5, SkipAndError

\* tryProviderEnv
LEMMA ProviderEnvAnswers == ASSUME Facts PROVE Answered(TryProviderEnv)
PROOF
  <1> SUFFICES ASSUME ~ \A p \in ToSet(Registry) : p.key \notin env.keys
               PROVE  Answered(TryProviderEnv)
    BY SkipAndError DEF TryProviderEnv
  <1> DEFINE S == {i \in DOMAIN Registry : Registry[i].key \in env.keys}
             p == Registry[Min(S)]
             model == FirstOf(<<Override, env.model, p.models[1]>>)
             ep == [None EXCEPT !.url = p.url, !.token = p.key, !.protocol = p.protocol,
                      !.model = model, !.auth = p.auth, !.source = "preset"]
  <1>1. TryProviderEnv = Found(ep)
    BY DEF TryProviderEnv
  <1>2. Min(S) \in S
    <2>1. S \subseteq 1..5 /\ S # {}
      BY FivePresets DEF ToSet
    <2> HIDE DEF S
    <2>2. \A i \in S : i = 1 \/ i = 2 \/ i = 3 \/ i = 4 \/ i = 5
      BY <2>1
    <2>3. 5 <= 5 /\ 4 <= 4 /\ 4 <= 5 /\ 3 <= 3 /\ 3 <= 4 /\ 3 <= 5 /\ 2 <= 2 /\ 2 <= 3 /\ 2 <= 4
          /\ 2 <= 5 /\ 1 <= 1 /\ 1 <= 2 /\ 1 <= 3 /\ 1 <= 4 /\ 1 <= 5
      OBVIOUS
    <2>4. 1 \in S \/ 2 \in S \/ 3 \in S \/ 4 \in S \/ 5 \in S
      BY <2>1, <2>2
    <2>5. \E x \in S : \A y \in S : x <= y
      <3>1. CASE 1 \in S
        BY <2>2, <2>3, <3>1
      <3>2. CASE 1 \notin S /\ 2 \in S
        BY <2>2, <2>3, <3>2
      <3>3. CASE 1 \notin S /\ 2 \notin S /\ 3 \in S
        BY <2>2, <2>3, <3>3
      <3>4. CASE 1 \notin S /\ 2 \notin S /\ 3 \notin S /\ 4 \in S
        BY <2>2, <2>3, <3>4
      <3>5. CASE 1 \notin S /\ 2 \notin S /\ 3 \notin S /\ 4 \notin S
        BY <2>2, <2>3, <2>4, <3>5
      <3> QED BY <3>1, <3>2, <3>3, <3>4, <3>5
    <2> QED BY <2>5 DEF Min
  <1>3. p \in ToSet(Registry) /\ PresetOK(p) /\ p.key \in env.keys
    <2> HIDE DEF p
    <2>1. Min(S) \in DOMAIN Registry /\ Registry[Min(S)].key \in env.keys
      BY <1>2
    <2> QED BY <2>1, PresetsAreOK DEF ToSet, p
  <1>4. /\ Shaped(ep) /\ ep.url = p.url /\ ep.token = p.key /\ ep.model = model
        /\ ep.protocol = p.protocol
    BY DEF None, Shaped
  <1>5. model = FirstOf(<<Override, env.model, p.models[1]>>)
    OBVIOUS
  <1>6. p.key # ""
    BY <1>3 DEF Facts
  <1> HIDE DEF S, p, model, ep
  <1>7. model # "" /\ (Named => model # "[1m]")
    BY <1>3, <1>5, PresetModel
  <1>8. p.name # "bedrock" /\ p.protocol # Bedrock /\ ValidProtocol(p.protocol) /\ p.url.site # ""
    BY <1>3, <1>6 DEF PresetOK
  <1>9. (PlainUrls => OnePath(ep)) /\ Paired(p.url.site, p.key)
    BY <1>3, <1>4, <1>8, PlainRequest, TokensOfFile DEF PresetOK
  <1>10. Good(ep, ep.token)
    BY <1>4, <1>6, <1>7, <1>8, <1>9 DEF Good
  <1> QED BY <1>1, <1>4, <1>8, <1>10, HostedIsComplete, FoundIs

\* tryLegacyLlmConfig
LEMMA LegacyAnswers == ASSUME Facts PROVE Answered(TryLegacyLlmConfig(file.llm))
PROOF
  <1> DEFINE b == file.llm
             protocol == ChosenProtocol(b.protocol, b.useAnthropic)
             token == IF Trim(b.key) # "" THEN "file" ELSE ""
             model == FirstOf(<<Override, b.model>>)
             ep == [None EXCEPT !.url = b.url, !.token = token, !.model = model,
                      !.protocol = protocol, !.auth = AuthHeader(protocol, b.auth),
                      !.source = "file", !.timeout = b.timeout,
                      !.codes = SanitizeRetryCodes(b.codes), !.headers = b.headers]
  <1>1. /\ Shaped(ep) /\ ep.url = b.url /\ ep.token = token /\ ep.model = model
        /\ ep.protocol = protocol
    BY DEF None, Shaped
  <1>2. TryLegacyLlmConfig(b) =
          IF b.url = NoUrl \/ ep.model = "" \/ (ep.token = "" /\ Trim(b.cmd) = "") THEN Skip
          ELSE IF \/ ~PlainProtocol(protocol)
                  \/ protocol = Anthropic /\ ~ValidAuth(b.auth)
                  \/ ~ValidateTimeoutSec(b.timeout) \/ ~ValidRetryCodes(b.codes) THEN Error
          ELSE IF ep.token = "" THEN Ask(ep) ELSE Found(ep)
    BY DEF TryLegacyLlmConfig
  <1>3. Named => model # "[1m]"
    <2>1. model = FirstOf(<<Override, b.model>>)
      OBVIOUS
    <2>2. Named => b.model # "[1m]"
      BY DEF Facts
    <2> HIDE DEF model
    <2> QED BY <2>1, <2>2, SecondModel
  <1>4. From(b.url, "file") /\ token \in {"", "file"}
    BY DEF Facts
  <1> HIDE DEF b, protocol, token, model, ep
  <1>5. ASSUME b.url # NoUrl, model # "", PlainProtocol(protocol)
        PROVE  Answered(IF ep.token = "" THEN Ask(ep) ELSE Found(ep))
    <2>1. ep.url.site = "file" /\ (PlainUrls => OnePath(ep))
      BY <1>1, <1>4, <1>5, PlainRequest DEF From
    <2>2. ValidProtocol(protocol) /\ protocol # Bedrock
      BY <1>5 DEF PlainProtocol
    <2>3. CASE ep.token = ""
      <3>1. Good(ep, "command")
        BY <1>1, <1>3, <1>5, <2>1, <2>2, TokensOfFile DEF Good
      <3> QED BY <1>1, <2>2, <2>3, <3>1, AskIs
    <2>4. CASE ep.token # ""
      <3>1. Good(ep, ep.token)
        BY <1>1, <1>3, <1>4, <1>5, <2>1, <2>2, <2>4, TokensOfFile DEF Good
      <3> QED BY <1>1, <2>2, <2>4, <3>1, HostedIsComplete, FoundIs
    <2> QED BY <2>3, <2>4
  <1>6. Answered(TryLegacyLlmConfig(b))
    BY <1>1, <1>2, <1>5, SkipAndError
  <1> QED BY <1>6 DEF b


\* Only Bedrock's credentials are ambient.
LEMMA AmbientIsBedrock ==
  ASSUME NEW entry, NEW name, Ambient(entry, name) PROVE EntryProtocol(entry, name) = Bedrock
PROOF
  <1> SUFFICES ASSUME IsPreset(name), LookupProvider(name).ambient, entry.protocol = ""
               PROVE  EntryProtocol(entry, name) = Bedrock
    BY DEF Ambient
  <1>1. PresetOK(LookupProvider(name))
    BY LookupIs
  <1>2. LookupProvider(name).protocol = Bedrock
    BY <1>1 DEF PresetOK
  <1> QED BY <1>2 DEF EntryProtocol

\* The key an entry has before a command runs.
LEMMA EntryKeyIs ==
  ASSUME NEW entry, NEW name
  PROVE  \/ EntryKey(entry, name) = "file" \/ EntryKey(entry, name) = ""
         \/ IsPreset(name) /\ EntryKey(entry, name) = LookupProvider(name).key
PROOF BY DEF EntryKey

\* The host of a valid entry that is no Bedrock, and what may be sent to it.
LEMMA EntryHost ==
  ASSUME Facts, NEW name, name = FirstOf(<<Provider, file.provider>>), NEW model,
         file.name = name, EntryIsValid(file.entry, name, model),
         EntryProtocol(file.entry, name) # Bedrock
  PROVE  LET u == EntryUrl(file.entry, name)
             key == EntryKey(file.entry, name)
         IN /\ Address(u) /\ u.site # ""
            /\ Paired(u.site, "command") /\ (key # "" => Paired(u.site, key))
PROOF
  <1> DEFINE e == file.entry
             u == EntryUrl(e, name)
             key == EntryKey(e, name)
  <1>1. From(e.url, "file") /\ (name = "bedrock" => ~Hostless(file))
    BY DEF Facts, Bare, Provider
  <1>2. ~Ambient(e, name)
    BY AmbientIsBedrock
  <1>3. key = "file" \/ key = "" \/ (IsPreset(name) /\ key = LookupProvider(name).key)
    BY EntryKeyIs
  <1>4. CASE e.url # NoUrl
    <2>1. u = e.url /\ u.site = "file" /\ Address(u)
      BY <1>1, <1>4 DEF EntryUrl, From
    <2>2. key # "" => Paired("file", key)
      BY <1>3, LookupIs, TokensOfFile
    <2> HIDE DEF u, key
    <2> QED BY <2>1, <2>2, TokensOfFile DEF u, key
  <1>5. CASE e.url = NoUrl
    <2>1. IsPreset(name)
      BY <1>2, <1>5 DEF EntryIsValid
    <2> DEFINE p == LookupProvider(name)
    <2>2. p \in ToSet(Registry) /\ p.name = name /\ PresetOK(p)
      BY <2>1, LookupIs
    <2>3. u = p.url
      BY <1>5, <2>1 DEF EntryUrl
    <2>4. name # "bedrock"
      <3> SUFFICES ASSUME name = "bedrock" PROVE FALSE
        OBVIOUS
      <3>1. e.protocol \in {"", "anthropic-bedrock"}
        BY <1>1, <1>5 DEF Hostless
      <3>2. CASE e.protocol = ""
        <4>1. EntryProtocol(e, name) = p.protocol
          BY <2>1, <3>2 DEF EntryProtocol
        <4>2. p.protocol = Bedrock
          BY <2>2 DEF PresetOK
        <4> QED BY <4>1, <4>2
      <3>3. CASE e.protocol = "anthropic-bedrock"
        <4>1. EntryProtocol(e, name) = NormalizeProtocol("anthropic-bedrock")
          BY <3>3 DEF EntryProtocol
        <4>2. NormalizeProtocol("anthropic-bedrock") = Bedrock
          BY DEF NormalizeProtocol, Bedrock
        <4> QED BY <4>1, <4>2
      <3> QED BY <3>1, <3>2, <3>3
    <2>5. Address(p.url) /\ p.url.site # ""
      BY <2>2, <2>4 DEF PresetOK
    <2>6. Paired(p.url.site, p.key) /\ Paired(p.url.site, "file") /\ Paired(p.url.site, "command")
      BY <2>2, <2>4, TokensOfFile
    <2>7. key # "" => Paired(p.url.site, key)
      BY <1>3, <2>6
    <2> HIDE DEF u, key, p
    <2> QED BY <2>3, <2>5, <2>6, <2>7 DEF u, key
  <1> QED BY <1>4, <1>5

\* tryProviderConfig
LEMMA ProviderConfigAnswers ==
  ASSUME Facts, NEW name, name = FirstOf(<<Provider, file.provider>>),
         NEW fileModel, Named => fileModel # "[1m]"
  PROVE  Answered(TryProviderConfig(name, fileModel))
PROOF
  <1> DEFINE e == file.entry
             protocol == EntryProtocol(e, name)
             model == FirstOf(<<Override, e.model, fileModel>>)
             u == EntryUrl(e, name)
             key == EntryKey(e, name)
             url == IF protocol = Anthropic THEN EnsureMessages(u) ELSE u
             ep == [url |-> url, token |-> key, model |-> model, protocol |-> protocol,
                    auth |-> AuthHeader(protocol, EntryAuth(e, name)), source |-> "provider",
                    timeout |-> e.timeout, codes |-> SanitizeRetryCodes(e.codes),
                    headers |-> e.headers, ambient |-> Ambient(e, name)]
  <1>1. TryProviderConfig(name, fileModel) =
          IF file.name # name \/ file.preset # IsPreset(name) THEN Error
          ELSE IF ~EntryIsValid(e, name, model) THEN Error
          ELSE IF ep.token = "" /\ ~ep.ambient THEN Ask(ep) ELSE Found(ep)
    BY DEF TryProviderConfig
  <1> SUFFICES ASSUME file.name = name, EntryIsValid(e, name, model)
               PROVE  Answered(IF ep.token = "" /\ ~ep.ambient THEN Ask(ep) ELSE Found(ep))
    <2> HIDE DEF ep, model, e
    <2> QED BY <1>1, SkipAndError
  <1>2. model # "" /\ ValidProtocol(protocol)
    BY DEF EntryIsValid
  <1>3. Named => model # "[1m]"
    <2>1. model = FirstOf(<<Override, e.model, fileModel>>)
      OBVIOUS
    <2>2. Named => e.model # "[1m]"
      BY DEF Facts
    <2> HIDE DEF model, e
    <2> QED BY <2>1, <2>2, ThirdModel
  <1>4. /\ Shaped(ep) /\ ep.url = url /\ ep.token = key /\ ep.model = model
        /\ ep.protocol = protocol
    BY DEF Shaped
  <1>5. ep.ambient <=> Ambient(e, name)
    OBVIOUS
  <1>6. protocol # Bedrock =>
          /\ Address(u) /\ u.site # ""
          /\ Paired(u.site, "command") /\ (key # "" => Paired(u.site, key))
    BY EntryHost
  <1>7. Ambient(e, name) <=> protocol = Bedrock
    BY AmbientIsBedrock DEF Ambient
  <1> HIDE DEF e, protocol, model, u, key, ep
  <1>8. protocol # Bedrock => ep.url.site = u.site /\ (PlainUrls => OnePath(ep))
    <2> SUFFICES ASSUME protocol # Bedrock PROVE ep.url.site = u.site /\ (PlainUrls => OnePath(ep))
      OBVIOUS
    <2>1. CASE protocol = Anthropic
      BY <1>4, <1>6, <2>1, EnsuredRequest
    <2>2. CASE protocol # Anthropic
      BY <1>4, <1>6, <2>2, PlainRequest
    <2> QED BY <2>1, <2>2
  <1>9. CASE protocol = Bedrock
    <2>1. Good(ep, ep.token)
      BY <1>2, <1>3, <1>4, <1>9 DEF Good
    <2>2. ep.ambient
      BY <1>5, <1>7, <1>9
    <2>3. Complete(ep)
      BY <1>2, <1>4, <2>2, Zenon DEF Complete
    <2> QED BY <1>4, <2>1, <2>2, <2>3, FoundIs
  <1>10. CASE protocol # Bedrock
    <2>1. ~ep.ambient
      BY <1>5, <1>7, <1>10
    <2>2. CASE key = ""
      <3>1. Good(ep, "command")
        BY <1>2, <1>3, <1>4, <1>6, <1>8, <1>10 DEF Good
      <3> QED BY <1>4, <1>10, <2>1, <2>2, <3>1, AskIs
    <2>3. CASE key # ""
      <3>1. Good(ep, ep.token)
        BY <1>2, <1>3, <1>4, <1>6, <1>8, <1>10, <2>3 DEF Good
      <3> QED BY <1>4, <1>10, <2>3, <3>1, HostedIsComplete, FoundIs
    <2> QED BY <2>2, <2>3
  <1> QED BY <1>9, <1>10

\* trySacrConfig
LEMMA SacrConfigAnswers == ASSUME Facts PROVE Answered(TrySacrConfig)
PROOF
  <1> DEFINE name == FirstOf(<<Provider, file.provider>>)
             fileModel == IF Provider \in {"", file.provider} THEN file.model ELSE ""
  <1>1. Named => fileModel # "[1m]"
    BY DEF Facts
  <1>2. Answered(TryProviderConfig(name, fileModel))
    <2>1. name = FirstOf(<<Provider, file.provider>>)
      OBVIOUS
    <2> HIDE DEF name, fileModel
    <2> QED BY <1>1, <2>1, ProviderConfigAnswers
  <1>3. TrySacrConfig \in {Skip, Error, TryProviderConfig(name, fileModel), TryLegacyLlmConfig(file.llm)}
    <2>1. file.is \in {"absent", "broken", "ok"}
      BY DEF Facts
    <2> QED BY <2>1 DEF TrySacrConfig
  <1> QED BY <1>2, <1>3, SkipAndError, LegacyAnswers

\* Whatever the source: what it answers can be used.
LEMMA EverySourceAnswers ==
  ASSUME Facts, NEW i \in 1..5 PROVE Answered(Try(Sources[i]))
PROOF
  <1>1. Sources[i] \in {"file", "sacr", "preset", "cc", "rc"}
    BY DEF Sources
  <1>2. Try("file") = TrySacrConfig /\ Try("sacr") = TrySacrEnv /\ Try("preset") = TryProviderEnv
        /\ Try("cc") = Gateway("cc", "cc", env.cc) /\ Try("rc") = TryShellRC
    BY DEF Try
  <1>3. Answered(Gateway("cc", "cc", env.cc))
    BY GatewayAnswers
  <1>4. /\ Answered(Try("file")) /\ Answered(Try("sacr")) /\ Answered(Try("preset"))
        /\ Answered(Try("cc")) /\ Answered(Try("rc"))
    BY <1>2, <1>3, SacrConfigAnswers, SacrEnvAnswers, ProviderEnvAnswers, ShellAnswers
  <1> QED BY <1>1, <1>4

\* Only the configuration file asks for a key.
LEMMA OnlyFilesAsk ==
  ASSUME NEW i \in 1..5
  PROVE  /\ Try(Sources[i]).kind \in {"skip", "error", "found", "ask"}
         /\ Try(Sources[i]).kind = "ask" => i = 1
PROOF
  <1>1. /\ Sources[1] = "file" /\ Sources[2] = "sacr" /\ Sources[3] = "preset"
        /\ Sources[4] = "cc" /\ Sources[5] = "rc"
    BY DEF Sources
  <1>2. /\ Skip.kind = "skip" /\ Error.kind = "error"
        /\ \A ep : Found(ep).kind = "found" /\ Ask(ep).kind = "ask"
    BY DEF Skip, Error, Found, Ask, Answer
  <1>3. ASSUME NEW site, NEW token, NEW has
        PROVE  Gateway(site, token, has).kind \in {"skip", "found"}
    <2>1. \/ Gateway(site, token, has) = Skip
          \/ \E ep : Gateway(site, token, has) = Found(ep)
      BY Zenon DEF Gateway
    <2> QED BY <1>2, <2>1
  <1>4. TryShellRC.kind \in {"skip", "found"}
    BY <1>3 DEF TryShellRC
  <1>5. TrySacrEnv.kind \in {"skip", "error", "found"}
    <2>1. TrySacrEnv \in {Skip, Error} \/ \E ep : TrySacrEnv = Found(ep)
      BY Zenon DEF TrySacrEnv
    <2> QED BY <1>2, <2>1
  <1>6. TryProviderEnv.kind \in {"skip", "found"}
    <2>1. TryProviderEnv = Skip \/ \E ep : TryProviderEnv = Found(ep)
      BY Zenon DEF TryProviderEnv
    <2> QED BY <1>2, <2>1
  <1>7. TryLegacyLlmConfig(file.llm).kind \in {"skip", "error", "found", "ask"}
    <2>1. \/ TryLegacyLlmConfig(file.llm) \in {Skip, Error}
          \/ \E ep : TryLegacyLlmConfig(file.llm) \in {Ask(ep), Found(ep)}
      BY Zenon DEF TryLegacyLlmConfig
    <2> QED BY <1>2, <2>1
  <1>8. ASSUME NEW name, NEW model
        PROVE  TryProviderConfig(name, model).kind \in {"error", "found", "ask"}
    <2>1. \/ TryProviderConfig(name, model) = Error
          \/ \E ep : TryProviderConfig(name, model) \in {Ask(ep), Found(ep)}
      BY Zenon DEF TryProviderConfig
    <2> QED BY <1>2, <2>1
  <1>9. TrySacrConfig.kind \in {"skip", "error", "found", "ask"}
    <2>1. \/ TrySacrConfig \in {Skip, Error, TryLegacyLlmConfig(file.llm)}
          \/ \E name, model : TrySacrConfig = TryProviderConfig(name, model)
      BY Zenon DEF TrySacrConfig
    <2> QED BY <1>2, <1>7, <1>8, <2>1
  <1>10. /\ Try("file") = TrySacrConfig /\ Try("sacr") = TrySacrEnv
         /\ Try("preset") = TryProviderEnv
         /\ Try("cc") = Gateway("cc", "cc", env.cc) /\ Try("rc") = TryShellRC
    BY DEF Try
  <1>11. i = 1 \/ i = 2 \/ i = 3 \/ i = 4 \/ i = 5
    OBVIOUS
  <1> QED BY <1>1, <1>3, <1>4, <1>5, <1>6, <1>9, <1>10, <1>11

\* resolveAmbientPreset
LEMMA AmbientPresetAnswers ==
  ASSUME Facts, NEW name, IsPreset(name), LookupProvider(name).ambient
  PROVE  LET ep == ResolveAmbientPreset(LookupProvider(name)).ep IN
         Shaped(ep) /\ Good(ep, ep.token)
PROOF
  <1> DEFINE p == LookupProvider(name)
             model == FirstOf(<<Override, env.model, p.models[1]>>)
             ep == [None EXCEPT !.url = p.url, !.protocol = p.protocol, !.auth = p.auth,
                      !.model = model, !.source = "ambient"]
  <1>1. ResolveAmbientPreset(p).ep = ep
    BY DEF ResolveAmbientPreset, Found, Answer
  <1>2. /\ Shaped(ep) /\ ep.model = model /\ ep.protocol = p.protocol
    BY DEF None, Shaped
  <1>3. PresetOK(p) /\ p.ambient
    BY LookupIs
  <1>4. model = FirstOf(<<Override, env.model, p.models[1]>>)
    OBVIOUS
  <1> HIDE DEF p, model, ep
  <1>5. model # "" /\ (Named => model # "[1m]")
    BY <1>3, <1>4, PresetModel
  <1>6. p.protocol = Bedrock /\ ValidProtocol(p.protocol)
    BY <1>3 DEF PresetOK
  <1>7. Good(ep, ep.token)
    BY <1>2, <1>5, <1>6 DEF Good
  <1> QED BY <1>1, <1>2, <1>7 DEF p


-----------------------------------------------------------------------------
(* The invariant *)

Stages == {"overrides", "try", "command", "accept", "ready", "failed"}

\* The keys that were typed are in use, but for the cases PromptsAreUsed names.
Held == \A t \in typed :
  InUse(t) \/ Bare(t) \/ (t = "main" /\ tier = "cheap" /\ stage = "failed")

\* The first source is looked at before any command was started; the command
\* belongs to a draft that lacks nothing but its key; what is accepted can be
\* used; all that for a tier that is not to be taken from an entry without a host.
Ordinary == Named /\ PlainUrls
IInv ==
  /\ Known /\ tier \in {"main", "cheap"} /\ stage \in Stages /\ source \in 1..5
  /\ asked \in {0, 1} /\ typed \subseteq (IF tier = "main" THEN {"main"} ELSE {"main", "cheap"})
  /\ stage = "overrides" => asked = 0 /\ source = 1
  /\ stage = "try" => asked = 0 \/ source > 1
  /\ stage \in {"overrides", "try", "command"} /\ tier \in typed => Bare(tier)
  /\ stage = "command" /\ ~Bare(tier) =>
       Shaped(draft) /\ Good(draft, "command") /\ draft.token = "" /\ draft.protocol # Bedrock
  /\ stage = "accept" /\ ~Bare(tier) =>
       Shaped(draft) /\ Good(draft, draft.token) /\ (Provider = "" => Complete(draft))
  /\ Held
  /\ Ordinary /\ ~Bare("main") /\ tier = "cheap" /\ stage # "failed" => Usable(main)
  /\ Ordinary /\ ~Bare("main") /\ ~Bare("cheap") /\ stage = "ready" =>
       Usable(main) /\ Usable(cheap)

\* A run starts in the invariant.
LEMMA InitEstablishes == Init => IInv
PROOF
  <1> SUFFICES ASSUME Init PROVE IInv
    OBVIOUS
  <1>1. Known
    BY DEF Init, Known
  <1> QED BY <1>1 DEF Init, IInv, Stages, Held

\* finalizeResolvedEndpoint leaves a usable endpoint.
LEMMA FinalizedIsUsable ==
  ASSUME NEW ep, Shaped(ep), Good(ep, ep.token)
  PROVE  Shaped(Finalized(ep)) /\ (Ordinary => Usable(Finalized(ep)))
PROOF
  <1> DEFINE model == StripModelSuffix(ep.model)
             headers == ep.headers \cup env.headers
             timeout == IF env.timeout = {} THEN ep.timeout ELSE CHOOSE t \in env.timeout : TRUE
             f == [ep EXCEPT !.model = model, !.headers = headers, !.timeout = timeout]
  <1>1. Finalized(ep) = f
    BY DEF Finalized
  <1>2. Ordinary => model # ""
    BY DEF StripModelSuffix, Good, Ordinary
  <1> HIDE DEF model, headers, timeout
  <1>3. /\ Shaped(f) /\ f.model = model /\ f.url = ep.url /\ f.token = ep.token
        /\ f.protocol = ep.protocol
    BY DEF Shaped
  <1> HIDE DEF f
  <1>4. WirePath(f) = WirePath(ep)
    BY <1>3 DEF WirePath
  <1>5. OnePath(ep) => OnePath(f)
    BY <1>4 DEF OnePath
  <1>6. Ordinary => Usable(f)
    BY <1>2, <1>3, <1>5 DEF Usable, Good, Ordinary
  <1> QED BY <1>1, <1>3, <1>6

\* The cheap tier may be the main client with another model.
LEMMA RenamedIsUsable ==
  ASSUME NEW ep, Shaped(ep), Usable(ep), NEW model, model # ""
  PROVE  Usable([ep EXCEPT !.model = model])
PROOF
  <1> DEFINE f == [ep EXCEPT !.model = model]
  <1>1. f.model = model /\ f.url = ep.url /\ f.token = ep.token /\ f.protocol = ep.protocol
    BY DEF Shaped
  <1> HIDE DEF f
  <1>2. WirePath(f) = WirePath(ep)
    BY <1>1 DEF WirePath
  <1>3. OnePath(ep) => OnePath(f)
    BY <1>2 DEF OnePath
  <1>4. Usable(f)
    BY <1>1, <1>3 DEF Usable
  <1> QED BY <1>4 DEF f

\* Where a tier comes from is fixed.
LEMMA Fixed ==
  ASSUME file' = file, env' = env
  PROVE  /\ Known => Known'
         /\ \A t : Bare(t)' = Bare(t)
         /\ tier' = tier => Provider' = Provider
PROOF
  <1>1. Known => Known'
    BY DEF Known
  <1>2. \A t : Bare(t)' = Bare(t)
    BY DEF Bare, Hostless, ProviderOf
  <1>3. tier' = tier => Provider' = Provider
    BY DEF Provider, ProviderOf
  <1> QED BY <1>1, <1>2, <1>3

\* Giving up keeps it: the tier at work has no key to lose.
LEMMA FailKeeps ==
  ASSUME IInv, Fail, UNCHANGED <<file, env, tier, typed>>, asked' \in {0, 1},
         tier \in typed => Bare(tier), stage \notin {"ready", "failed"}
  PROVE  IInv'
PROOF
  <1>1. /\ Known' /\ (\A t : Bare(t)' = Bare(t)) /\ Provider' = Provider
    BY Fixed DEF IInv
  <1>2. Held'
    <2> SUFFICES ASSUME NEW t \in typed, ~Bare(t) PROVE t = "main" /\ tier = "cheap"
      BY <1>1 DEF Held, Fail
    <2>1. t # tier
      OBVIOUS
    <2>2. typed \subseteq (IF tier = "main" THEN {"main"} ELSE {"main", "cheap"})
          /\ tier \in {"main", "cheap"}
      BY DEF IInv
    <2> QED BY <2>1, <2>2
  <1> QED BY <1>1, <1>2 DEF IInv, Fail, Stages

\* parseEnvOverrides keeps it.
LEMMA OverridesKeep == ASSUME IInv, ParseOverrides PROVE IInv'
PROOF
  <1>1. /\ stage = "overrides" /\ UNCHANGED <<file, env, tier, typed>> /\ asked' \in {0, 1}
        /\ tier \in typed => Bare(tier)
    BY DEF IInv, ParseOverrides
  <1>2. CASE Fail
    BY <1>1, <1>2, FailKeeps
  <1>3. CASE ~Fail
    <2>1. stage' = "try" /\ UNCHANGED <<source, draft, main, cheap, asked>>
      BY <1>3 DEF ParseOverrides
    <2>2. /\ Known' /\ (\A t : Bare(t)' = Bare(t)) /\ Provider' = Provider
      BY <1>1, Fixed DEF IInv
    <2>3. \A t : InUse(t)' = InUse(t)
      BY <1>1, <2>1 DEF InUse
    <2>4. Held'
      BY <1>1, <2>1, <2>2, <2>3 DEF Held, IInv
    <2>5. Usable(main)' = Usable(main)
      BY <2>1
    <2> QED BY <1>1, <2>1, <2>2, <2>4, <2>5 DEF IInv, Stages
  <1> QED BY <1>2, <1>3

\* Going on to the next source keeps it.
LEMMA NextSourceKeeps ==
  ASSUME IInv, NextSource, UNCHANGED <<file, env, tier, typed, asked>>,
         tier \in typed => Bare(tier), stage \in {"try", "accept"}
  PROVE  IInv'
PROOF
  <1>1. CASE Fail
    BY <1>1, FailKeeps DEF IInv
  <1>2. CASE ~Fail
    <2>1. source # 5 /\ source' = source + 1 /\ stage' = "try" /\ UNCHANGED <<draft, main, cheap>>
      BY <1>2 DEF NextSource, Sources
    <2>2. source' \in 1..5 /\ source' > 1
      <3>1. source \in 1..5
        BY DEF IInv
      <3> QED BY <2>1, <3>1
    <2>3. /\ Known' /\ (\A t : Bare(t)' = Bare(t)) /\ Provider' = Provider
      BY Fixed DEF IInv
    <2>4. \A t : t # tier => InUse(t)' = InUse(t)
      BY <2>1 DEF InUse
    <2>5. Held'
      BY <2>1, <2>3, <2>4 DEF Held, IInv
    <2>6. Usable(main)' = Usable(main)
      BY <2>1
    <2> QED BY <2>1, <2>2, <2>3, <2>5, <2>6 DEF IInv, Stages
  <1> QED BY <1>1, <1>2

\* Trying a source keeps it, for every answer.
LEMMA TryKeeps == ASSUME IInv, TrySource PROVE IInv'
PROOF
  <1> DEFINE answer == Try(Sources[source])
  <1>1. /\ Known /\ source \in 1..5 /\ stage = "try" /\ asked \in {0, 1}
        /\ asked = 0 \/ source > 1
        /\ tier \in typed => Bare(tier)
        /\ UNCHANGED <<file, env, tier, typed>>
    BY DEF IInv, TrySource
  <1>2. /\ answer.kind \in {"skip", "error", "found", "ask"}
        /\ answer.kind = "ask" => source = 1
    BY <1>1, OnlyFilesAsk
  <1>3. ~Bare(tier) => Facts /\ Answered(answer)
    BY <1>1, WorldFacts, EverySourceAnswers
  <1>4. /\ Known' /\ (\A t : Bare(t)' = Bare(t)) /\ Provider' = Provider
    BY <1>1, Fixed
  <1>5. CASE Fail /\ asked' = asked
    BY <1>1, <1>5, FailKeeps
  <1>6. CASE NextSource /\ asked' = asked
    BY <1>1, <1>6, NextSourceKeeps
  <1>7. ASSUME stage' \in {"accept", "command"}, UNCHANGED <<source, main, cheap>>,
               asked' \in {0, 1},
               stage' = "command" /\ ~Bare(tier) =>
                 /\ Shaped(draft') /\ Good(draft', "command")
                 /\ draft'.token = "" /\ draft'.protocol # Bedrock,
               stage' = "accept" /\ ~Bare(tier) =>
                 /\ Shaped(draft') /\ Good(draft', draft'.token)
                 /\ Provider = "" => Complete(draft')
        PROVE  IInv'
    <2>1. \A t : t # tier => InUse(t)' = InUse(t)
      BY <1>1, <1>7 DEF InUse
    <2>2. Held'
      BY <1>1, <1>4, <2>1 DEF Held, IInv
    <2>3. Usable(main)' = Usable(main)
      BY <1>7
    <2>4. /\ (stage = "command" /\ ~Bare(tier) =>
               /\ Shaped(draft) /\ Good(draft, "command")
               /\ draft.token = "" /\ draft.protocol # Bedrock)'
          /\ (stage = "accept" /\ ~Bare(tier) =>
               /\ Shaped(draft) /\ Good(draft, draft.token)
               /\ Provider = "" => Complete(draft))'
      BY <1>1, <1>4, <1>7 DEF Shaped, Good, Complete
    <2> QED BY <1>1, <1>4, <1>7, <2>2, <2>3, <2>4 DEF IInv, Stages
  <1>8. CASE /\ answer.kind = "skip" /\ Provider # "" /\ asked' = asked
             /\ IsPreset(Provider) /\ LookupProvider(Provider).ambient
             /\ draft' = ResolveAmbientPreset(LookupProvider(Provider)).ep
             /\ stage' = "accept" /\ UNCHANGED <<source, main, cheap>>
    <2>1. ~Bare(tier) => Shaped(draft') /\ Good(draft', draft'.token)
      BY <1>3, <1>8, AmbientPresetAnswers
    <2> QED BY <1>1, <1>7, <1>8, <2>1
  <1>9. CASE /\ answer.kind = "found" /\ draft' = answer.ep /\ stage' = "accept"
             /\ asked' = asked /\ UNCHANGED <<source, main, cheap>>
    <2>1. ~Bare(tier) => Shaped(draft') /\ Good(draft', draft'.token) /\ Complete(draft')
      BY <1>3, <1>9 DEF Answered
    <2> QED BY <1>1, <1>7, <1>9, <2>1
  <1>10. CASE /\ answer.kind = "ask" /\ draft' = answer.ep /\ stage' = "command"
              /\ asked' = asked + 1 /\ UNCHANGED <<source, main, cheap>>
    <2>1. ~Bare(tier) => /\ Shaped(draft') /\ Good(draft', "command")
                         /\ draft'.token = "" /\ draft'.protocol # Bedrock
      BY <1>3, <1>10 DEF Answered
    <2>2. asked' = 1
      BY <1>1, <1>2, <1>10
    <2> QED BY <1>7, <1>10, <2>1, <2>2
  <1>11. \/ Fail /\ asked' = asked
         \/ NextSource /\ asked' = asked
         \/ /\ answer.kind = "skip" /\ Provider # "" /\ asked' = asked
            /\ IsPreset(Provider) /\ LookupProvider(Provider).ambient
            /\ draft' = ResolveAmbientPreset(LookupProvider(Provider)).ep
            /\ stage' = "accept" /\ UNCHANGED <<source, main, cheap>>
         \/ /\ answer.kind = "found" /\ draft' = answer.ep /\ stage' = "accept"
            /\ asked' = asked /\ UNCHANGED <<source, main, cheap>>
         \/ /\ answer.kind = "ask" /\ draft' = answer.ep /\ stage' = "command"
            /\ asked' = asked + 1 /\ UNCHANGED <<source, main, cheap>>
    <2> HIDE DEF answer
    <2>1. /\ \/ answer.kind = "error" /\ Fail /\ UNCHANGED asked
             \/ /\ answer.kind = "skip" /\ Provider = "" /\ NextSource /\ UNCHANGED asked
             \/ /\ answer.kind = "skip" /\ Provider # "" /\ UNCHANGED asked
                /\ IF IsPreset(Provider) /\ LookupProvider(Provider).ambient
                   THEN /\ draft' = ResolveAmbientPreset(LookupProvider(Provider)).ep
                        /\ stage' = "accept" /\ UNCHANGED <<source, main, cheap>>
                   ELSE Fail
             \/ /\ answer.kind \in {"found", "ask"} /\ draft' = answer.ep
                /\ stage' = IF answer.kind = "ask" THEN "command" ELSE "accept"
                /\ asked' = IF answer.kind = "ask" THEN asked + 1 ELSE asked
                /\ UNCHANGED <<source, main, cheap>>
      BY Zenon DEF TrySource, answer
    <2> QED BY <2>1
  <1> HIDE DEF answer
  <1> QED BY <1>5, <1>6, <1>8, <1>9, <1>10, <1>11

\* The command's own steps touch nothing else.
LEMMA ChildKeeps ==
  ASSUME IInv, UNCHANGED <<file, env, tier, stage, source, draft, asked, typed, main, cheap>>
  PROVE  IInv'
PROOF
  <1>1. /\ Known' /\ (\A t : Bare(t)' = Bare(t)) /\ Provider' = Provider
    BY Fixed DEF IInv
  <1>2. \A t : InUse(t)' = InUse(t)
    BY DEF InUse
  <1>3. Held'
    BY <1>1, <1>2 DEF Held, IInv
  <1> QED BY <1>1, <1>3 DEF IInv

\* The end of the command keeps it: its key completes the draft, or all fails.
LEMMA KeyCmdKeeps == ASSUME IInv, KeyCmdDone PROVE IInv'
PROOF
  <1>1. /\ stage = "command" /\ asked \in {0, 1} /\ asked' = asked
        /\ tier \in typed => Bare(tier)
        /\ ~Bare(tier) => /\ Shaped(draft) /\ Good(draft, "command")
                          /\ draft.token = "" /\ draft.protocol # Bedrock
        /\ UNCHANGED <<file, env, tier>>
    BY DEF IInv, KeyCmdDone
  <1>2. /\ Known' /\ (\A t : Bare(t)' = Bare(t)) /\ Provider' = Provider
    BY <1>1, Fixed DEF IInv
  <1>3. CASE Fail /\ typed' = typed
    BY <1>1, <1>3, FailKeeps
  <1>4. CASE ~(Fail /\ typed' = typed)
    <2>1. /\ draft' = [draft EXCEPT !.token = "command"] /\ stage' = "accept"
          /\ typed' = typed \cup {tier} /\ UNCHANGED <<source, main, cheap>>
      BY <1>4 DEF KeyCmdDone
    <2>2. ~Bare(tier) => /\ Shaped(draft') /\ draft'.token = "command" /\ draft'.url = draft.url
                         /\ draft'.model = draft.model /\ draft'.protocol = draft.protocol
      BY <1>1, <2>1 DEF Shaped
    <2>3. ~Bare(tier) => Good(draft', draft'.token) /\ Complete(draft') /\ draft'.url.site # ""
      <3> SUFFICES ASSUME ~Bare(tier)
                   PROVE  Good(draft', draft'.token) /\ Complete(draft') /\ draft'.url.site # ""
        OBVIOUS
      <3>1. WirePath(draft') = WirePath(draft)
        BY <2>2 DEF WirePath
      <3>2. OnePath(draft) => OnePath(draft')
        BY <3>1 DEF OnePath
      <3>3. Good(draft', draft'.token) /\ draft'.url.site # ""
        BY <1>1, <2>2, <3>2 DEF Good
      <3> QED BY <1>1, <2>2, <3>3, HostedIsComplete
    <2>4. Held'
      <3> SUFFICES ASSUME NEW t \in typed \cup {tier}, ~Bare(t) PROVE InUse(t)'
        BY <1>2, <2>1 DEF Held
      <3>1. CASE t = tier
        BY <1>1, <2>1, <2>2, <2>3, <3>1 DEF InUse
      <3>2. CASE t # tier
        <4>1. InUse(t)' = InUse(t)
          BY <1>1, <2>1, <3>2 DEF InUse
        <4> QED BY <1>1, <3>2, <4>1 DEF IInv, Held
      <3> QED BY <3>1, <3>2
    <2>5. Usable(main)' = Usable(main)
      BY <2>1
    <2>6. (stage = "accept" /\ ~Bare(tier) =>
             /\ Shaped(draft) /\ Good(draft, draft.token)
             /\ Provider = "" => Complete(draft))'
      BY <1>1, <1>2, <2>2, <2>3 DEF Shaped, Good, Complete
    <2>7. typed' \subseteq (IF tier' = "main" THEN {"main"} ELSE {"main", "cheap"})
      BY <1>1, <2>1 DEF IInv
    <2> QED BY <1>1, <1>2, <2>1, <2>4, <2>5, <2>6, <2>7 DEF IInv, Stages
  <1> QED BY <1>3, <1>4

\* Accepting a draft keeps it: only one without a host goes back to the sources.
LEMMA AcceptKeeps == ASSUME IInv, Accept PROVE IInv'
PROOF
  <1>1. /\ stage = "accept" /\ asked \in {0, 1} /\ source \in 1..5 /\ tier \in {"main", "cheap"}
        /\ UNCHANGED <<file, env, typed>>
        /\ ~Bare(tier) => /\ Shaped(draft) /\ Good(draft, draft.token)
                          /\ Provider = "" => Complete(draft)
        /\ Ordinary /\ ~Bare("main") /\ tier = "cheap" => Usable(main)
        /\ typed \subseteq (IF tier = "main" THEN {"main"} ELSE {"main", "cheap"})
    BY DEF IInv, Accept
  <1>2. Known' /\ (\A t : Bare(t)' = Bare(t)) /\ (tier' = tier => Provider' = Provider)
    BY <1>1, Fixed DEF IInv
  <1>3. ~Bare(tier) => Shaped(Finalized(draft)) /\ (Ordinary => Usable(Finalized(draft)))
    BY <1>1, FinalizedIsUsable
  <1>4. ASSUME NEW t \in typed, ~Bare(t)
        PROVE  IF t = tier THEN Finalized(draft).token = "command" /\ Finalized(draft).url.site # ""
               ELSE t = "main" /\ tier = "cheap" /\ main.token = "command" /\ main.url.site # ""
    <2>1. InUse(t)
      BY <1>1, <1>4 DEF IInv, Held
    <2>2. CASE t = tier
      <3>1. draft.token = "command" /\ draft.url.site # "" /\ Shaped(draft)
        BY <1>1, <1>4, <2>1, <2>2 DEF InUse
      <3>2. Finalized(draft).token = draft.token /\ Finalized(draft).url = draft.url
        BY <3>1 DEF Finalized, Shaped
      <3> QED BY <2>2, <3>1, <3>2
    <2>3. CASE t # tier
      <3>1. t = "main" /\ tier = "cheap"
        BY <1>1, <1>4, <2>3
      <3> QED BY <2>1, <3>1 DEF InUse
    <2> QED BY <2>2, <2>3
  <1>5. CASE Provider = "" /\ ~Complete(draft)
    <2>1. NextSource /\ UNCHANGED <<tier, asked>> /\ Bare(tier)
      BY <1>1, <1>5 DEF Accept
    <2> QED BY <1>1, <2>1, NextSourceKeeps
  <1>6. CASE ~(Provider = "" /\ ~Complete(draft)) /\ tier = "cheap"
    <2>1. /\ cheap' = Finalized(draft) /\ stage' = "ready"
          /\ UNCHANGED <<source, draft, main, tier, asked>>
      BY <1>6 DEF Accept
    <2>2. Held'
      BY <1>1, <1>2, <1>4, <1>6, <2>1 DEF Held, InUse
    <2> QED BY <1>1, <1>2, <1>3, <1>6, <2>1, <2>2 DEF IInv, Stages
  <1>7. CASE /\ ~(Provider = "" /\ ~Complete(draft)) /\ tier # "cheap"
             /\ env.cheapProvider = "" \/ env.cheapModel = ""
    <2>1. /\ main' = Finalized(draft) /\ stage' = "ready" /\ UNCHANGED <<source, draft, tier, asked>>
          /\ cheap' = IF env.cheapProvider = "" /\ env.cheapModel # ""
                      THEN [Finalized(draft) EXCEPT !.model = env.cheapModel] ELSE Finalized(draft)
      BY <1>7 DEF Accept
    <2>2. tier = "main"
      BY <1>1, <1>7
    <2>3. Held'
      BY <1>1, <1>2, <1>4, <2>1, <2>2 DEF Held, InUse
    <2>4. ~Bare("main") /\ Ordinary => Usable(main') /\ Usable(cheap')
      <3> SUFFICES ASSUME ~Bare("main"), Ordinary PROVE Usable(main') /\ Usable(cheap')
        OBVIOUS
      <3>1. env.cheapModel # "" => Usable([Finalized(draft) EXCEPT !.model = env.cheapModel])
        BY <1>3, <2>2, RenamedIsUsable
      <3> QED BY <1>3, <2>1, <2>2, <3>1
    <2> QED BY <1>1, <1>2, <2>1, <2>2, <2>3, <2>4 DEF IInv, Stages
  <1>8. CASE /\ ~(Provider = "" /\ ~Complete(draft)) /\ tier # "cheap"
             /\ ~(env.cheapProvider = "" \/ env.cheapModel = "")
    <2>1. /\ main' = Finalized(draft) /\ stage' = "overrides" /\ source' = 1
          /\ tier' = "cheap" /\ asked' = 0
      BY <1>8 DEF Accept
    <2>2. tier = "main" /\ typed' \subseteq {"main"}
      BY <1>1, <1>8
    <2>3. Held'
      BY <1>1, <1>2, <1>4, <2>1, <2>2 DEF Held, InUse
    <2>4. ~Bare("main") /\ Ordinary => Usable(main')
      BY <1>3, <2>1, <2>2
    <2>5. /\ source' \in 1..5 /\ asked' \in {0, 1} /\ "cheap" \notin typed'
          /\ tier' \in {"main", "cheap"} /\ typed' \subseteq {"main", "cheap"}
      BY <2>1, <2>2
    <2>6. stage' \in Stages
      BY <2>1 DEF Stages
    <2> QED BY <1>2, <2>1, <2>3, <2>4, <2>5, <2>6 DEF IInv
  <1> QED BY <1>5, <1>6, <1>7, <1>8

\* Every step keeps the invariant.
LEMMA NextKeeps == IInv /\ [Next]_vars => IInv'
PROOF
  <1> SUFFICES ASSUME IInv, [Next]_vars PROVE IInv'
    OBVIOUS
  <1>1. CASE ParseOverrides
    BY <1>1, OverridesKeep
  <1>2. CASE TrySource
    BY <1>2, TryKeeps
  <1>3. CASE ChildExits
    BY <1>3, ChildKeeps DEF ChildExits
  <1>4. CASE ChildTick
    BY <1>4, ChildKeeps DEF ChildTick
  <1>5. CASE KeyCmdDone
    BY <1>5, KeyCmdKeeps
  <1>6. CASE Accept
    BY <1>6, AcceptKeeps
  <1>7. CASE UNCHANGED vars
    BY <1>7, ChildKeeps DEF vars
  <1> QED BY <1>1, <1>2, <1>3, <1>4, <1>5, <1>6, <1>7 DEF Next

-----------------------------------------------------------------------------
(* Theorems *)

\* When no model is called by a suffix alone and no URL has messages inside its
\* path, both tiers that resolver.go:128 and tiers.go:49 return are usable, but for
\* a Bedrock entry without a host: a model, and a host with a credential of the
\* same source, or Bedrock.
THEOREM EndpointsAreOfOneSource == Named /\ PlainUrls => (Spec => []OneSource)
PROOF
  <1> SUFFICES ASSUME Named, PlainUrls PROVE Spec => []OneSource
    OBVIOUS
  <1>1. IInv /\ [Next]_vars => IInv'
    BY NextKeeps
  <1>2. IInv => OneSource
    <2> SUFFICES ASSUME IInv PROVE OneSource
      OBVIOUS
    <2> QED BY DEF IInv, OneSource, Ordinary
  <1> QED BY <1>1, <1>2, InitEstablishes, PTL DEF Spec

\* Whatever the files and the environments: the credential command of
\* resolver.go:582 runs at most once for a tier, and its key stays in use to the
\* end, but for the entry without a host and a cheap tier that cannot be resolved
\* (tiers.go:84).
THEOREM PromptsAreNotWasted == Spec => []PromptsAreUsed
PROOF
  <1>1. IInv => PromptsAreUsed
    <2> SUFFICES ASSUME IInv PROVE PromptsAreUsed
      OBVIOUS
    <2>1. asked \in {0, 1} /\ Held
      BY Zenon DEF IInv
    <2>2. asked <= 1
      BY <2>1
    <2> QED BY <2>1, <2>2 DEF Held, PromptsAreUsed
  <1> QED BY <1>1, NextKeeps, InitEstablishes, PTL DEF Spec
=============================================================================
