------------------------------ MODULE Endpoint ------------------------------
(***************************************************************************)
(* Which model endpoint a run talks to, and with which credential          *)
(* (internal/llm/resolver.go, tiers.go, providers.go, protocol.go,         *)
(* keycmd.go): the main tier, then the cheap tier, each from the first of  *)
(* five sources that is complete, a credential command included.           *)
(*                                                                         *)
(* A URL is the source that named its host and the segments of its path; a *)
(* token is the source it came from.  "" is an absent text and "blank" one *)
(* that is all white space.  A model request on the endpoint is            *)
(* ModelCalls.                                                             *)
(***************************************************************************)
EXTENDS Integers, Sequences, SequencesExt

CONSTANTS
  Worlds,           \* bound: pairs of a configuration file and an environment
  MaxTimeoutSec,    \* the largest timeout a time.Duration can hold
  KeyCmdTimeout,    \* keyCmdTimeout, in ticks
  KeyCmdWaitDelay   \* keyCmdWaitDelay, in ticks

ASSUME EndpointAssumption ==
  MaxTimeoutSec \in Nat /\ KeyCmdTimeout \in Nat \ {0} /\ KeyCmdWaitDelay \in Nat

\* The URL a source gives, if it does: its host is the source.
Url(site) == {u \in [site : {"", site}, path : Seq(STRING)] : u.site = "" => u.path = << >>}

\* A provider entry, or the older llm block.
EntryType ==
  [key : STRING, cmd : STRING, url : Url("file"), protocol : STRING, auth : STRING,
   model : STRING, models : SUBSET STRING, timeout : Int, codes : SUBSET Int,
   headers : SUBSET STRING, useAnthropic : BOOLEAN]
FileType ==
  [is : {"absent", "broken", "ok"}, provider : STRING, name : STRING, preset : BOOLEAN,
   model : STRING, entry : EntryType, llm : EntryType]
\* Which of the three variables a gateway's source sets.
Gives == SUBSET {"url", "token", "model"}
EnvType ==
  [provider : STRING, model : STRING, keys : SUBSET (STRING \ {""}), cc : Gives,
   rc : [rc1 : Gives, rc2 : Gives],
   sacr : [url : Url("sacr"), token : {"", "sacr"}, model : STRING, protocol : STRING,
           useAnthropic : BOOLEAN, auth : STRING],
   timeout : SUBSET Int, headers : SUBSET STRING, cheapProvider : STRING, cheapModel : STRING]

ASSUME WorldsAssumption == \A w \in Worlds : w.file \in FileType /\ w.env \in EnvType

VARIABLES
  file,      \* the configuration file
  env,       \* the environment
  tier,      \* the tier being resolved
  stage,     \* "overrides", "try", "command", "accept", "ready" or "failed"
  source,    \* the source being tried
  draft,     \* the endpoint found, possibly without its token
  child,     \* the credential command
  asked,     \* credential commands started for this tier
  typed,     \* history: the tiers a command answered with a key for
  main,      \* the resolved endpoints
  cheap

vars == <<file, env, tier, stage, source, draft, child, asked, typed, main, cheap>>

Trim(text) == IF text = "blank" THEN "" ELSE text

-----------------------------------------------------------------------------
(* Protocols, presets and the checks that cost nothing *)

Anthropic == "anthropic"
OpenAI == "openai"
Responses == "openai-responses"
Bedrock == "anthropic-bedrock"

NormalizeProtocol(raw) ==
  CASE raw = "ANTHROPIC" -> Anthropic
    [] raw = "blank" -> ""
    [] OTHER -> raw
ValidProtocol(p) == p \in {Anthropic, OpenAI, Responses, Bedrock}

NoUrl == [site |-> "", path |-> << >>]
Messages == <<"v1", "messages">>

\* The registry, in its order; two models of each preset stand for its list.
Registry == <<
  [name |-> "anthropic", protocol |-> Anthropic, url |-> [site |-> "anthropic", path |-> << >>],
   auth |-> "x-api-key", key |-> "ANTHROPIC_API_KEY", models |-> <<"opus", "sonnet">>, ambient |-> FALSE],
  [name |-> "bedrock", protocol |-> Bedrock, url |-> NoUrl,
   auth |-> "", key |-> "", models |-> <<"us.opus">>, ambient |-> TRUE],
  [name |-> "openai", protocol |-> OpenAI, url |-> [site |-> "openai", path |-> <<"v1">>],
   auth |-> "", key |-> "OPENAI_API_KEY", models |-> <<"gpt">>, ambient |-> FALSE],
  [name |-> "openai-responses", protocol |-> Responses, url |-> [site |-> "openai", path |-> <<"v1">>],
   auth |-> "", key |-> "OPENAI_RESPONSES_API_KEY", models |-> <<"sol">>, ambient |-> FALSE],
  [name |-> "deepseek", protocol |-> OpenAI, url |-> [site |-> "deepseek", path |-> << >>],
   auth |-> "", key |-> "DEEPSEEK_API_KEY", models |-> <<"chat">>, ambient |-> FALSE]>>

IsPreset(name) == \E p \in ToSet(Registry) : p.name = name
LookupProvider(name) == CHOOSE p \in ToSet(Registry) : p.name = name

\* NormalizeAuthHeader, with the default of the protocol.
ValidAuth(raw) == Trim(raw) \in {"", "x-api-key", "authorization", "Bearer"}
AuthHeader(protocol, raw) ==
  IF protocol # Anthropic THEN ""
  ELSE IF Trim(raw) = "x-api-key" THEN "x-api-key" ELSE "authorization"

ValidateTimeoutSec(sec) == sec \in 0..MaxTimeoutSec
ValidRetryCodes(codes) == codes \subseteq 400..499
SanitizeRetryCodes(codes) == codes \ {408, 409, 429}
ReservedHeaders == {"authorization", "x-api-key", "content-type", "user-agent"}

\* ensureMessagesSuffix
EnsureMessages(url) ==
  LET p == url.path IN
  IF IsSuffix(Messages, p) THEN url
  ELSE IF p # << >> /\ p[Len(p)] = "v1" THEN [url EXCEPT !.path = Append(p, "messages")]
  ELSE IF "v1" \in ToSet(p) THEN url
  ELSE [url EXCEPT !.path = p \o Messages]

StripModelSuffix(model) ==
  CASE model = "opus[1m]" -> "opus" [] model = "[1m]" -> "" [] OTHER -> model

\* The path a client asks the host for (the constructors of the clients).
Endpath(protocol) == CASE protocol = Anthropic -> Messages
                     [] protocol = Responses -> <<"responses">>
                     [] OTHER -> <<"chat", "completions">>
WirePath(ep) == LET t == Endpath(ep.protocol) IN
  IF IsSuffix(t, ep.url.path) THEN ep.url.path ELSE ep.url.path \o t

-----------------------------------------------------------------------------
(* The five sources.  Each answers "skip", "error", or an endpoint, which    *)
(* may still need its token from a command.                                  *)

None == [url |-> NoUrl, token |-> "", model |-> "", protocol |-> "", auth |-> "", source |-> "",
         timeout |-> 0, codes |-> {}, headers |-> {}, ambient |-> FALSE]
Answer(kind, ep) == [kind |-> kind, ep |-> ep]
Skip == Answer("skip", None)
Error == Answer("error", None)
Found(ep) == Answer("found", ep)
Ask(ep) == Answer("ask", ep)

\* --provider and --model of the tier.
ProviderOf(t) == IF t = "main" THEN env.provider ELSE env.cheapProvider
Provider == ProviderOf(tier)
Override == IF tier = "main" THEN env.model ELSE env.cheapModel
FirstOf(texts) ==
  IF \A i \in DOMAIN texts : texts[i] = "" THEN ""
  ELSE texts[CHOOSE i \in DOMAIN texts : texts[i] # "" /\ \A j \in 1..(i - 1) : texts[j] = ""]

\* The API key of a provider entry before any command runs: its own, else the
\* preset's variable when no command is configured either.
EntryKey(entry, name) ==
  IF Trim(entry.key) # "" THEN "file"
  ELSE IF Trim(entry.cmd) = "" /\ IsPreset(name) /\ LookupProvider(name).key \in env.keys
       THEN LookupProvider(name).key ELSE ""

EntryProtocol(entry, name) ==
  IF entry.protocol = "" /\ IsPreset(name) THEN LookupProvider(name).protocol
  ELSE NormalizeProtocol(entry.protocol)

Ambient(entry, name) ==
  \/ EntryProtocol(entry, name) = Bedrock
  \/ IsPreset(name) /\ LookupProvider(name).ambient /\ entry.protocol = ""

EntryUrl(entry, name) ==
  IF entry.url = NoUrl /\ IsPreset(name) THEN LookupProvider(name).url ELSE entry.url

EntryAuth(entry, name) ==
  FirstOf(<<entry.auth, IF IsPreset(name) THEN LookupProvider(name).auth ELSE "", "authorization">>)

Models(entry, name) ==
  entry.models \cup (IF IsPreset(name) THEN ToSet(LookupProvider(name).models) ELSE {})

\* Everything tryProviderConfig checks before it runs api_key_cmd.
EntryIsValid(entry, name, model) ==
  /\ ValidProtocol(EntryProtocol(entry, name))
  /\ IsPreset(name) \/ (entry.protocol # "" /\ (entry.url # NoUrl \/ Ambient(entry, name)))
  /\ EntryKey(entry, name) # "" \/ Trim(entry.cmd) # "" \/ Ambient(entry, name)
  /\ (Override # "" /\ ~Ambient(entry, name) /\ Models(entry, name) # {}) =>
       Override \in Models(entry, name)
  /\ model # ""
  /\ EntryProtocol(entry, name) = Anthropic => ValidAuth(EntryAuth(entry, name))
  /\ ValidateTimeoutSec(entry.timeout) /\ ValidRetryCodes(entry.codes)

\* tryProviderConfig: the section that counts is the one of the name's kind.
TryProviderConfig(name, fileModel) ==
  LET entry == file.entry
      protocol == EntryProtocol(entry, name)
      model == FirstOf(<<Override, entry.model, fileModel>>)
      ep == [url |-> IF protocol = Anthropic THEN EnsureMessages(EntryUrl(entry, name))
                     ELSE EntryUrl(entry, name),
             token |-> EntryKey(entry, name), model |-> model, protocol |-> protocol,
             auth |-> AuthHeader(protocol, EntryAuth(entry, name)), source |-> "provider",
             timeout |-> entry.timeout, codes |-> SanitizeRetryCodes(entry.codes),
             headers |-> entry.headers, ambient |-> Ambient(entry, name)]
  IN IF file.name # name \/ file.preset # IsPreset(name) THEN Error
     ELSE IF ~EntryIsValid(entry, name, model) THEN Error
     ELSE IF ep.token = "" /\ ~ep.ambient THEN Ask(ep) ELSE Found(ep)

\* A protocol by name, or by the older use_anthropic switch.
ChosenProtocol(raw, useAnthropic) ==
  IF Trim(raw) # "" THEN NormalizeProtocol(raw)
  ELSE IF useAnthropic THEN Anthropic ELSE OpenAI
PlainProtocol(p) == ValidProtocol(p) /\ p # Bedrock

\* Mutant of TryLegacyLlmConfig: a block without a model asks for its token.
TryLegacyLlmConfig_NoModel(block) ==
  LET protocol == ChosenProtocol(block.protocol, block.useAnthropic)
      ep == [None EXCEPT !.url = block.url, !.token = IF Trim(block.key) # "" THEN "file" ELSE "",
               !.model = FirstOf(<<Override, block.model>>), !.protocol = protocol,
               !.auth = AuthHeader(protocol, block.auth), !.source = "file",
               !.timeout = block.timeout, !.codes = SanitizeRetryCodes(block.codes),
               !.headers = block.headers]
  IN IF block.url = NoUrl \/ (ep.token = "" /\ Trim(block.cmd) = "") THEN Skip
     ELSE IF \/ ~PlainProtocol(protocol)
             \/ protocol = Anthropic /\ ~ValidAuth(block.auth)
             \/ ~ValidateTimeoutSec(block.timeout) \/ ~ValidRetryCodes(block.codes) THEN Error
     ELSE IF ep.token = "" THEN Ask(ep) ELSE Found(ep)

\* tryLegacyLlmConfig: an incomplete block is passed over, a wrong one fails.
TryLegacyLlmConfig(block) ==
  LET protocol == ChosenProtocol(block.protocol, block.useAnthropic)
      ep == [None EXCEPT !.url = block.url, !.token = IF Trim(block.key) # "" THEN "file" ELSE "",
               !.model = FirstOf(<<Override, block.model>>), !.protocol = protocol,
               !.auth = AuthHeader(protocol, block.auth), !.source = "file",
               !.timeout = block.timeout, !.codes = SanitizeRetryCodes(block.codes),
               !.headers = block.headers]
  IN IF block.url = NoUrl \/ ep.model = "" \/ (ep.token = "" /\ Trim(block.cmd) = "") THEN Skip
     ELSE IF \/ ~PlainProtocol(protocol)
             \/ protocol = Anthropic /\ ~ValidAuth(block.auth)
             \/ ~ValidateTimeoutSec(block.timeout) \/ ~ValidRetryCodes(block.codes) THEN Error
     ELSE IF ep.token = "" THEN Ask(ep) ELSE Found(ep)

\* trySacrConfig: naming another provider drops the model the file names.
TrySacrConfig ==
  CASE file.is = "absent" -> Skip
    [] file.is = "broken" -> Error
    [] OTHER ->
         LET name == FirstOf(<<Provider, file.provider>>)
             fileModel == IF Provider \in {"", file.provider} THEN file.model ELSE ""
         IN IF name # "" THEN TryProviderConfig(name, fileModel) ELSE TryLegacyLlmConfig(file.llm)

\* trysacrEnv
TrySacrEnv ==
  LET s == env.sacr
      protocol == ChosenProtocol(s.protocol, s.useAnthropic)
      model == FirstOf(<<Override, s.model>>)
  IN IF s.url = NoUrl \/ s.token = "" \/ model = "" THEN Skip
     ELSE IF ~PlainProtocol(protocol) \/ (protocol = Anthropic /\ ~ValidAuth(s.auth)) THEN Error
     ELSE Found([None EXCEPT !.url = s.url, !.token = s.token, !.model = model,
                   !.protocol = protocol, !.auth = AuthHeader(protocol, s.auth),
                   !.source = "sacr"])

\* tryProviderEnv: the first preset whose variable is set.
TryProviderEnv ==
  IF \A p \in ToSet(Registry) : p.key \notin env.keys THEN Skip
  ELSE LET p == Registry[Min({i \in DOMAIN Registry : Registry[i].key \in env.keys})]
       IN Found([None EXCEPT !.url = p.url, !.token = p.key, !.protocol = p.protocol,
                   !.model = FirstOf(<<Override, env.model, p.models[1]>>),
                   !.auth = p.auth, !.source = "preset"])

\* resolveAmbientPreset: the endpoint it returns is not marked ambient.
ResolveAmbientPreset(p) ==
  Found([None EXCEPT !.url = p.url, !.protocol = p.protocol, !.auth = p.auth,
           !.model = FirstOf(<<Override, env.model, p.models[1]>>), !.source = "ambient"])

\* tryCCEnv and parseShellRC: an Anthropic gateway, when all three are there.
Gateway(site, token, has) ==
  LET model == FirstOf(<<Override, IF "model" \in has THEN "opus[1m]" ELSE "">>) IN
  IF ~({"url", "token"} \subseteq has) \/ model = "" THEN Skip
  ELSE Found([None EXCEPT !.url = EnsureMessages([site |-> site, path |-> << >>]),
                !.token = token, !.model = model, !.protocol = Anthropic,
                !.auth = "authorization", !.source = site])

\* Mutant of TryShellRC: what one file lacks is taken from the other.
TryShellRC_Merged ==
  Gateway(IF "url" \in env.rc.rc1 THEN "rc1" ELSE "rc2",
          IF "token" \in env.rc.rc1 THEN "rc1" ELSE "rc2", env.rc.rc1 \cup env.rc.rc2)

\* tryShellRC: the first file that has everything; files are not merged.
TryShellRC ==
  IF Gateway("rc1", "rc1", env.rc.rc1).kind = "found" THEN Gateway("rc1", "rc1", env.rc.rc1)
  ELSE Gateway("rc2", "rc2", env.rc.rc2)

Sources == <<"file", "sacr", "preset", "cc", "rc">>
Try(name) ==
  CASE name = "file" -> TrySacrConfig
    [] name = "sacr" -> TrySacrEnv
    [] name = "preset" -> TryProviderEnv
    [] name = "cc" -> Gateway("cc", "cc", env.cc)
    [] name = "rc" -> TryShellRC

Complete(ep) == ep.model # "" /\ (ep.ambient \/ (ep.url # NoUrl /\ ep.token # ""))

\* finalizeResolvedEndpoint: the overrides of the environment come last.
Finalized(ep) ==
  [ep EXCEPT !.model = StripModelSuffix(@), !.headers = @ \cup env.headers,
             !.timeout = IF env.timeout = {} THEN @ ELSE CHOOSE t \in env.timeout : TRUE]

-----------------------------------------------------------------------------
(* One resolution: overrides, sources in turn, a command, the other tier *)

Idle == [age |-> 0, exited |-> -1, ok |-> FALSE, out |-> "", orphan |-> FALSE]

Init ==
  /\ \E w \in Worlds : file = w.file /\ env = w.env
  /\ tier = "main" /\ stage = "overrides" /\ source = 1
  /\ draft = None /\ child = Idle /\ asked = 0 /\ typed = {}
  /\ main = None /\ cheap = None

\* ResolveTiers returns no tier at all when either fails.
Fail == stage' = "failed" /\ main' = None /\ UNCHANGED <<source, draft, cheap>>

NextSource ==
  IF source = Len(Sources) THEN Fail
  ELSE source' = source + 1 /\ stage' = "try" /\ UNCHANGED <<draft, main, cheap>>

\* parseEnvOverrides and parseTimeoutEnv, before any source is looked at.
ParseOverrides ==
  /\ stage = "overrides"
  /\ IF /\ \A t \in env.timeout : ValidateTimeoutSec(t)
        /\ env.headers \cap ReservedHeaders = {}
     THEN stage' = "try" /\ UNCHANGED <<source, draft, main, cheap>>
     ELSE Fail
  /\ UNCHANGED <<file, env, tier, child, asked, typed>>

\* An explicit provider is looked for in the file only, a preset with ambient
\* credentials excepted when there is no file.
TrySource ==
  /\ stage = "try"
  /\ LET answer == Try(Sources[source]) IN
     \/ answer.kind = "error" /\ Fail /\ UNCHANGED asked
     \/ /\ answer.kind = "skip" /\ Provider = "" /\ NextSource /\ UNCHANGED asked
     \/ /\ answer.kind = "skip" /\ Provider # "" /\ UNCHANGED asked
        /\ IF IsPreset(Provider) /\ LookupProvider(Provider).ambient
           THEN /\ draft' = ResolveAmbientPreset(LookupProvider(Provider)).ep
                /\ stage' = "accept" /\ UNCHANGED <<source, main, cheap>>
           ELSE Fail
     \/ /\ answer.kind \in {"found", "ask"} /\ draft' = answer.ep
        /\ stage' = IF answer.kind = "ask" THEN "command" ELSE "accept"
        /\ asked' = IF answer.kind = "ask" THEN asked + 1 ELSE asked
        /\ UNCHANGED <<source, main, cheap>>
  /\ child' = Idle
  /\ UNCHANGED <<file, env, tier, typed>>

\* The command ends by itself; a process it left behind may hold its output.
ChildExits ==
  /\ stage = "command" /\ child.exited = -1 /\ child.age < KeyCmdTimeout
  /\ \E out \in {"key", "lines", "large", ""}, ok, orphan \in BOOLEAN :
       child' = [age |-> child.age, exited |-> child.age, ok |-> ok, out |-> out, orphan |-> orphan]
  /\ UNCHANGED <<file, env, tier, stage, source, draft, asked, typed, main, cheap>>

\* Run returns when the output is closed, or the wait for that is over.
Returns ==
  IF child.exited >= 0
  THEN ~child.orphan \/ child.age = child.exited + KeyCmdWaitDelay
  ELSE child.age = KeyCmdTimeout + KeyCmdWaitDelay

ChildTick ==
  /\ stage = "command" /\ ~Returns
  /\ child' = [child EXCEPT !.age = @ + 1]
  /\ UNCHANGED <<file, env, tier, stage, source, draft, asked, typed, main, cheap>>

\* resolveKeyCmd: too late, too much, a failure and more than a line are errors.
KeyCmdDone ==
  /\ stage = "command" /\ Returns
  /\ IF child.age < KeyCmdTimeout /\ child.ok /\ child.out = "key"
     THEN /\ draft' = [draft EXCEPT !.token = "command"] /\ stage' = "accept"
          /\ typed' = typed \cup {tier} /\ UNCHANGED <<source, main, cheap>>
     ELSE Fail /\ UNCHANGED typed
  /\ UNCHANGED <<file, env, tier, child, asked>>

\* ResolveTiers: without a cheap provider the cheap tier is the main client,
\* possibly with another model.
Accept ==
  /\ stage = "accept"
  /\ IF Provider = "" /\ ~Complete(draft) THEN NextSource /\ UNCHANGED <<tier, asked>>
     ELSE IF tier = "cheap" THEN
       /\ cheap' = Finalized(draft) /\ stage' = "ready"
       /\ UNCHANGED <<source, draft, main, tier, asked>>
     ELSE IF env.cheapProvider = "" \/ env.cheapModel = "" THEN
       /\ main' = Finalized(draft) /\ stage' = "ready"
       /\ cheap' = IF env.cheapProvider = "" /\ env.cheapModel # ""
                   THEN [main' EXCEPT !.model = env.cheapModel] ELSE main'
       /\ UNCHANGED <<source, draft, tier, asked>>
     ELSE
       /\ main' = Finalized(draft) /\ tier' = "cheap" /\ stage' = "overrides"
       /\ source' = 1 /\ draft' = None /\ asked' = 0 /\ UNCHANGED cheap
  /\ UNCHANGED <<file, env, child, typed>>

Next == ParseOverrides \/ TrySource \/ ChildExits \/ ChildTick \/ KeyCmdDone \/ Accept

Spec == Init /\ [][Next]_vars

-----------------------------------------------------------------------------
(* Properties *)

\* An entry may turn the Bedrock preset to another protocol and give no URL: the
\* host it lacks is missed by no check.  Bare(t): the tier is to be taken from it.
Hostless(f) == /\ f.name = "bedrock" /\ f.entry.url = NoUrl
               /\ f.entry.protocol \notin {"", "anthropic-bedrock"}
Bare(t) == Hostless(file) /\ FirstOf(<<ProviderOf(t), file.provider>>) = "bedrock"

\* A model of that name is no name once StripModelSuffix is through with it.
ModelNames(w) == {w.env.model, w.env.cheapModel, w.env.sacr.model, w.file.model,
                  w.file.entry.model, w.file.llm.model}
Named == \A w \in Worlds : "[1m]" \notin ModelNames(w)

\* A path says messages at most at its end, after v1.
PlainPath(path) ==
  \A i \in DOMAIN path : path[i] = "messages" => i = Len(path) /\ i > 1 /\ path[i - 1] = "v1"
PlainUrls == \A w \in Worlds : \A u \in {w.file.entry.url, w.file.llm.url, w.env.sacr.url} :
               PlainPath(u.path)

\* The token goes to a host of the source it came from: a file's to what the
\* file names, a preset's variable to that preset or to the URL an entry gives
\* it, the others to their own URL.
Paired(site, token) ==
  CASE site = "file" -> token \in {"file", "command"} \cup {p.key : p \in ToSet(Registry)}
    [] IsPreset(site) ->
         token \in {"file", "command"} \cup
           {p.key : p \in {q \in ToSet(Registry) : q.url.site = site}}
    [] OTHER -> token = site

\* The path the host is asked for names its messages once.
OnePath(ep) ==
  LET path == WirePath(ep) IN
  \A i, j \in DOMAIN path : path[i] = "messages" /\ path[j] = "messages" => i = j

\* Unless a tier is to be taken from an entry without a host, both are usable: a
\* model, and a host with a credential of the same source and one messages path,
\* or Bedrock, which needs neither.
Usable(ep) ==
  /\ ep.model # "" /\ ValidProtocol(ep.protocol)
  /\ ep.protocol = Bedrock \/
       (ep.url.site # "" /\ ep.token # "" /\ Paired(ep.url.site, ep.token) /\ OnePath(ep))
OneSource ==
  stage = "ready" /\ ~Bare("main") /\ ~Bare("cheap") => Usable(main) /\ Usable(cheap)

\* The key a person typed for a tier is on its way into the endpoint of that tier,
\* or there, and the endpoint has a host to send it to.
InUse(t) ==
  LET ep == IF t = tier /\ stage = "accept" THEN draft
            ELSE IF t = "main" THEN main ELSE cheap
  IN ep.token = "command" /\ ep.url.site # ""

\* A credential command runs at most once for a tier, and the key it answers with
\* is used until the end, through the other sources and the other tier: a tier
\* loses it only by the entry without a host, and the main tier when the cheap one
\* cannot be resolved.
PromptsAreUsed ==
  /\ asked <= 1
  /\ \A t \in typed : InUse(t) \/ Bare(t) \/ (t = "main" /\ tier = "cheap" /\ stage = "failed")

-----------------------------------------------------------------------------
(* Claims of comments that the runs refute *)

\* internal/llm/tiers.go:46-47: "a broken cheap-provider config never
\* accidentally breaks the reviewer path".
BrokenCheapKeepsMain == ~(stage = "failed" /\ tier = "cheap")

\* internal/llm/resolver.go:406-408: "a config typo must not trigger a
\* secret-manager prompt before the cheap validation below has had a chance to
\* fail".
NoPromptIsWasted == \A t \in typed : InUse(t)

\* internal/llm/resolver.go:919-920: "extra_headers must not override" them.
ReservedHeadersKept == main.headers \cap ReservedHeaders = {}
=============================================================================
