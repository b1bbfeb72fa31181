----------------------------- MODULE MCEndpoint -----------------------------
(***************************************************************************)
(* Configuration files and environments for Endpoint: every provider entry *)
(* and legacy block over small sets of fields, against a few environments, *)
(* and every environment against a few files.                              *)
(***************************************************************************)
EXTENDS Endpoint

Entry == [key |-> "", cmd |-> "", url |-> NoUrl, protocol |-> "", auth |-> "", model |-> "",
          models |-> {}, timeout |-> 0, codes |-> {}, headers |-> {}, useAnthropic |-> TRUE]
File == [is |-> "absent", provider |-> "", name |-> "", preset |-> FALSE, model |-> "",
         entry |-> Entry, llm |-> Entry]
Env == [provider |-> "", model |-> "", keys |-> {}, cc |-> {}, rc |-> [rc1 |-> {}, rc2 |-> {}],
        sacr |-> [url |-> NoUrl, token |-> "", model |-> "", protocol |-> "",
                  useAnthropic |-> TRUE, auth |-> ""],
        timeout |-> {}, headers |-> {}, cheapProvider |-> "", cheapModel |-> ""]

FileUrl == [site |-> "file", path |-> <<"v1">>]
Entries ==
  {[Entry EXCEPT !.key = k, !.cmd = c, !.url = u, !.protocol = p, !.auth = a, !.model = m, !.timeout = t] :
     k \in {"", "blank", "K"}, c \in {"", "C"}, u \in {NoUrl, FileUrl},
     p \in {"", "ANTHROPIC", "openai", "anthropic-bedrock"}, a \in {"", "cookie"},
     m \in {"", "sonnet"}, t \in {0, 61}}
NamedFiles == {[File EXCEPT !.is = "ok", !.provider = n, !.name = n, !.preset = IsPreset(n), !.entry = e] :
                 n \in {"anthropic", "bedrock", "corp"}, e \in Entries}
LegacyFiles ==
  {[File EXCEPT !.is = "ok", !.llm = [b EXCEPT !.useAnthropic = x, !.protocol = p]] :
     b \in {e \in Entries : e.protocol = ""}, x \in BOOLEAN, p \in {"", "openai", "anthropic-bedrock"}}
FewFiles ==
  {File, [File EXCEPT !.is = "broken"],
   [File EXCEPT !.is = "ok", !.name = "anthropic", !.preset = TRUE,
                !.entry = [Entry EXCEPT !.cmd = "C", !.codes = {409, 418}, !.headers = {"x-org"}]],
   [File EXCEPT !.is = "ok", !.provider = "corp", !.model = "big", !.name = "corp",
                !.entry = [Entry EXCEPT !.key = "K", !.url = FileUrl, !.protocol = "openai"]]}

Sacr == [url |-> [site |-> "sacr", path |-> <<"v1", "x">>], token |-> "sacr", model |-> "",
         protocol |-> "", useAnthropic |-> FALSE, auth |-> "blank"]
FewEnvs ==
  {Env, [Env EXCEPT !.model = "sonnet"], [Env EXCEPT !.model = "other", !.timeout = {0}],
   [Env EXCEPT !.keys = {"ANTHROPIC_API_KEY"}],
   [Env EXCEPT !.cheapProvider = "corp", !.cheapModel = "small", !.cc = {"url", "token", "model"}]}
Overrides == [provider : {"", "bedrock", "anthropic", "nowhere"}, model : {"", "sonnet"},
              cheapProvider : {"", "anthropic"}, cheapModel : {"", "opus"}]
Envs ==
  {[Env EXCEPT !.provider = o.provider, !.model = o.model, !.cheapProvider = o.cheapProvider,
               !.cheapModel = o.cheapModel, !.keys = k, !.cc = c] :
     o \in Overrides, k \in {{}, {"ANTHROPIC_API_KEY"}, {"OPENAI_API_KEY", "DEEPSEEK_API_KEY"}},
     c \in {{}, {"url", "token"}, {"url", "token", "model"}}}
  \cup {[Env EXCEPT !.rc = [rc1 |-> a, rc2 |-> b], !.model = m, !.sacr = s, !.timeout = t, !.headers = h] :
     a \in {{}, {"url", "model"}, {"url", "token"}, {"url", "token", "model"}},
     b \in {{}, {"token"}, {"url", "token", "model"}}, m \in {"", "opus"},
     s \in {Env.sacr, Sacr, [Sacr EXCEPT !.model = "gpt", !.protocol = "ANTHROPIC"],
            [Sacr EXCEPT !.model = "gpt", !.protocol = "grpc"]},
     t \in {{}, {30}, {61}}, h \in {{}, {"x-org"}, {"authorization"}}}

Pairs(files, envs) == {[file |-> f, env |-> e] : f \in files, e \in envs}
MCWorlds == Pairs({f \in NamedFiles : ~Hostless(f)}, FewEnvs) \cup Pairs(LegacyFiles, FewEnvs)
            \cup Pairs(FewFiles, Envs)
HostlessFiles == {f \in NamedFiles : Hostless(f)}
WithBlock(f) == [f EXCEPT !.provider = "", !.llm = [Entry EXCEPT !.cmd = "C", !.url = FileUrl, !.model = "big"]]
HostlessWorlds ==
  Pairs(HostlessFiles \cup {WithBlock(f) : f \in HostlessFiles},
        FewEnvs \cup {[Env EXCEPT !.provider = o.provider, !.cheapProvider = o.cheapProvider,
                                 !.cheapModel = o.cheapModel] :
                      o \in [provider : {"", "bedrock"}, cheapProvider : {"", "bedrock"},
                             cheapModel : {"", "us.opus"}]})
AllWorlds == MCWorlds \cup HostlessWorlds
HeaderWorlds == Pairs({[f EXCEPT !.entry.headers = {"authorization"}] : f \in NamedFiles}, {Env})
=============================================================================
