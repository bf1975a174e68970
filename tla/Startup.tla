------------------------------- MODULE Startup -------------------------------
(***************************************************************************)
(* How cps comes to run (cps/main.rs, cps-config): .env, the command line, *)
(* the configuration file, its interpolation, parsing and validation, and  *)
(* the overrides of the environment and of the command line.               *)
(*                                                                         *)
(* A configuration file is a record                                        *)
(*   texts   the settings written as texts, by their dotted names, and     *)
(*           "comment"; each is a sequence of pieces (Source below)        *)
(*   given   the settings written as numbers, flags and lists              *)
(* A reference stays within a setting and a value is one plain YAML        *)
(* scalar, which the parser reads without the blanks around it.            *)
(*                                                                         *)
(*   pc        the next step of run(), or how it ended                     *)
(*   shell     the environment the process was started with                *)
(*   dotenv    the lines of .env in the working directory                  *)
(*   cli       the command line                                            *)
(*   files     the configuration files                                     *)
(*   env       the environment of the process                              *)
(*   path      the configuration file in use, None for none                *)
(*   read      what was read of it                                         *)
(*   config    the configuration                                           *)
(*   failed    why the last start failed, None if it did not               *)
(*   session   what runs after a start                                     *)
(***************************************************************************)
EXTENDS Interpolate, SequencesExt

CONSTANTS
  Shells,        \* environments: from names of variables to texts
  DotEnvs,       \* .env files: sequences of lines [name, value] or Malformed
  CommandLines,
  Disks,         \* the configuration files, from paths to files or Unreadable
  Malformed,     \* a line dotenvy cannot parse
  Unreadable,    \* a file that exists and cannot be read
  None

Local == <<"local">>   \* ./.cmd-proposer.yaml
User == <<"user">>     \* cmd-proposer/config.yaml of the user

ASSUME StartupAssumption ==
  /\ \A c \in CommandLines :
       DOMAIN c = {"config", "offline", "online", "verbose", "init", "intent"}
  /\ \A e \in Shells : \A n \in DOMAIN e : e[n] \in Seq(STRING)
  /\ DotEnvs \subseteq Seq([name : STRING, value : Seq(STRING)] \cup {Malformed})
  /\ \A d \in Disks : \A p \in DOMAIN d :
       /\ p \in Seq(STRING)
       /\ d[p] = Unreadable \/ DOMAIN d[p] = {"texts", "given"}
  /\ None # "overrides" /\ None \notin Seq(STRING)
  /\ Malformed \notin [name : STRING, value : Seq(STRING)]

VARIABLES pc, shell, dotenv, cli, files, env, path, read, config, failed, session

given == <<shell, dotenv>>
vars == <<pc, given, cli, files, env, path, read, config, failed, session>>

Init ==
  /\ pc = "dotenv"
  /\ shell \in Shells
  /\ dotenv \in DotEnvs
  /\ cli \in CommandLines
  /\ files \in Disks
  /\ env = shell
  /\ path = None
  /\ read = None
  /\ config = None
  /\ failed = None
  /\ session = None

Fail(why) == pc' = "failed" /\ failed' = why

---------------------------------------------------------------------------
(* A text of a file: literals in which every $ is written as $$,           *)
(* references, and raw text.                                               *)
Lit(text) == [lit |-> text]
Ref(name) == [ref |-> name, default |-> None]
RefOr(name, default) == [ref |-> name, default |-> default]
Raw(text) == [raw |-> text]

SourceOf(piece) ==
  CASE "lit" \in DOMAIN piece ->
         FlattenSeq([i \in DOMAIN piece.lit |->
                       IF piece.lit[i] = "$" THEN <<"$", "$">> ELSE <<piece.lit[i]>>])
    [] "ref" \in DOMAIN piece ->
         <<"$", "{", piece.ref>>
           \o (IF piece.default = None THEN <<>> ELSE <<":-">> \o piece.default) \o <<"}">>
    [] "raw" \in DOMAIN piece -> piece.raw

Source(pieces) == FlattenSeq([i \in DOMAIN pieces |-> SourceOf(pieces[i])])

(* A text is taken apart at what pattern() matches: in raw text, whatever  *)
(* comes after it, nothing is matched but a reference that names nothing.  *)
Piece ==
  [lit : Seq(STRING)] \union [raw : Seq(STRING)] \union
  [ref : STRING \ {"}", ":-", Blank}, default : {None} \union Seq(STRING \ {"}"})]

RawBefore(raw, rest) ==
  LET text == raw \o rest
  IN \A i \in DOMAIN raw :
       /\ ~IsEscape(text, i)
       /\ IsReference(text, i) =>
            ~IsName(NameIn(SubSeq(text, i + 2, Min(Closings(text, i)) - 1)))

InPieces(pieces) ==
  /\ pieces \in Seq(Piece)
  /\ \A k \in DOMAIN pieces :
       "raw" \in DOMAIN pieces[k] =>
         RawBefore(pieces[k].raw, Source(SubSeq(pieces, k + 1, Len(pieces))))

ASSUME TextsAssumption ==
  \A d \in Disks : \A p \in DOMAIN d :
    d[p] # Unreadable => \A n \in DOMAIN d[p].texts : InPieces(d[p].texts[n])

---------------------------------------------------------------------------
(* The configuration.  Every section is built from the settings the file   *)
(* gives and, for the others, from its defaults.                           *)
Setting(g, name, default) == IF name \in DOMAIN g THEN g[name] ELSE default

NoSettings == [n \in {} |-> None]

ModelSection(url, key, name, tokenizer, g) ==
  [base_url |-> url, api_key |-> key, model_name |-> name,
   provider |-> Setting(g, "model.provider", "local_openai_compatible"),
   max_context_tokens |-> Setting(g, "model.max_context_tokens", 200000),
   tokenizer |-> [path |-> tokenizer,
                  type |-> Setting(g, "model.tokenizer.type", "huggingface_tokenizer_json")]]

ThinkingSection(g) ==
  [main_agent |-> Setting(g, "thinking.main_agent", 32768),
   subagent_default |-> Setting(g, "thinking.subagent_default", 4096)]

DefaultGlobalTimeoutMs == 1200000
DefaultRequestTimeoutMs == 1200000
DefaultUiProgressIntervalMs == 5000
DefaultRetryDelayMs == 1000
DefaultSubagentsTimeoutMs == 1200000

RuntimeSection(g) ==
  [global_timeout_ms |-> Setting(g, "runtime.global_timeout_ms", DefaultGlobalTimeoutMs),
   request_timeout_ms |-> Setting(g, "runtime.request_timeout_ms", DefaultRequestTimeoutMs),
   ui_progress_interval_ms |-> Setting(g, "runtime.ui_progress_interval_ms", DefaultUiProgressIntervalMs),
   transient_retries |-> Setting(g, "runtime.transient_retries", 2),
   retry_delay_ms |-> Setting(g, "runtime.retry_delay_ms", DefaultRetryDelayMs),
   max_tool_rounds |-> Setting(g, "runtime.max_tool_rounds", 20),
   verbose |-> Setting(g, "runtime.verbose", FALSE)]

DdgProvider ==
  [name |-> "ddg_mcp", type |-> "mcp", command |-> "duckduckgo-mcp",
   timeout_ms |-> 60000, max_results |-> 8]

RedactionRules == <<"hostname", "ipv4", "ipv6", "email", "internal_domain", "k8s_namespace">>

SearchSection(g) ==
  [default_enabled |-> Setting(g, "search.default_enabled", TRUE),
   providers |-> Setting(g, "search.providers", <<DdgProvider>>),
   redact_queries |-> Setting(g, "search.redact_queries", TRUE),
   redaction_rules |-> Setting(g, "search.redaction_rules", RedactionRules),
   internal_domains |-> Setting(g, "search.internal_domains", <<>>),
   sensitive_namespaces |-> Setting(g, "search.sensitive_namespaces", <<>>)]

\* (mistake: info is left out)
HelpAndMan == <<"help", "man">>

DefaultAllowDocActions == <<"help", "man", "info">>

DocRunnerSection(programs, g) ==
  [allow_programs |-> programs,
   sandbox |-> Setting(g, "doc_runner.sandbox", "bwrap"),
   timeout_ms |-> Setting(g, "doc_runner.timeout_ms", 60000),
   max_output_bytes |-> Setting(g, "doc_runner.max_output_bytes", 10485760),
   allow_doc_actions |-> Setting(g, "doc_runner.allow_doc_actions", DefaultAllowDocActions),
   extra_bind_ro |-> Setting(g, "doc_runner.extra_bind_ro", <<>>)]

DocStoreSection(g) ==
  [keep_raw_in_memory |-> Setting(g, "doc_store.keep_raw_in_memory", TRUE),
   persist_cache |-> Setting(g, "doc_store.persist_cache", TRUE),
   cache_dir |-> Setting(g, "doc_store.cache_dir", "~/.cache/cmd-proposer/docs")]

SubagentsSection(g) ==
  [enabled |-> Setting(g, "subagents.enabled", TRUE),
   max_parallel |-> Setting(g, "subagents.max_parallel", 12),
   timeout_ms |-> Setting(g, "subagents.timeout_ms", DefaultSubagentsTimeoutMs),
   kill_on_main_cancel |-> Setting(g, "subagents.kill_on_main_cancel", TRUE)]

ProposalSection(g) ==
  [output_language |-> Setting(g, "proposal.output_language", "zh-CN"),
   require_preflight_for_medium_plus |->
     Setting(g, "proposal.require_preflight_for_medium_plus", TRUE)]

ApprovalSection(g) ==
  [execute_enabled |-> Setting(g, "approval.execute_enabled", FALSE),
   high_risk_requires_typed_confirmation |->
     Setting(g, "approval.high_risk_requires_typed_confirmation", TRUE)]

ExecutionRunnerSection(g) ==
  [audit_log |-> Setting(g, "execution_runner.audit_log", "~/.local/state/cmd-proposer/audit.log")]

HighRiskTokens ==
  <<"delete", "destroy", "apply", "replace", "patch", "restart", "scale", "drain", "uncordon",
    "stop", "disable", "rm", "prune", "force">>

RiskSection(g) ==
  [high_risk_tokens |-> Setting(g, "risk.high_risk_tokens", HighRiskTokens),
   always_require_review |->
     Setting(g, "risk.always_require_review", <<"sudo", "su", "ssh", "bash", "sh", "zsh">>)]

(* The Config with these two sections and the rest as given.               *)
ConfigWith(version, model, doc_runner, g) ==
  [version |-> version, model |-> model, thinking |-> ThinkingSection(g),
   runtime |-> RuntimeSection(g), search |-> SearchSection(g), doc_runner |-> doc_runner,
   doc_store |-> DocStoreSection(g), subagents |-> SubagentsSection(g),
   proposal |-> ProposalSection(g), approval |-> ApprovalSection(g),
   execution_runner |-> ExecutionRunnerSection(g), risk |-> RiskSection(g)]

(* validate: an empty api_key is allowed.                                  *)
Valid(c) ==
  /\ c.model.base_url # <<>>
  /\ c.model.model_name # <<>>
  /\ c.model.tokenizer.path # <<>>
  /\ c.doc_runner.allow_programs # <<>>
  /\ c.approval.execute_enabled => c.approval.high_risk_requires_typed_confirmation
  /\ c.thinking.main_agent < c.model.max_context_tokens

---------------------------------------------------------------------------
(* What run() does before there is a configuration.                        *)

(* dotenvy goes line by line up to the first it cannot parse; run() looks  *)
(* at no error of it.                                                      *)
DotenvVars ==
  LET bad == {i \in DOMAIN dotenv : dotenv[i] = Malformed}
      lines == IF bad = {} THEN dotenv ELSE SubSeq(dotenv, 1, Min(bad) - 1)
  IN [n \in {lines[i].name : i \in DOMAIN lines} |->
        lines[Min({i \in DOMAIN lines : lines[i].name = n})].value]

(* It sets only what is not set yet.                                       *)
WithDotenv ==
  [n \in DOMAIN shell \union DOMAIN DotenvVars |->
     IF n \in DOMAIN shell THEN shell[n] ELSE DotenvVars[n]]

LoadDotenv ==
  /\ pc = "dotenv"
  /\ env' = WithDotenv
  /\ pc' = "arguments"
  /\ UNCHANGED <<given, cli, files, path, read, config, failed, session>>

(* clap: --offline and --online exclude each other, and an argument of the *)
(* main command excludes the subcommand init.                              *)
Conflicting(c) ==
  \/ c.offline /\ c.online
  \/ c.init # None /\ (c.config # None \/ c.offline \/ c.online \/ c.verbose \/ c.intent)

ParseArguments ==
  /\ pc = "arguments"
  /\ cli.init = None \/ Conflicting(cli)
  /\ IF Conflicting(cli) THEN Fail("arguments") ELSE pc' = "resolve" /\ failed' = None
  /\ UNCHANGED <<given, cli, files, env, path, read, config, session>>

MinimalTemplate ==
  [texts |-> [n \in {"model.base_url", "model.api_key", "model.model_name",
                     "model.tokenizer.path"} |->
                CASE n = "model.base_url" -> <<Ref("LOCAL_ROUTER_BASEURL")>>
                  [] n = "model.api_key" -> <<Ref("LOCAL_ROUTER_API_KEY")>>
                  [] n = "model.model_name" -> <<Ref("LLM_MODEL")>>
                  [] OTHER -> <<Lit(<<"~/.local/share/models/qwen/tokenizer.json">>)>>],
   given |-> [n \in {"doc_runner.allow_programs"} |->
                <<"kubectl", "helm", "terraform", "systemctl", "journalctl">>]]

FullTemplate ==
  [texts |-> MinimalTemplate.texts,
   given |-> [n \in {"version", "doc_runner.allow_programs"} |->
                IF n = "version" THEN 1 ELSE <<"kubectl", "helm", "terraform">>]]

(* The words of the templates are texts: no prover knows it of a literal.  *)
ASSUME WordsAssumption ==
  {"LOCAL_ROUTER_BASEURL", "LOCAL_ROUTER_API_KEY", "LLM_MODEL",
   "~/.local/share/models/qwen/tokenizer.json"} \subseteq STRING

(* cps init, its output sent to ./.cmd-proposer.yaml as its help says.     *)
PrintTemplate ==
  /\ pc = "arguments"
  /\ cli.init # None /\ ~Conflicting(cli)
  /\ files' = [p \in DOMAIN files \union {Local} |->
                 IF p # Local THEN files[p]
                 ELSE IF cli.init = "full" THEN FullTemplate ELSE MinimalTemplate]
  /\ pc' = "printed"
  /\ UNCHANGED <<given, cli, env, path, read, config, failed, session>>

---------------------------------------------------------------------------
(* Looking up variables.                                                   *)
FirstOf(names, Accepts(_)) ==
  LET found == {i \in DOMAIN names : names[i] \in DOMAIN env /\ Accepts(env[names[i]])}
  IN IF found = {} THEN None ELSE env[names[Min(found)]]

FirstValue(names) == FirstOf(names, LAMBDA v : TRUE)

\* (mistake: a blank value overrides too)
FirstSet(names) == FirstOf(names, LAMBDA v : TRUE)

FirstNonEmpty(names) == FirstOf(names, LAMBDA v : Trim(v) # <<>>)

(* The items of a list, each one word, and the words of a switch; what     *)
(* has no item, or is no such word, leaves the default.                    *)
Items(text) == SelectSeq(text, LAMBDA t : t \notin {",", Blank})

EnvList(name, default) ==
  LET items == IF name \in DOMAIN env THEN Items(env[name]) ELSE <<>>
  IN IF items = <<>> THEN default ELSE items

YesWords == {<<"1">>, <<"true">>, <<"yes">>, <<"on">>}
NoWords == {<<"0">>, <<"false">>, <<"no">>, <<"off">>}

EnvBool(name, default) ==
  LET word == IF name \in DOMAIN env THEN Trim(env[name]) ELSE <<>>
  IN CASE word \in YesWords -> TRUE
       [] word \in NoWords -> FALSE
       [] OTHER -> default

OrElse(value, default) == IF value = None THEN default ELSE value

BaseUrlVars == <<"CMD_PROPOSER_MODEL_BASE_URL", "LOCAL_ROUTER_BASEURL">>
ApiKeyVars == <<"CMD_PROPOSER_MODEL_API_KEY", "LOCAL_ROUTER_API_KEY">>
ModelNameVars == <<"CMD_PROPOSER_MODEL_NAME", "LLM_MODEL">>
TokenizerVars == <<"CMD_PROPOSER_TOKENIZER_PATH">>
ConfigVars == <<"CMD_PROPOSER_CONFIG", "CPS_CONFIG">>
ProgramsVar == "CMD_PROPOSER_DOC_RUNNER_ALLOW_PROGRAMS"
SearchVar == "CMD_PROPOSER_SEARCH_DEFAULT_ENABLED"

---------------------------------------------------------------------------
(* load_runtime_config_with_paths.                                         *)

\* (mistake: a named file that is missing is passed over)
ResolveExisting ==
  /\ pc = "resolve"
  /\ path' = LET named == <<cli.config, FirstNonEmpty(ConfigVars), Local, User>>
                 there == SelectSeq(named, LAMBDA p : p \in DOMAIN files)
             IN IF there = <<>> THEN None ELSE Head(there)
  /\ pc' = IF path' = None THEN "defaults" ELSE "read"
  /\ UNCHANGED <<given, cli, files, env, read, config, failed, session>>

ResolveConfigPath ==
  /\ pc = "resolve"
  /\ path' = IF cli.config # None THEN cli.config
             ELSE IF FirstNonEmpty(ConfigVars) # None THEN FirstNonEmpty(ConfigVars)
             ELSE IF Local \in DOMAIN files THEN Local
             ELSE IF User \in DOMAIN files THEN User
             ELSE None
  /\ pc' = IF path' = None THEN "defaults" ELSE "read"
  /\ UNCHANGED <<given, cli, files, env, read, config, failed, session>>

DefaultAllowPrograms == <<"kubectl", "helm", "terraform", "systemctl", "journalctl">>

(* The model and the documentation runner are written out here once more;  *)
(* the other sections are made as those are that a file leaves out.        *)
DefaultConfig ==
  ConfigWith(1,
    [base_url |-> OrElse(FirstNonEmpty(BaseUrlVars), <<"http://localhost:8317/v1">>),
     api_key |-> OrElse(FirstValue(ApiKeyVars), <<>>),
     model_name |-> OrElse(FirstNonEmpty(ModelNameVars), <<"qwen3.6-27b">>),
     provider |-> "local_openai_compatible",
     max_context_tokens |-> 200000,
     tokenizer |-> [path |-> OrElse(FirstNonEmpty(TokenizerVars),
                                    <<"~/.local/share/models/qwen/tokenizer.json">>),
                    type |-> "huggingface_tokenizer_json"]],
    [allow_programs |-> EnvList(ProgramsVar, DefaultAllowPrograms),
     sandbox |-> "bwrap", timeout_ms |-> 60000, max_output_bytes |-> 10485760,
     allow_doc_actions |-> <<"help", "man", "info">>, extra_bind_ro |-> <<>>],
    NoSettings)

UseDefaults ==
  /\ pc = "defaults"
  /\ config' = DefaultConfig
  /\ pc' = "override"
  /\ UNCHANGED <<given, cli, files, env, path, read, failed, session>>

ReadFile ==
  /\ pc = "read"
  /\ IF path \in DOMAIN files /\ files[path] # Unreadable
       THEN pc' = "interpolate" /\ read' = files[path] /\ UNCHANGED failed
       ELSE Fail("read") /\ UNCHANGED read
  /\ UNCHANGED <<given, cli, files, env, path, config, session>>

(* The whole text is interpolated, its comments too.                       *)
InterpolateFile ==
  /\ pc = "interpolate"
  /\ IF \E n \in DOMAIN read.texts : Refuses(Source(read.texts[n]), env)
       THEN Fail("interpolate") /\ UNCHANGED read
       ELSE /\ read' = [read EXCEPT !.texts =
                         [n \in DOMAIN read.texts |-> Replaced(Source(read.texts[n]), env)]]
            /\ pc' = "parse"
            /\ UNCHANGED failed
  /\ UNCHANGED <<given, cli, files, env, path, config, session>>

RequiredTexts == {"model.base_url", "model.api_key", "model.model_name", "model.tokenizer.path"}

ParseFile ==
  /\ pc = "parse"
  /\ IF RequiredTexts \subseteq DOMAIN read.texts /\ "doc_runner.allow_programs" \in DOMAIN read.given
       THEN LET Text(n) == Trim(read.texts[n])
                g == read.given
            IN /\ config' = ConfigWith(Setting(g, "version", 1),
                               ModelSection(Text("model.base_url"), Text("model.api_key"),
                                            Text("model.model_name"), Text("model.tokenizer.path"), g),
                               DocRunnerSection(g["doc_runner.allow_programs"], g), g)
               /\ pc' = "validate"
               /\ UNCHANGED failed
       ELSE Fail("parse") /\ UNCHANGED config
  /\ UNCHANGED <<given, cli, files, env, path, read, session>>

(* A file is validated before the environment overrides what it says.      *)
ValidateFile ==
  /\ pc = "validate"
  /\ IF Valid(config) THEN pc' = "override" /\ UNCHANGED failed ELSE Fail("validate")
  /\ UNCHANGED <<given, cli, files, env, path, read, config, session>>

ModelWithEnvironment(m) ==
  [m EXCEPT !.base_url = OrElse(FirstNonEmpty(BaseUrlVars), @),
            !.api_key = OrElse(FirstValue(ApiKeyVars), @),
            !.model_name = OrElse(FirstNonEmpty(ModelNameVars), @),
            !.tokenizer.path = OrElse(FirstNonEmpty(TokenizerVars), @)]

WithEnvironment(c) ==
  [c EXCEPT !.model = ModelWithEnvironment(@),
            !.doc_runner.allow_programs = EnvList(ProgramsVar, @),
            !.search.default_enabled = EnvBool(SearchVar, @)]

WithCommandLine(c) ==
  [c EXCEPT !.search.default_enabled =
     IF cli.online THEN TRUE ELSE IF cli.offline THEN FALSE ELSE @]

\* (mistake: the environment has the last word)
OverrideSwapped ==
  /\ pc = "override"
  /\ config' = WithEnvironment(WithCommandLine(config))
  /\ IF Valid(config') THEN pc' = "initialise" /\ UNCHANGED failed ELSE Fail("overrides")
  /\ UNCHANGED <<given, cli, files, env, path, read, session>>

Override ==
  /\ pc = "override"
  /\ config' = WithCommandLine(WithEnvironment(config))
  /\ IF Valid(config') THEN pc' = "initialise" /\ UNCHANGED failed ELSE Fail("overrides")
  /\ UNCHANGED <<given, cli, files, env, path, read, session>>

(* AgentLoop::from_config, which a tokenizer or an HTTP client may refuse, *)
(* and then one turn for the intent, or a conversation.                    *)
Start ==
  /\ pc = "initialise"
  /\ pc' = "started"
  /\ session' = [verbose |-> cli.verbose \/ config.runtime.verbose, interactive |-> ~cli.intent]
  /\ UNCHANGED <<given, cli, files, env, path, read, config, failed>>

InitialiseFails ==
  /\ pc = "initialise"
  /\ Fail("agent")
  /\ UNCHANGED <<given, cli, files, env, path, read, config, session>>

(* The user starts cps again, in the same shell and directory.             *)
Again ==
  /\ pc \in {"printed", "failed", "started"}
  /\ cli' \in CommandLines
  /\ pc' = "dotenv"
  /\ env' = shell
  /\ path' = None /\ read' = None /\ config' = None /\ failed' = None /\ session' = None
  /\ UNCHANGED <<given, files>>

Next ==
  \/ LoadDotenv
  \/ ParseArguments
  \/ PrintTemplate
  \/ ResolveConfigPath
  \/ UseDefaults
  \/ ReadFile
  \/ InterpolateFile
  \/ ParseFile
  \/ ValidateFile
  \/ Override
  \/ Start
  \/ InitialiseFails
  \/ Again

Spec == Init /\ [][Next]_vars

---------------------------------------------------------------------------
(* What the sources of a setting say, told from the shell, .env, the files *)
(* and the command line as they are, and not from the steps above.         *)

(* A variable of the shell hides the one of .env, even when it is empty.   *)
LinesBeforeFault == {i \in DOMAIN dotenv : \A j \in 1..i : dotenv[j] # Malformed}

IsDefined(n) == n \in DOMAIN shell \/ \E i \in LinesBeforeFault : dotenv[i].name = n

ValueOf(n) ==
  IF n \in DOMAIN shell THEN shell[n]
  ELSE dotenv[CHOOSE i \in LinesBeforeFault :
                dotenv[i].name = n /\ \A j \in 1..(i - 1) : dotenv[j].name # n].value

IsGiven(n) == IsDefined(n) /\ \E i \in DOMAIN ValueOf(n) : ValueOf(n)[i] # Blank

(* The file that governs, None when there is none.                         *)
Governing ==
  CASE cli.config # None -> cli.config
    [] cli.config = None /\ IsGiven(ConfigVars[1]) -> ValueOf(ConfigVars[1])
    [] cli.config = None /\ ~IsGiven(ConfigVars[1]) /\ IsGiven(ConfigVars[2]) -> ValueOf(ConfigVars[2])
    [] OTHER -> IF Local \in DOMAIN files THEN Local ELSE IF User \in DOMAIN files THEN User ELSE None

(* What the pieces of a text mean to who wrote them.                       *)
Meaning(piece) ==
  CASE "lit" \in DOMAIN piece -> piece.lit
    [] "raw" \in DOMAIN piece -> piece.raw
    [] "ref" \in DOMAIN piece ->
         IF IsDefined(piece.ref) /\ (ValueOf(piece.ref) # <<>> \/ piece.default = None)
           THEN ValueOf(piece.ref) ELSE piece.default

Written(setting) ==
  LET pieces == files[Governing].texts[setting]
  IN Trim(FlattenSeq([i \in DOMAIN pieces |-> Meaning(pieces[i])]))

(* A setting that both a file and variables give, and its default.         *)
Ranked(value, setting, first, second, default) ==
  CASE IsGiven(first) -> value = ValueOf(first)
    [] ~IsGiven(first) /\ IsGiven(second) -> value = ValueOf(second)
    [] OTHER -> value = IF Governing = None THEN default ELSE Written(setting)

ProgramsRanked(programs) ==
  LET items == IF IsDefined(ProgramsVar) THEN Items(ValueOf(ProgramsVar)) ELSE <<>>
  IN CASE items # <<>> -> programs = items
       [] items = <<>> /\ Governing = None -> programs = DefaultAllowPrograms
       [] OTHER -> programs = files[Governing].given["doc_runner.allow_programs"]

SearchRanked(enabled) ==
  LET flagged == cli.online \/ cli.offline
      word == IF IsDefined(SearchVar) THEN Trim(ValueOf(SearchVar)) ELSE <<>>
  IN CASE flagged -> enabled <=> cli.online
       [] ~flagged /\ word \in YesWords \union NoWords -> enabled <=> word \in YesWords
       [] OTHER -> enabled = IF Governing = None THEN TRUE
                             ELSE Setting(files[Governing].given, "search.default_enabled", TRUE)

EachRanked(c) ==
  /\ Ranked(c.model.base_url, "model.base_url",
            "CMD_PROPOSER_MODEL_BASE_URL", "LOCAL_ROUTER_BASEURL", <<"http://localhost:8317/v1">>)
  /\ Ranked(c.model.model_name, "model.model_name",
            "CMD_PROPOSER_MODEL_NAME", "LLM_MODEL", <<"qwen3.6-27b">>)
  /\ Ranked(c.model.tokenizer.path, "model.tokenizer.path",
            "CMD_PROPOSER_TOKENIZER_PATH", "CMD_PROPOSER_TOKENIZER_PATH",
            <<"~/.local/share/models/qwen/tokenizer.json">>)
  /\ LET key == c.model.api_key
     IN CASE IsDefined(ApiKeyVars[1]) -> key = ValueOf(ApiKeyVars[1])
          [] ~IsDefined(ApiKeyVars[1]) /\ IsDefined(ApiKeyVars[2]) -> key = ValueOf(ApiKeyVars[2])
          [] OTHER -> key = IF Governing = None THEN <<>> ELSE Written("model.api_key")
  /\ ProgramsRanked(c.doc_runner.allow_programs)
  /\ SearchRanked(c.search.default_enabled)

---------------------------------------------------------------------------
(* The six settings that variables and flags override - the model's url,   *)
(* key and name, the tokenizer, the programs of the documentation runner,  *)
(* the search switch - come, in a started program, from the source of the  *)
(* highest rank that says them: the flags, the first of the variables that *)
(* is not blank, lists an item or reads as a switch - from the shell, else *)
(* from .env, the rank of the variable going before that of the place -,   *)
(* the governing file as its writer means it, the default.  The text of a  *)
(* file passes a scanner, and the overrides come after it.  An API key may *)
(* be set empty by a variable.                                             *)
SettingsRanked == pc = "started" => EachRanked(config)

(* Execution is enabled by the governing file and nothing else: a named    *)
(* file that is missing is not replaced by another one or the defaults,    *)
(* and the confirmation of risky commands cannot be given up with it.      *)
ExecutionOptedIn ==
  pc = "started" /\ config.approval.execute_enabled =>
    /\ Governing \in DOMAIN files
    /\ files[Governing] # Unreadable
    /\ Setting(files[Governing].given, "approval.execute_enabled", FALSE)
    /\ config.approval.high_risk_requires_typed_confirmation

(* cps init prints a file that changes nothing: started with the minimal   *)
(* template, the program has the configuration it has without a file.  For *)
(* the model and the documentation runner, cps-config's defaults, those of *)
(* init's template and default_config's are written down apart.            *)
NoFileIsMinimalFile ==
  pc = "started" /\ Governing # None =>
    (files[Governing] = MinimalTemplate => config = WithCommandLine(WithEnvironment(DefaultConfig)))

(* No variable and no flag turns a configuration that is valid, from a     *)
(* file or from the defaults, into one that is not.                        *)
OverridesKeepItValid == failed # "overrides"

---------------------------------------------------------------------------
(* Why execution is opted in, the overrides are harmless and the minimal   *)
(* template changes nothing: what each step leaves to the next.            *)
EnvironmentInv ==
  /\ shell \in Shells /\ dotenv \in DotEnvs /\ cli \in CommandLines
  /\ \A p \in DOMAIN files : files[p] = Unreadable \/ DOMAIN files[p] = {"texts", "given"}
  /\ pc # "dotenv" => env = WithDotenv

IsRead == path \in DOMAIN files /\ files[path] # Unreadable

FileInv ==
  /\ pc \in {"defaults", "read", "interpolate", "parse", "validate", "override", "initialise",
             "started"} => path = Governing
  /\ pc = "defaults" => path = None
  /\ pc \in {"read", "interpolate", "parse", "validate"} => path # None
  /\ /\ pc \in {"interpolate", "parse", "validate", "override", "initialise", "started"}
     /\ path # None
     => IsRead
  /\ pc \in {"interpolate", "parse"} =>
       DOMAIN read = {"texts", "given"} /\ read.given = files[path].given

(* The fields the overrides write are there.                               *)
HasOverridden(c) ==
  /\ {"model", "doc_runner", "search", "approval", "thinking"} \subseteq DOMAIN c
  /\ {"base_url", "api_key", "model_name", "tokenizer", "max_context_tokens"} \subseteq DOMAIN c.model
  /\ "path" \in DOMAIN c.model.tokenizer
  /\ "allow_programs" \in DOMAIN c.doc_runner
  /\ "default_enabled" \in DOMAIN c.search

ConfigInv ==
  /\ pc \in {"validate", "override"} => HasOverridden(config)
  /\ pc \in {"validate", "override", "initialise", "started"} /\ config.approval.execute_enabled =>
       path # None /\ Setting(files[path].given, "approval.execute_enabled", FALSE)
  /\ pc \in {"override", "initialise", "started"} => Valid(config)
  /\ OverridesKeepItValid

MinimalRefs ==
  [n \in {"model.base_url", "model.api_key", "model.model_name"} |->
     CASE n = "model.base_url" -> "LOCAL_ROUTER_BASEURL"
       [] n = "model.api_key" -> "LOCAL_ROUTER_API_KEY"
       [] n = "model.model_name" -> "LLM_MODEL"]

MinimalTokenizer == <<"~/.local/share/models/qwen/tokenizer.json">>

MinimalConfig ==
  LET Text(n) == Trim(env[MinimalRefs[n]])
  IN ConfigWith(1,
       ModelSection(Text("model.base_url"), Text("model.api_key"), Text("model.model_name"),
                    MinimalTokenizer, NoSettings),
       DocRunnerSection(DefaultAllowPrograms, NoSettings), NoSettings)

RefsSet == \A n \in DOMAIN MinimalRefs : MinimalRefs[n] \in DOMAIN env

MinimalInv ==
  path # None /\ IsRead /\ files[path] = MinimalTemplate =>
    /\ pc = "interpolate" => read = MinimalTemplate
    /\ pc = "parse" =>
         /\ RefsSet
         /\ read.given = MinimalTemplate.given
         /\ DOMAIN read.texts = RequiredTexts
         /\ \A n \in DOMAIN MinimalRefs : read.texts[n] = env[MinimalRefs[n]]
         /\ read.texts["model.tokenizer.path"] = MinimalTokenizer
    /\ pc \in {"validate", "override"} => RefsSet /\ config = MinimalConfig
    /\ pc \in {"initialise", "started"} =>
         config = WithCommandLine(WithEnvironment(DefaultConfig))

StartupInv == EnvironmentInv /\ FileInv /\ ConfigInv /\ MinimalInv

(* Why the settings have their ranks: where they are between the files     *)
(* they were written in and the configuration.                             *)
FilesWritten ==
  \A p \in DOMAIN files :
    files[p] # Unreadable => \A n \in DOMAIN files[p].texts : InPieces(files[p].texts[n])

ReadWritten ==
  /\ pc = "interpolate" => read = files[path]
  /\ pc = "parse" => \A n \in DOMAIN read.texts : Trim(read.texts[n]) = Written(n)

SettingsWritten(c) ==
  /\ c.model.base_url = Written("model.base_url")
  /\ c.model.api_key = Written("model.api_key")
  /\ c.model.model_name = Written("model.model_name")
  /\ c.model.tokenizer.path = Written("model.tokenizer.path")
  /\ c.doc_runner.allow_programs = files[Governing].given["doc_runner.allow_programs"]
  /\ c.search.default_enabled = Setting(files[Governing].given, "search.default_enabled", TRUE)

SettingsOfFile(c) == IF path = None THEN c = DefaultConfig ELSE SettingsWritten(c)

RankInv ==
  /\ FilesWritten
  /\ ReadWritten
  /\ pc \notin {"dotenv", "arguments", "printed", "failed"} => ~(cli.offline /\ cli.online)
  /\ pc \in {"validate", "override"} => SettingsOfFile(config)
  /\ pc \in {"initialise", "started"} => EachRanked(config)
=============================================================================
