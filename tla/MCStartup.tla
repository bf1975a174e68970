------------------------------ MODULE MCStartup ------------------------------
(***************************************************************************)
(* Starts of cps in one shell and directory, with at most two variables    *)
(* set in the shell, .env files of at most two lines, and a file at one of *)
(* the places where a file can be.                                         *)
(***************************************************************************)
EXTENDS Startup

CONSTANTS NoneValue, BadLine, NoAccess

Values == {<<>>, <<Blank>>, <<"v">>, <<"$", "{", "v">>}

\* The values a variable is tried with.
ValuesOf(n) ==
  CASE n \in {"CMD_PROPOSER_CONFIG", "CPS_CONFIG"} -> {<<>>, <<"other">>, <<"gone">>}
    [] n = "CMD_PROPOSER_DOC_RUNNER_ALLOW_PROGRAMS" -> {<<",">>, <<"ip", ",", "tc">>}
    [] n = "CMD_PROPOSER_SEARCH_DEFAULT_ENABLED" -> {<<"maybe">>, <<"on">>, <<Blank, "off">>}
    [] n \in {"LOCAL_ROUTER_BASEURL", "LOCAL_ROUTER_API_KEY"} -> Values
    [] OTHER -> {<<>>, <<"w">>}

Variables ==
  {"CMD_PROPOSER_MODEL_BASE_URL", "LOCAL_ROUTER_BASEURL", "CMD_PROPOSER_MODEL_API_KEY",
   "LOCAL_ROUTER_API_KEY", "CMD_PROPOSER_MODEL_NAME", "LLM_MODEL", "CMD_PROPOSER_TOKENIZER_PATH",
   "CMD_PROPOSER_DOC_RUNNER_ALLOW_PROGRAMS", "CMD_PROPOSER_SEARCH_DEFAULT_ENABLED",
   "CMD_PROPOSER_CONFIG", "CPS_CONFIG"}

Set(n, v) == [m \in {n} |-> v]

OneSet == UNION {{Set(n, v) : v \in ValuesOf(n)} : n \in Variables}

\* The three variables of the templates, and one more.
AllThree ==
  {[m \in {"LOCAL_ROUTER_BASEURL", "LOCAL_ROUTER_API_KEY", "LLM_MODEL"} |->
      IF m = "LOCAL_ROUTER_API_KEY" THEN key ELSE <<"v">>] : key \in Values}

MCShells ==
  {[n \in {} |-> <<>>]} \union OneSet \union AllThree
    \union {a @@ b : a \in OneSet, b \in {Set("LOCAL_ROUTER_BASEURL", <<"v">>),
                                          Set("CMD_PROPOSER_CONFIG", <<"other">>)}}
    \union {a @@ b : a \in OneSet, b \in {[m \in {"LOCAL_ROUTER_BASEURL", "LOCAL_ROUTER_API_KEY",
                                                  "LLM_MODEL"} |-> <<"v">>]}}

Line(n, v) == [name |-> n, value |-> v]

MCDotEnvs ==
  {<<>>,
   <<Line("LOCAL_ROUTER_BASEURL", <<"d">>)>>,
   <<Line("CMD_PROPOSER_MODEL_BASE_URL", <<"d">>), Line("LOCAL_ROUTER_API_KEY", <<"d">>)>>,
   <<Line("LLM_MODEL", <<"d">>), BadLine, Line("CMD_PROPOSER_CONFIG", <<"other">>)>>}

Plain ==
  [config |-> NoneValue, offline |-> FALSE, online |-> FALSE, verbose |-> FALSE,
   init |-> NoneValue, intent |-> FALSE]

MCCommandLines ==
  {Plain,
   [Plain EXCEPT !.offline = TRUE],
   [Plain EXCEPT !.online = TRUE, !.intent = TRUE],
   [Plain EXCEPT !.offline = TRUE, !.online = TRUE],
   [Plain EXCEPT !.config = <<"other">>, !.verbose = TRUE],
   [Plain EXCEPT !.config = <<"gone">>],
   [Plain EXCEPT !.init = "minimal"],
   [Plain EXCEPT !.init = "full"],
   [Plain EXCEPT !.init = "full", !.verbose = TRUE]}

\* A file that says everything in plain words.
Words(url) ==
  [texts |-> [n \in {"model.base_url", "model.api_key", "model.model_name",
                     "model.tokenizer.path"} |->
                IF n = "model.base_url" THEN url ELSE <<Lit(<<"f">>)>>],
   given |-> [n \in {"doc_runner.allow_programs"} |-> <<"kubectl">>]]

Urls ==
  {<<>>, <<Lit(<<"f">>)>>,
   <<Ref("LLM_MODEL")>>, <<RefOr("LOCAL_ROUTER_BASEURL", <<"f">>)>>,
   <<Lit(<<"$", "{", "f", "}">>)>>, <<Lit(<<"$">>), Ref("LOCAL_ROUTER_BASEURL")>>,
   <<Raw(<<"$", "f">>)>>, <<Raw(<<"$", "{", Blank, "}">>)>>, <<Raw(<<"$", "{", "f">>)>>}

Having(n, v, f) == [f EXCEPT !.given = @ @@ [m \in {n} |-> v]]

MCFiles ==
  {Words(u) : u \in Urls} \union
  {MinimalTemplate,
   [Words(<<Lit(<<"f">>)>>) EXCEPT !.texts = @ @@ [m \in {"comment"} |-> <<Ref("LLM_MODEL")>>]],
   [Words(<<Lit(<<"f">>)>>) EXCEPT !.texts = [m \in {"model.base_url"} |-> <<Lit(<<"f">>)>>]],
   Having("approval.execute_enabled", TRUE, Words(<<Lit(<<"f">>)>>)),
   Having("approval.high_risk_requires_typed_confirmation", FALSE,
          Having("approval.execute_enabled", TRUE, Words(<<Lit(<<"f">>)>>))),
   Having("thinking.main_agent", 200000, Words(<<Lit(<<"f">>)>>)),
   Having("search.default_enabled", FALSE, Words(<<Lit(<<"f">>)>>))}

MCDisks ==
  {[p \in {} |-> NoneValue], [p \in {Local} |-> NoAccess]}
    \union {[p \in {<<"other">>} |-> f] : f \in MCFiles}
    \union {[p \in {Local, User} |-> IF p = User THEN f ELSE Words(<<Lit(<<"f">>)>>)] : f \in MCFiles}
    \union {[p \in {User} |-> f] : f \in {MinimalTemplate, Words(<<>>)}}
=============================================================================
