----------------------------- MODULE ToolSchemas -----------------------------
(***************************************************************************)
(* The function schemas the model is offered (tools.rs), each as the set   *)
(* of arguments that conform to it.  No schema allows additional           *)
(* properties.  A schema bounds no number from above but a manual's        *)
(* section, so numbers past the width of the field that takes them conform *)
(* too: they are left out here.                                            *)
(***************************************************************************)
EXTENDS Json

Only(fields, keys) == DOMAIN fields \subseteq keys
IsInteger(v) == IsNum(v) /\ v.num >= 0
IsPositive(v) == IsNum(v) /\ v.num >= 1
IsOneOrMore(v) == IsStrings(v) /\ v.items # <<>>

(* The tools of a session, in the order of their names.                    *)
Offered(searchEnabled, subagentsEnabled) ==
  {"done", "doc_expand_around", "doc_grep", "doc_lines", "doc_preview", "doc_section",
   "doc_token_count", "execute", "propose_command", "read_help", "read_info", "read_man"}
  \cup (IF searchEnabled THEN {"web_search"} ELSE {})
  \cup (IF subagentsEnabled THEN {"spawn"} ELSE {})

ReadHelpSchema(f) ==
  /\ Only(f, {"program", "subcommands", "style"})
  /\ Needs(f, "program", IsStr)
  /\ May(f, "subcommands", IsStrings)
  /\ May(f, "style", LAMBDA v : IsOneOf(v, {"long", "short"}))

ReadManSchema(f) ==
  /\ Only(f, {"topic", "section"})
  /\ Needs(f, "topic", IsStr)
  /\ May(f, "section", LAMBDA v : IsNum(v) /\ v.num \in 1..9)

ReadInfoSchema(f) == Only(f, {"topic"}) /\ Needs(f, "topic", IsStr)

DocTokenCountSchema(f) == Only(f, {"doc"}) /\ Needs(f, "doc", IsStr)

DocPreviewSchema(f) ==
  /\ Only(f, {"doc", "max_tokens"})
  /\ Needs(f, "doc", IsStr)
  /\ Needs(f, "max_tokens", IsPositive)

DocGrepSchema(f) ==
  /\ Only(f, {"doc", "pattern", "case_insensitive", "context_lines", "max_matches"})
  /\ Needs(f, "doc", IsStr)
  /\ Needs(f, "pattern", IsStr)
  /\ May(f, "case_insensitive", IsFlag)
  /\ May(f, "context_lines", IsInteger)
  /\ May(f, "max_matches", IsPositive)

DocSectionSchema(f) ==
  /\ Only(f, {"doc", "heading_regex", "max_tokens"})
  /\ Needs(f, "doc", IsStr)
  /\ Needs(f, "heading_regex", IsStr)
  /\ Needs(f, "max_tokens", IsPositive)

DocLinesSchema(f) ==
  /\ Only(f, {"doc", "start", "end"})
  /\ Needs(f, "doc", IsStr)
  /\ Needs(f, "start", IsPositive)
  /\ Needs(f, "end", IsPositive)

DocExpandAroundSchema(f) ==
  /\ Only(f, {"doc", "match_id", "before", "after"})
  /\ Needs(f, "doc", IsStr)
  /\ Needs(f, "match_id", IsStr)
  /\ Needs(f, "before", IsInteger)
  /\ Needs(f, "after", IsInteger)

WebSearchSchema(f) ==
  /\ Only(f, {"query", "max_results"})
  /\ Needs(f, "query", IsStr)
  /\ Needs(f, "max_results", IsPositive)

SpawnSchema(f) ==
  /\ Only(f, {"role", "goal", "input", "allowed_tools", "context_tokens", "thinking_budget",
              "timeout_ms", "output_schema"})
  /\ Needs(f, "role", IsStr)
  /\ Needs(f, "goal", IsStr)
  /\ Needs(f, "input", IsObj)
  /\ Needs(f, "allowed_tools", IsStrings)
  /\ Needs(f, "context_tokens", IsPositive)
  /\ May(f, "thinking_budget", IsInteger)
  /\ Needs(f, "timeout_ms", IsPositive)
  /\ Needs(f, "output_schema", IsStr)

DoneSchema(f) == Only(f, {})

ExecuteSchema(f) ==
  /\ Only(f, {"argv", "user_approved"})
  /\ Needs(f, "argv", IsOneOrMore)
  /\ Needs(f, "user_approved", IsFlag)

PreflightSchema(v) ==
  /\ IsObj(v) /\ Only(v.fields, {"argv", "reason"})
  /\ Needs(v.fields, "argv", IsOneOrMore)
  /\ Needs(v.fields, "reason", IsStr)

RollbackSchema(v) ==
  /\ IsObj(v) /\ Only(v.fields, {"available", "notes"})
  /\ Needs(v.fields, "available", LAMBDA s : IsOneOf(s, {"available", "partial", "none"}))
  /\ Needs(v.fields, "notes", IsStr)

SourceSchema(v) ==
  /\ IsObj(v) /\ Only(v.fields, {"kind", "doc", "lines"})
  /\ Needs(v.fields, "kind",
           LAMBDA s : IsOneOf(s, {"local_schema", "local_doc", "official_web", "other_web"}))
  /\ Needs(v.fields, "doc", IsStr)
  /\ May(v.fields, "lines",
         LAMBDA l : IsNullOr(l, LAMBDA a : IsListOf(a, IsPositive) /\ Len(a.items) = 2))

EvidenceSchema(v) ==
  /\ IsObj(v) /\ Only(v.fields, {"claim", "source", "confidence"})
  /\ Needs(v.fields, "claim", IsStr)
  /\ Needs(v.fields, "source", SourceSchema)
  /\ Needs(v.fields, "confidence", LAMBDA s : IsOneOf(s, {"low", "medium", "high"}))

ProposeCommandSchema(f) ==
  /\ Only(f, {"summary", "argv", "display", "risk", "risk_reasons", "assumptions", "preflight",
              "rollback", "evidence", "missing_confirmations"})
  /\ Needs(f, "summary", IsStr)
  /\ Needs(f, "argv", IsOneOrMore)
  /\ Needs(f, "display", IsStr)
  /\ Needs(f, "risk", LAMBDA s : IsOneOf(s, {"low", "medium", "high", "critical"}))
  /\ \A k \in {"risk_reasons", "assumptions", "missing_confirmations"} : Needs(f, k, IsStrings)
  /\ Needs(f, "preflight", LAMBDA l : IsListOf(l, PreflightSchema))
  /\ May(f, "rollback", LAMBDA r : IsNullOr(r, RollbackSchema))
  /\ Needs(f, "evidence", LAMBDA l : IsListOf(l, EvidenceSchema))

Schema(tool, f) ==
  CASE tool = "read_help" -> ReadHelpSchema(f)
    [] tool = "read_man" -> ReadManSchema(f)
    [] tool = "read_info" -> ReadInfoSchema(f)
    [] tool = "doc_token_count" -> DocTokenCountSchema(f)
    [] tool = "doc_preview" -> DocPreviewSchema(f)
    [] tool = "doc_grep" -> DocGrepSchema(f)
    [] tool = "doc_section" -> DocSectionSchema(f)
    [] tool = "doc_lines" -> DocLinesSchema(f)
    [] tool = "doc_expand_around" -> DocExpandAroundSchema(f)
    [] tool = "web_search" -> WebSearchSchema(f)
    [] tool = "spawn" -> SpawnSchema(f)
    [] tool = "done" -> DoneSchema(f)
    [] tool = "execute" -> ExecuteSchema(f)
    [] tool = "propose_command" -> ProposeCommandSchema(f)
    [] OTHER -> FALSE
=============================================================================
