------------------------------ MODULE ToolGate ------------------------------
(***************************************************************************)
(* What becomes of one tool call of the model (dispatch_tool_call in       *)
(* cps-agent/src/agent_loop.rs).  The gate (PolicyGate.validate_tool_call) *)
(* looks at the arguments as a JSON value and overlooks what has the wrong *)
(* type; the dispatcher then reads the same text a second time, strictly,  *)
(* and acts on what it reads; the doc runner and the subagent pool check   *)
(* once more what they are given.  The three agree, or something runs that *)
(* nobody checked.                                                         *)
(*                                                                         *)
(* A call is its tool, its arguments and whether its text names a field of *)
(* the tool twice: the gate then sees the last one, the dispatcher refuses.*)
(* A document's identifier is a record of what its text is put together    *)
(* from; the style of a help page is no part of it.                        *)
(***************************************************************************)
EXTENDS ToolSchemas, FiniteSets

CONSTANTS
  Calls,            \* the calls a model may make: [tool, args, twice]
  Configs,          \* the configurations: [search, subagents, execute, programs, actions]
  Chars,            \* the classes of characters a word is made of, by word
  SubagentContext,  \* BudgetEngine.subagent_context, for the gate and the pool
  MaxDocs           \* bound: the documents in the store

ASSUME ToolGateAssumption ==
  /\ \A c \in Calls : DOMAIN c = {"tool", "args", "twice"} /\ c.twice \in BOOLEAN
  /\ \A g \in Configs : {g.search, g.subagents, g.execute} \subseteq BOOLEAN
  /\ SubagentContext \in Nat

VARIABLES
  config,
  stored,   \* the documents in the store
  effect,   \* what the last call made the runtime do
  answer    \* the last call and what came of it

vars == <<config, stored, effect, answer>>

---------------------------------------------------------------------------
(* Names of tools, roles and words.                                        *)
DocTools == {"doc_token_count", "doc_preview", "doc_grep", "doc_section", "doc_lines",
             "doc_expand_around"}

\* (mistake: the doc runner checks the program itself, so read_help is left to it)
RequiresValidationBarHelp(tool) == tool \in DocTools \cup {"web_search", "spawn", "execute"}

RequiresPolicyValidation(tool) ==
  tool \in DocTools \cup {"read_help", "web_search", "spawn", "execute"}

(* The gate's copy of what a role may use, and the subagent's own.         *)
RoleToolPermissions(role) ==
  CASE role = "doc_explorer" -> DocTools \cup {"read_help", "read_man", "read_info", "web_search"}
    [] role = "risk_reviewer" -> DocTools
    [] OTHER -> {}

\* (mistake: a tool is dropped from one of the two copies)
AllowedToolsOffline(role) ==
  IF role = "doc_explorer" THEN DocTools \cup {"read_help", "read_man", "read_info"} ELSE DocTools

AllowedTools(role) ==
  IF role = "doc_explorer"
    THEN {"read_help", "read_man", "read_info", "doc_token_count", "doc_preview", "doc_grep",
          "doc_section", "doc_lines", "doc_expand_around", "web_search"}
    ELSE {"doc_token_count", "doc_preview", "doc_grep", "doc_section", "doc_lines",
          "doc_expand_around"}

ProgramAllowed(program) == \E p \in config.programs : p \in {"*", program}

Made(word, classes) == Chars[word] # {} /\ Chars[word] \subseteq classes
IsSafeSubcommand(word) == Made(word, {"alphanumeric", "-"})
IsValidIdentifier(word) == Made(word, {"alphanumeric", "-", "_"})
IsValidTopic(word) == Made(word, {"alphanumeric", "-", "_", "."})

HelpDocId(program, subcommands) == [kind |-> "help", of |-> program, words |-> subcommands]
ManDocId(topic, section) == [kind |-> "man", of |-> topic, section |-> section]
InfoDocId(topic) == [kind |-> "info", of |-> topic]

---------------------------------------------------------------------------
(* The gate.                                                               *)
ValidateReadHelp(v) ==
  /\ Has(v, "program", IsStr)
  /\ ProgramAllowed(v.fields.program.str)
  /\ \A word \in StringArrayArg(v, "subcommands") : IsSafeSubcommand(word)

\* (mistake: the documents are left to the store)
ValidateDocNamed(v) == Has(v, "doc", IsStr) \/ Has(v, "doc_id", IsStr)

ValidateDocCall(v) ==
  \/ Has(v, "doc", IsStr) /\ v.fields.doc.str \in stored
  \/ ~Has(v, "doc", IsStr) /\ Has(v, "doc_id", IsStr) /\ v.fields["doc_id"].str \in stored

ValidateSpawn(v) ==
  /\ Has(v, "role", LAMBDA r : IsOneOf(r, {"doc_explorer", "risk_reviewer"}))
  /\ UsizeArgOrZero(v, "context_tokens") <= SubagentContext
  /\ StringArrayArg(v, "allowed_tools") \subseteq RoleToolPermissions(v.fields.role.str)

ValidateExecute(v) ==
  /\ config.execute
  /\ Has(v, "user_approved", IsFlag) /\ v.fields["user_approved"].bool
  /\ Has(v, "argv", IsArr)
  /\ LET words == SelectSeq(v.fields.argv.items, IsStr)
     IN /\ words # <<>>
        /\ ProgramAllowed(words[1].str)
        /\ \A i \in DOMAIN words : "meta" \notin Chars[words[i].str]

ValidateToolCall(c) ==
  /\ c.args # Malformed
  /\ CASE c.tool = "read_help" -> ValidateReadHelp(c.args)
       [] c.tool \in DocTools -> ValidateDocCall(c.args)
       [] c.tool = "web_search" -> config.search
       [] c.tool = "spawn" -> ValidateSpawn(c.args)
       [] c.tool = "execute" -> ValidateExecute(c.args)
       [] OTHER -> FALSE

---------------------------------------------------------------------------
(* What the dispatcher reads: the argument structs.                        *)
ReadHelpArgs(f) ==
  /\ Needs(f, "program", IsStr)
  /\ May(f, "subcommands", IsStrings)
  /\ May(f, "style", LAMBDA v : IsOneOf(v, {"long", "short"}))

\* (mistake: a section is a word, as in the titles of manuals)
ReadManSectionWord(f) ==
  /\ Needs(f, "topic", IsStr)
  /\ May(f, "section", LAMBDA v : IsNullOr(v, IsStr))

ReadManArgs(f) ==
  /\ Needs(f, "topic", IsStr)
  /\ May(f, "section", LAMBDA v : IsNullOr(v, IsU8))

ReadInfoArgs(f) == Needs(f, "topic", IsStr)

(* doc_id is an alias of doc: to name both is to name one field twice.     *)
DocRefArgs(f) ==
  /\ {"doc", "doc_id"} \cap DOMAIN f \in {{"doc"}, {"doc_id"}}
  /\ May(f, "doc", IsStr)
  /\ May(f, "doc_id", IsStr)

DocRef(f) == IF "doc" \in DOMAIN f THEN f.doc.str ELSE f["doc_id"].str

DocArgs(tool, f) ==
  /\ DocRefArgs(f)
  /\ tool \in {"doc_preview", "doc_section"} => Needs(f, "max_tokens", IsUsize)
  /\ tool = "doc_section" => Needs(f, "heading_regex", IsStr)
  /\ tool = "doc_grep" => /\ Needs(f, "pattern", IsStr)
                          /\ May(f, "case_insensitive", IsFlag)
                          /\ May(f, "context_lines", IsUsize)
                          /\ May(f, "max_matches", IsUsize)
  /\ tool = "doc_lines" => Needs(f, "start", IsUsize) /\ Needs(f, "end", IsUsize)
  /\ tool = "doc_expand_around" => /\ Needs(f, "match_id", IsStr)
                                   /\ Needs(f, "before", IsUsize)
                                   /\ Needs(f, "after", IsUsize)

SpawnArgs(f) ==
  /\ \A key \in {"role", "goal", "output_schema"} : Needs(f, key, IsStr)
  /\ "input" \in DOMAIN f
  /\ Needs(f, "allowed_tools", IsStrings)
  /\ Needs(f, "context_tokens", IsUsize)
  /\ May(f, "thinking_budget", LAMBDA v : IsNullOr(v, IsUsize))
  /\ Needs(f, "timeout_ms", IsUsize)

(* The proposal of propose_command (cps-proposal).                         *)
IsPreflightCmd(v) ==
  /\ IsStruct(v, <<"argv", "reason">>)
  /\ LET f == StructFields(v, <<"argv", "reason">>)
     IN Needs(f, "argv", IsStrings) /\ Needs(f, "reason", IsStr)

IsRollbackInfo(v) ==
  /\ IsStruct(v, <<"available", "notes">>)
  /\ LET f == StructFields(v, <<"available", "notes">>)
     IN /\ Needs(f, "available", LAMBDA s : IsOneOf(s, {"available", "partial", "none"}))
        /\ Needs(f, "notes", IsStr)

EvidenceKinds == {"other_web", "official_web_doc", "local_doc", "local_schema"}

IsEvidenceSource(v) ==
  /\ IsStruct(v, <<"kind", "doc", "lines">>)
  /\ LET f == StructFields(v, <<"kind", "doc", "lines">>)
     IN /\ Needs(f, "kind", LAMBDA s : IsOneOf(s, EvidenceKinds))
        /\ Needs(f, "doc", IsStr)
        /\ May(f, "lines",
               LAMBDA l : IsNullOr(l, LAMBDA a : IsListOf(a, IsUsize) /\ Len(a.items) = 2))

IsEvidence(v) ==
  /\ IsStruct(v, <<"claim", "source", "confidence">>)
  /\ LET f == StructFields(v, <<"claim", "source", "confidence">>)
     IN /\ Needs(f, "claim", IsStr)
        /\ Needs(f, "source", IsEvidenceSource)
        /\ Needs(f, "confidence", LAMBDA s : IsOneOf(s, {"low", "medium", "high"}))

CommandProposalArgs(f) ==
  /\ Needs(f, "summary", IsStr)
  /\ Needs(f, "argv", IsStrings)
  /\ Needs(f, "display", IsStr)
  /\ Needs(f, "risk", LAMBDA s : IsOneOf(s, {"low", "medium", "high", "critical"}))
  /\ \A k \in {"risk_reasons", "assumptions", "missing_confirmations"} : Needs(f, k, IsStrings)
  /\ Needs(f, "preflight", LAMBDA l : IsListOf(l, IsPreflightCmd))
  /\ May(f, "rollback", LAMBDA r : IsNullOr(r, IsRollbackInfo))
  /\ Needs(f, "evidence", LAMBDA l : IsListOf(l, IsEvidence))

(* parse_args.  The gate has refused every array by then, but for the two  *)
(* tools it never sees and for proposals.                                  *)
Keys(tool) ==
  CASE tool = "read_man" -> <<"topic", "section">>
    [] tool = "read_info" -> <<"topic">>
    [] tool = "propose_command" ->
         <<"summary", "argv", "display", "risk", "risk_reasons", "assumptions", "preflight",
           "rollback", "evidence", "missing_confirmations">>
    [] OTHER -> <<>>

Fields(c) == StructFields(c.args, Keys(c.tool))

ParseArgs(c) ==
  /\ IsObj(c.args) \/ (Keys(c.tool) # <<>> /\ IsStruct(c.args, Keys(c.tool)))
  /\ ~c.twice
  /\ CASE c.tool = "read_help" -> ReadHelpArgs(Fields(c))
       [] c.tool = "read_man" -> ReadManArgs(Fields(c))
       [] c.tool = "read_info" -> ReadInfoArgs(Fields(c))
       [] c.tool \in DocTools -> DocArgs(c.tool, Fields(c))
       [] c.tool = "spawn" -> SpawnArgs(Fields(c))
       [] c.tool = "propose_command" -> CommandProposalArgs(Fields(c))

---------------------------------------------------------------------------
(* The outcomes.                                                           *)
Nothing == [tool |-> "none"]

Answer(c, why, what) ==
  /\ answer' = [call |-> c, why |-> why]
  /\ effect' = what
  /\ UNCHANGED config

Refuse(c, why) == Answer(c, why, Nothing) /\ UNCHANGED stored

Done(c) == c.tool = "done" /\ Refuse(c, "done")

(* What the policy makes of a proposal is in Policy.                       *)
ProposeCommand(c) ==
  /\ c.tool = "propose_command"
  /\ \/ ~ParseArgs(c) /\ Refuse(c, "arguments")
     \/ /\ ParseArgs(c)
        /\ \E why \in {"rejected", "accepted"} : Refuse(c, why)

GateRefuses(c) ==
  /\ RequiresPolicyValidation(c.tool) /\ ~ValidateToolCall(c)
  /\ Refuse(c, "gate")

Passed(c) ==
  /\ c.tool \notin {"done", "propose_command"}
  /\ RequiresPolicyValidation(c.tool) => ValidateToolCall(c)

ArgumentsRefused(c) ==
  /\ Passed(c)
  /\ c.tool \in DocTools \cup {"read_help", "read_man", "read_info", "spawn"}
  /\ ~ParseArgs(c)
  /\ Refuse(c, "arguments")

Captured(c, id, what) ==
  \/ /\ Cardinality(stored \cup {id}) <= MaxDocs
     /\ Answer(c, "ok", what) /\ stored' = stored \cup {id}
  \/ Answer(c, "failed", what) /\ UNCHANGED stored

ReadHelp(c) ==
  /\ c.tool = "read_help" /\ Passed(c) /\ ParseArgs(c)
  /\ LET f == Fields(c)
         words == IF "subcommands" \in DOMAIN f
                    THEN [i \in DOMAIN f.subcommands.items |-> f.subcommands.items[i].str]
                    ELSE <<>>
         allowed == /\ "help" \in config.actions
                    /\ ProgramAllowed(f.program.str)
                    /\ \A i \in DOMAIN words : IsValidIdentifier(words[i])
     IN \/ ~allowed /\ Refuse(c, "refused")
        \/ /\ allowed
           /\ Captured(c, HelpDocId(f.program.str, words),
                       [tool |-> "read_help", program |-> f.program.str, words |-> words])

ReadMan(c) ==
  /\ c.tool = "read_man" /\ Passed(c) /\ ParseArgs(c)
  /\ LET f == Fields(c)
         section == IF "section" \in DOMAIN f /\ IsNum(f.section) THEN {f.section.num} ELSE {}
         allowed == "man" \in config.actions /\ IsValidTopic(f.topic.str)
     IN \/ ~allowed /\ Refuse(c, "refused")
        \/ /\ allowed
           /\ Captured(c, ManDocId(f.topic.str, section),
                       [tool |-> "read_man", topic |-> f.topic.str])

ReadInfo(c) ==
  /\ c.tool = "read_info" /\ Passed(c) /\ ParseArgs(c)
  /\ LET topic == Fields(c).topic.str
         allowed == "info" \in config.actions /\ IsValidTopic(topic)
     IN \/ ~allowed /\ Refuse(c, "refused")
        \/ allowed /\ Captured(c, InfoDocId(topic), [tool |-> "read_info", topic |-> topic])

(* The doc_ tools.  They fail for a document that is not there, and for a  *)
(* pattern, a handle or a range the document refuses.                      *)
LookUp(c) ==
  /\ c.tool \in DocTools /\ Passed(c) /\ ParseArgs(c)
  /\ LET doc == DocRef(Fields(c))
     IN \/ /\ doc \in stored
           /\ Answer(c, "ok", [tool |-> c.tool, doc |-> doc]) /\ UNCHANGED stored
        \/ Refuse(c, IF doc \in stored THEN "failed" ELSE "refused")

(* web_search and execute answer that they are not implemented, whatever   *)
(* their arguments.                                                        *)
NotImplemented(c) ==
  /\ c.tool \in {"web_search", "execute"} /\ Passed(c)
  /\ Answer(c, "ok", [tool |-> c.tool]) /\ UNCHANGED stored

(* The role is read, and the pool validates the request.                   *)
ValidateRequest(role, tools, context) ==
  /\ role \in {"doc_explorer", "risk_reviewer"}
  /\ context <= SubagentContext
  /\ tools \subseteq AllowedTools(role)

Spawn(c) ==
  /\ c.tool = "spawn" /\ Passed(c) /\ ParseArgs(c)
  /\ LET f == Fields(c)
         tools == {f["allowed_tools"].items[i].str : i \in DOMAIN f["allowed_tools"].items}
         context == f["context_tokens"].num
         valid == ValidateRequest(f.role.str, tools, context)
     IN \/ ~valid /\ Refuse(c, "refused")
        \/ /\ valid
           /\ \E why \in {"ok", "failed"} :
                Answer(c, why, [tool |-> "spawn", role |-> f.role.str, tools |-> tools,
                                context |-> context])
           /\ UNCHANGED stored

UnknownTool(c) ==
  /\ c.tool \notin Offered(TRUE, TRUE)
  /\ Refuse(c, "unknown")

Init ==
  /\ config \in Configs
  /\ stored = {}
  /\ effect = Nothing
  /\ answer = [why |-> "none"]

Dispatch(c) ==
  \/ Done(c)
  \/ ProposeCommand(c)
  \/ GateRefuses(c)
  \/ ArgumentsRefused(c)
  \/ ReadHelp(c)
  \/ ReadMan(c)
  \/ ReadInfo(c)
  \/ LookUp(c)
  \/ NotImplemented(c)
  \/ Spawn(c)
  \/ UnknownTool(c)

Next == \E c \in Calls : Dispatch(c)

Spec == Init /\ [][Next]_vars

---------------------------------------------------------------------------
(* The configuration is one of those given, and every call has an answer   *)
(* of a known kind.                                                        *)
TypeOK ==
  /\ config \in Configs
  /\ answer.why \in {"none", "done", "accepted", "rejected", "gate", "arguments", "refused",
                     "ok", "failed", "unknown"}
  /\ answer.why # "none" => answer.call \in Calls

(* What the runtime does was checked, in the values it uses and not in     *)
(* those the gate made out: the program and words of a help page, the      *)
(* document that is read, a subagent's role, tools and context, and the    *)
(* switches of searches and execution.                                     *)
CarriedOutWasChecked ==
  /\ effect.tool = "read_help" =>
       ProgramAllowed(effect.program)
       /\ \A i \in DOMAIN effect.words : IsSafeSubcommand(effect.words[i])
  /\ effect.tool \in DocTools => effect.doc \in stored
  /\ effect.tool = "spawn" => /\ effect.tools \subseteq RoleToolPermissions(effect.role)
                              /\ effect.context <= SubagentContext
  /\ effect.tool = "web_search" => config.search
  /\ effect.tool = "execute" => config.execute

(* The checks behind the gate never refuse what the gate let through: the  *)
(* two copies of the tools of a role, of the program list and of the       *)
(* syntax of a word agree, and so do the two readings of a document's name.*)
(* Only the list of documentation actions and the topics, which the gate   *)
(* does not look at, are refused behind it.                                *)
SecondChecksAgree ==
  answer.why = "refused" =>
    \/ answer.call.tool = "read_help" /\ "help" \notin config.actions
    \/ answer.call.tool \in {"read_man", "read_info"}

Conforms(c) ==
  /\ c.tool \in Offered(config.search, config.subagents)
  /\ IsObj(c.args) /\ ~c.twice
  /\ Schema(c.tool, c.args.fields)

(* The kind of evidence that the offered schema and the system prompt name *)
(* official_web is official_web_doc to the parser.                         *)
CitesOfficialWeb(c) ==
  /\ c.tool = "propose_command"
  /\ LET evidence == c.args.fields["evidence"].items
     IN \E i \in DOMAIN evidence :
          evidence[i].fields["source"].fields["kind"].str = "official_web"

(* A call the offered schema describes is never refused for its shape, but *)
(* for a proposal that cites a page of the official web.                   *)
SchemaCallsParse ==
  answer.why = "arguments" /\ Conforms(answer.call) => CitesOfficialWeb(answer.call)
=============================================================================
