----------------------------- MODULE MCToolGate -----------------------------
(* Every mixture of well and badly made arguments for every tool.          *)
EXTENDS ToolGate, FiniteSetsExt, TLC

MCChars ==
  [kubectl |-> {"alphanumeric"}, rm |-> {"alphanumeric"}, rollout |-> {"alphanumeric"},
   under_score |-> {"alphanumeric", "_"}, semicolon |-> {"alphanumeric", "meta"}, empty |-> {}]

MCConfigs ==
  {[search |-> "*" \in p, subagents |-> TRUE, execute |-> h = {}, programs |-> p,
    actions |-> {"man", "info"} \cup h] : p \in {{"kubectl"}, {"*"}}, h \in {{}, {"help"}}}
  \cup {[search |-> TRUE, subagents |-> FALSE, execute |-> TRUE, programs |-> {"kubectl"},
          actions |-> {"help"}]}

MCSubagentContext == 4
MCMaxDocs == 1

(* The objects that have each of the fields, with one of its values, or not. *)
Fitting(values) ==
  FoldSet(LAMBDA k, fields : fields \cup {f @@ (k :> v) : f \in fields, v \in values[k]},
          {<<>>}, DOMAIN values)
Called(tool, fields) == {[tool |-> tool, args |-> Obj(f), twice |-> FALSE] : f \in fields}
Whole(fields, rest) == {f @@ rest : f \in fields}

Word(w) == Arr(<<Str(w)>>)
HelpCalls == Called("read_help", Fitting(
  [program |-> {Str("kubectl"), Str("rm"), Num(1)},
   subcommands |-> {Arr(<<>>), Word("rollout"), Word("under_score"), Word("semicolon"),
                    Word("empty"), Arr(<<Num(1), Str("rollout")>>), Str("rollout")},
   style |-> {Str("short"), Str("tiny")}]))

ManCalls ==
  Called("read_man", Fitting([topic |-> {Str("kubectl"), Str("semicolon"), Num(1)},
                              section |-> {Num(1), Num(-1), Null}]))
  \cup Called("read_info", Fitting([topic |-> {Str("kubectl"), Str("empty"), Null}]))

Docs == {HelpDocId("kubectl", <<>>), ManDocId("kubectl", {1})}
DocFields == Fitting([doc |-> {Str(d) : d \in Docs} \cup {Num(1)},
                      doc_id |-> {Str(d) : d \in Docs} \cup {Num(1)}])
Rest == [max_tokens |-> Num(1), pattern |-> Str("rollout"), heading_regex |-> Str("rollout"),
         start |-> Num(1), end |-> Num(2), match_id |-> Str("m"), before |-> Num(0),
         after |-> Num(0)]
DocNeeds ==
  [doc_token_count |-> {}, doc_preview |-> {"max_tokens"}, doc_grep |-> {"pattern"},
   doc_section |-> {"heading_regex", "max_tokens"}, doc_lines |-> {"start", "end"},
   doc_expand_around |-> {"match_id", "before", "after"}]
DocCalls ==
  UNION {Called(t, Whole(DocFields, Restrict(Rest, DocNeeds[t]))) : t \in DocTools}
  \cup {[tool |-> t, args |-> Obj([doc |-> Str(d), max_tokens |-> Num(-1)]), twice |-> FALSE] :
          t \in DocTools, d \in Docs}

Common == [goal |-> Str("goal"), timeout_ms |-> Num(1), output_schema |-> Str("V1")]
SpawnCalls ==
  Called("spawn", Whole(Fitting(
    [role |-> {Str("doc_explorer"), Str("risk_reviewer"), Str("operator")},
     allowed_tools |-> {Arr(<<>>), Word("web_search"), Word("spawn"),
                        Arr(<<Str("doc_grep"), Num(1)>>), Str("spawn")},
     context_tokens |-> {Num(4), Num(5), Num(-1), Str("4")}]),
    Common @@ [input |-> Obj([known |-> Null])]))
  \cup Called("spawn", Whole(Fitting(
    [input |-> {Obj([known |-> Null])}, thinking_budget |-> {Num(0), Null}]),
    Common @@ [role |-> Str("doc_explorer"), allowed_tools |-> Arr(<<>>),
               context_tokens |-> Num(1)]))

OtherCalls ==
  Called("web_search", Fitting([query |-> {Str("how")}, max_results |-> {Num(1)}]))
  \cup Called("execute", Fitting(
         [argv |-> {Word("kubectl"), Word("rm"), Word("semicolon"), Arr(<<>>)},
          user_approved |-> {Flag(TRUE), Flag(FALSE)}]))
  \cup Called("done", Fitting([reason |-> {Str("over")}]))
  \cup Called("doc_delete", {<<>>})

Source(kind) == [kind |-> Str(kind), doc |-> Str("d")]
Sources ==
  {Obj(Source(k)) : k \in EvidenceKinds \cup {"official_web", "hearsay"}}
  \cup {Obj(Source("local_doc") @@ [lines |-> l]) :
          l \in {Null, Arr(<<Num(1), Num(2)>>), Arr(<<Num(1)>>)}}
Proposal ==
  [summary |-> Str("s"), argv |-> Word("kubectl"), display |-> Str("kubectl"),
   risk |-> Str("low"), risk_reasons |-> Arr(<<>>), assumptions |-> Arr(<<>>),
   preflight |-> Arr(<<>>), evidence |-> Arr(<<>>), missing_confirmations |-> Arr(<<>>)]
Proposals ==
  {Proposal}
  \cup {[Proposal EXCEPT !.evidence = Arr(<<Obj([claim |-> Str("c"), source |-> s,
                                                   confidence |-> Str("low")])>>)] : s \in Sources}
  \cup {Proposal @@ [rollback |-> r] :
          r \in {Null, Str("none"), Obj([available |-> Str("none"), notes |-> Str("n")])}}
  \cup {[Proposal EXCEPT !.preflight = Arr(<<p>>)] :
          p \in {Arr(<<Word("kubectl"), Str("r")>>), Obj([argv |-> Word("kubectl")])}}
  \cup {[Proposal EXCEPT !.risk = Str("none")], Restrict(Proposal, {"summary", "argv"})}

(* Texts that are no object, and fields named twice.                       *)
Odd ==
  {[tool |-> t, args |-> a, twice |-> FALSE] :
     t \in DOMAIN DocNeeds \cup {"read_help", "read_man", "read_info", "spawn", "web_search",
                                 "execute", "propose_command", "done"},
     a \in {Malformed, Null, Arr(<<Str("kubectl")>>), Arr(<<Str("kubectl"), Null>>)}}
  \cup {[tool |-> "read_help", args |-> Obj([program |-> Str(p)]), twice |-> TRUE] :
          p \in {"kubectl", "rm"}}

MCCalls ==
  HelpCalls \cup ManCalls \cup DocCalls \cup SpawnCalls \cup OtherCalls \cup Odd
  \cup Called("propose_command", Proposals)
=============================================================================
