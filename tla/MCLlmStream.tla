---------------------------- MODULE MCLlmStream ----------------------------
(***************************************************************************)
(* LlmStream with a handful of servers: one that streams text, one whose   *)
(* tool calls come in interleaved fragments, one with several lines to an  *)
(* event, one with a payload that is no JSON, one with an index too large. *)
(***************************************************************************)
EXTENDS LlmStream

Payload(kind, content, tool_calls, finish, usage) ==
  [kind |-> kind, content |-> content, tool_calls |-> tool_calls,
   finish_reason |-> finish, usage |-> usage]

Text(t) == Payload("data", <<t>>, None, None, None)
Calls(deltas) == Payload("data", <<>>, deltas, None, None)
Finish(why, usage) == Payload("data", <<>>, None, why, usage)
Header == Payload("data", <<>>, None, None, None)
Plain(kind) == Payload(kind, <<>>, None, None, None)

Delta(index, id, name, arguments) ==
  [index |-> index, id |-> id, name |-> name, arguments |-> arguments]

Script(crlf, blocks) == [crlf |-> crlf, blocks |-> blocks]

Talks ==
  Script(FALSE, <<<<Text("a")>>, <<Text("b")>>, <<Finish("stop", 7)>>,
                  <<Plain("done")>>, <<Text("c")>>>>)

CallsTools ==
  Script(FALSE, <<<<Header>>,
                  <<Calls(<<Delta(1, "i1", "n1", <<"x">>), Delta(0, None, "n0", <<>>)>>)>>,
                  <<Calls(<<Delta(None, "i0", None, <<"y">>), Delta(None, None, None, <<"z">>)>>)>>,
                  <<Finish("tool_calls", None)>>>>)

SeveralLines ==
  Script(TRUE, <<<<Plain("comment"), Text("a"), Plain("empty"), Text("b")>>,
                 <<Calls(<<Delta(0, None, "n0", <<"x">>)>>)>>,
                 <<Plain("done"), Text("c")>>>>)

Breaks == Script(TRUE, <<<<Text("a")>>, <<Text("b"), Plain("broken"), Text("c")>>, <<Text("d")>>>>)

TooMany == Script(FALSE, <<<<Text("a")>>, <<Calls(<<Delta(2, "i", "n", <<>>)>>)>>>>)

MCScripts == {Talks, CallsTools, SeveralLines, Breaks, TooMany}
=============================================================================
