---------------------------- MODULE MCAgentLoop -----------------------------
(***************************************************************************)
(* AgentLoop on an instance small enough for TLC.  The context is 1000     *)
(* tokens: 50, 150, 250 and 300 for the layers, 250 in reserve.  Two tool  *)
(* outputs of 200 tokens, two summaries of 130 or two long inputs are each *)
(* too much for their layer.                                               *)
(***************************************************************************)
EXTENDS AgentLoop

CONSTANTS good, bad, id1, id2

MCInputs ==
  {[cancel |-> TRUE,  form |-> "plain",    tokens |-> 5],
   [cancel |-> FALSE, form |-> "plain",    tokens |-> 70],
   [cancel |-> FALSE, form |-> "evidence", tokens |-> 90]}

Call(id, tool, reads) == [id |-> id, tool |-> tool, reads |-> reads]

Response(form, asked, reads) ==
  [form |-> form, tokens |-> 10, calls |-> asked, reads |-> reads]

MCResponses ==
  {Response("plain", <<>>, reads) : reads \in {"nothing", "broken", good, bad}} \cup
  {Response("evidence", <<>>, "nothing"),
   Response("plain", <<Call(id1, "other", "nothing")>>, "nothing"),
   Response("plain", <<Call(id1, "propose_command", bad),
                       Call(id2, "other", "broken")>>, bad),
   Response("plain", <<Call(id2, "other", "nothing"),
                       Call(id1, "propose_command", good),
                       Call(id2, "other", "nothing")>>, "nothing"),
   Response("evidence", <<Call(id1, "done", "nothing"),
                          Call(id2, "propose_command", "broken")>>, "nothing")}
=============================================================================
