----------------------------- MODULE AgentLoop ------------------------------
(***************************************************************************)
(* cps-agent: the conversation of the main agent.  A human input starts a  *)
(* turn (run_turn); a turn is a sequence of rounds, each a budget check, a *)
(* completion with its retries and the dispatch of the tool calls the      *)
(* model asked for; it ends by asking the human, by offering a proposal or *)
(* by an error, which ends the session.                                    *)
(*                                                                         *)
(*   pc        where run_turn is: "prompt" between turns, "budget" in      *)
(*             enforce_budget_before_llm_request, "calling" in             *)
(*             llm_call_with_retry, "tools" in handle_tool_round, "ended"  *)
(*             when the session is over                                    *)
(*   state     AgentState                                                  *)
(*   round     index of the round in the turn                              *)
(*   attempt   index of the completion attempt in the round                *)
(*   messages  the history that is sent                                    *)
(*   manager   the history the MessageManager keeps                        *)
(*   calls     the tool calls of the round, next the one to dispatch       *)
(*   outcome   what run_turn last returned                                 *)
(*   inputs    number of human inputs (bound)                              *)
(*   sent      completion attempts of this turn (history variable)         *)
(*                                                                         *)
(* What a tool does is in other modules: here it is a result of some size. *)
(***************************************************************************)
EXTENDS Budget

CONSTANTS
  Inputs,          \* human inputs: [cancel, form, tokens]
  Responses,       \* what the model may answer: [form, tokens, calls, reads]
  Proposals,       \* command proposals
  Rejected,        \* those check_proposal has a Reject finding for
  CallIds,         \* ids the model gives its tool calls
  ToolTokens,      \* sizes of tool results
  SummaryTokens,   \* sizes of evidence summaries
  NudgeTokens,     \* size of a nudge
  MaxRounds,       \* max_tool_rounds
  Retries,         \* transient_retries
  MaxInputs,       \* bound: human inputs in a session
  None

\* What the arguments of a call, or the text of a reply, are read as.
Reads == Proposals \cup {"nothing", "broken"}

Calls == [id : CallIds, tool : {"done", "propose_command", "other"}, reads : Reads]

ASSUME AgentAssumption ==
  /\ MaxRounds \in Nat \ {0}
  /\ Retries \in Nat
  /\ MaxInputs \in Nat
  /\ NudgeTokens \in Nat
  /\ ToolTokens \subseteq Nat
  /\ SummaryTokens \subseteq Nat
  /\ Rejected \subseteq Proposals
  /\ Inputs \subseteq [cancel : BOOLEAN, form : {"plain", "evidence"}, tokens : Nat]
  /\ Responses \subseteq [form : {"plain", "evidence"}, tokens : Nat,
                          calls : Seq(Calls), reads : Reads]
  /\ None \notin Proposals \cup CallIds
  /\ {"nothing", "broken"} \cap Proposals = {}

VARIABLES pc, state, round, attempt, messages, manager, calls, next, outcome,
          inputs, sent

vars == <<pc, state, round, attempt, messages, manager, calls, next, outcome,
          inputs, sent>>

States == {"Idle", "ReceiveIntent", "Plan", "ExploreDocs", "MergeFindings",
           "GenerateProposal", "PolicyCheck", "HumanReview"}

Errors == {"Llm", "Json", "ToolRoundLimit", "ProposalRejected", "BudgetExceeded"}

Messages == [role : {"user", "assistant", "tool"}, form : Forms, tokens : Nat,
             calls : Seq(Calls), answers : CallIds \cup {None}]

Outcome(kind, proposal) == [kind |-> kind, proposal |-> proposal]

Outcomes == [kind : {"none", "needs_input", "proposal", "interrupted"} \cup Errors,
             proposal : Proposals \cup {None}]

---------------------------------------------------------------------------
(* The messages the loop appends, each to both histories.                  *)

UserMessage(form, tokens) ==
  [role |-> "user", form |-> form, tokens |-> tokens, calls |-> <<>>, answers |-> None]

AssistantMessage(form, tokens, asked) ==
  [role |-> "assistant", form |-> form, tokens |-> tokens, calls |-> asked, answers |-> None]

ToolResult(call, tokens) ==
  [role |-> "tool", form |-> "plain", tokens |-> tokens, calls |-> <<>>, answers |-> call.id]

Nudge == UserMessage("plain", NudgeTokens)

EvidenceSummary(tokens) == AssistantMessage("evidence", tokens, <<>>)

Extend(new) ==
  /\ messages' = messages \o new
  /\ manager' = manager \o new

Init ==
  /\ pc = "prompt"
  /\ state = "Idle"
  /\ round = 0
  /\ attempt = 0
  /\ messages = <<>>
  /\ manager = <<>>
  /\ calls = <<>>
  /\ next = 1
  /\ outcome = Outcome("none", None)
  /\ inputs = 0
  /\ sent = 0

---------------------------------------------------------------------------
(* Ways on from a point of run_turn.                                       *)

\* run_turn returns to the prompt.
Asks(s, o) ==
  /\ pc' = "prompt"
  /\ state' = s
  /\ outcome' = o
  /\ UNCHANGED round

\* run_turn returns an error, and the interactive session ends with it.
Fails(s, error) ==
  /\ pc' = "ended"
  /\ state' = s
  /\ outcome' = Outcome(error, None)
  /\ UNCHANGED round

\* The next iteration of the loop over rounds, if there is one.
NextRound ==
  IF round + 1 < MaxRounds
  THEN /\ pc' = "budget"
       /\ state' = "MergeFindings"
       /\ round' = round + 1
       /\ UNCHANGED outcome
  ELSE Fails("MergeFindings", "ToolRoundLimit")

FinishProposal(p) ==
  IF p \in Rejected
  THEN Fails("PolicyCheck", "ProposalRejected")
  ELSE Asks("HumanReview", Outcome("proposal", p))

---------------------------------------------------------------------------
(* The start of run_turn.  A cancel is part of the history all the same.   *)

Cancel(input) ==
  /\ pc = "prompt"
  /\ inputs < MaxInputs
  /\ input.cancel
  /\ inputs' = inputs + 1
  /\ Extend(<<UserMessage(input.form, input.tokens)>>)
  /\ Asks("Idle", Outcome("needs_input", None))
  /\ UNCHANGED <<attempt, calls, next, sent>>

Begin(input) ==
  /\ pc = "prompt"
  /\ inputs < MaxInputs
  /\ ~input.cancel
  /\ inputs' = inputs + 1
  /\ Extend(<<UserMessage(input.form, input.tokens)>>)
  /\ pc' = "budget"
  /\ state' = "Plan"
  /\ round' = 0
  /\ sent' = 0
  /\ UNCHANGED <<attempt, calls, next, outcome>>

\* "q", Ctrl+C or end of file at the prompt
Quit ==
  /\ pc = "prompt"
  /\ pc' = "ended"
  /\ UNCHANGED <<state, round, attempt, messages, manager, calls, next, outcome,
                 inputs, sent>>

---------------------------------------------------------------------------
(* enforce_budget_before_llm_request: tool output first, then evidence.    *)
(* The rewritings change the history in place, and only the one that is    *)
(* sent.                                                                   *)

\* (mistake: the message is dropped instead)
RewriteByDropping(i, m) ==
  /\ messages' = RemoveAt(messages, i)
  /\ UNCHANGED <<pc, state, round, attempt, manager, calls, next, outcome, inputs, sent>>

Rewrite(i, m) ==
  /\ messages' = [messages EXCEPT ![i] = m]
  /\ UNCHANGED <<pc, state, round, attempt, manager, calls, next, outcome, inputs, sent>>

CompressOldest ==
  /\ pc = "budget"
  /\ ~WithinBudget(messages)
  /\ \E i \in Oldest(CompressibleAt(messages)) : Rewrite(i, Compressed(messages[i]))

TruncateOldest ==
  /\ pc = "budget"
  /\ ~WithinBudget(messages)
  /\ CompressibleAt(messages) = {}
  /\ \E i \in Oldest(TruncatableAt(messages)) : Rewrite(i, Truncated(messages[i]))

\* (mistake: evidence is not tried when no tool output is left to cut)
BudgetExceededEarly ==
  /\ pc = "budget"
  /\ ~WithinBudget(messages)
  /\ CompressibleAt(messages) = {}
  /\ Fails(state, "BudgetExceeded")
  /\ UNCHANGED <<attempt, messages, manager, calls, next, inputs, sent>>

BudgetExceeded ==
  /\ pc = "budget"
  /\ ~WithinBudget(messages)
  /\ CompressibleAt(messages) = {}
  /\ TruncatableAt(messages) = {}
  /\ Fails(state, "BudgetExceeded")
  /\ UNCHANGED <<attempt, messages, manager, calls, next, inputs, sent>>

---------------------------------------------------------------------------
(* llm_call_with_retry.                                                    *)

SendRequest ==
  /\ pc = "budget"
  /\ WithinBudget(messages)
  /\ pc' = "calling"
  /\ attempt' = 0
  /\ sent' = sent + 1
  /\ UNCHANGED <<state, round, messages, manager, calls, next, outcome, inputs>>

\* A transient error, the delay and the next attempt.
Retry ==
  /\ pc = "calling"
  /\ attempt < Retries
  /\ attempt' = attempt + 1
  /\ sent' = sent + 1
  /\ UNCHANGED <<pc, state, round, messages, manager, calls, next, outcome, inputs>>

\* An error that is not transient, or any error of the last attempt.
GiveUp ==
  /\ pc = "calling"
  /\ Fails(state, "Llm")
  /\ UNCHANGED <<attempt, messages, manager, calls, next, inputs, sent>>

---------------------------------------------------------------------------
(* The reply: tool calls come before what the text says; free text is met  *)
(* with a nudge, in the last round with a question to the human.           *)

Reply(r) == AssistantMessage(r.form, r.tokens, r.calls)

ReplyCalls(r) ==
  /\ pc = "calling"
  /\ r.calls # <<>>
  /\ Extend(<<Reply(r)>>)
  /\ pc' = "tools"
  /\ state' = "ExploreDocs"
  /\ calls' = r.calls
  /\ next' = 1
  /\ UNCHANGED <<round, attempt, outcome, inputs, sent>>

ReplyBroken(r) ==
  /\ pc = "calling"
  /\ r.calls = <<>>
  /\ r.reads = "broken"
  /\ Extend(<<Reply(r)>>)
  /\ Fails(state, "Json")
  /\ UNCHANGED <<attempt, calls, next, inputs, sent>>

ReplyProposal(r) ==
  /\ pc = "calling"
  /\ r.calls = <<>>
  /\ r.reads \in Proposals
  /\ Extend(<<Reply(r)>>)
  /\ FinishProposal(r.reads)
  /\ UNCHANGED <<attempt, calls, next, inputs, sent>>

ReplyText(r) ==
  /\ pc = "calling"
  /\ r.calls = <<>>
  /\ r.reads = "nothing"
  /\ round < MaxRounds - 1
  /\ Extend(<<Reply(r), Nudge>>)
  /\ NextRound
  /\ UNCHANGED <<attempt, calls, next, inputs, sent>>

ReplyTextLast(r) ==
  /\ pc = "calling"
  /\ r.calls = <<>>
  /\ r.reads = "nothing"
  /\ round = MaxRounds - 1
  /\ Extend(<<Reply(r)>>)
  /\ Asks("HumanReview", Outcome("needs_input", None))
  /\ UNCHANGED <<attempt, calls, next, inputs, sent>>

---------------------------------------------------------------------------
(* handle_tool_round: the calls are dispatched one after the other.  "done"*)
(* and an accepted proposal end the turn, whatever calls are left.         *)

Offered(call) ==
  call.tool = "propose_command" /\ call.reads \in Proposals \ Rejected

\* A result the round goes on from: of a tool, or the error that answers an
\* unreadable or rejected proposal.
Continues(call) == call.tool # "done" /\ ~Offered(call)

\* (mistake: an error result leaves the rest of the calls aside)
DispatchBreak(tokens) ==
  /\ pc = "tools"
  /\ Continues(calls[next])
  /\ Extend(<<ToolResult(calls[next], tokens)>>)
  /\ next' = Len(calls)
  /\ UNCHANGED <<pc, state, round, attempt, calls, outcome, inputs, sent>>

Dispatch(tokens) ==
  /\ pc = "tools"
  /\ next < Len(calls)
  /\ Continues(calls[next])
  /\ Extend(<<ToolResult(calls[next], tokens)>>)
  /\ next' = next + 1
  /\ UNCHANGED <<pc, state, round, attempt, calls, outcome, inputs, sent>>

\* The last call, then the evidence summary of the round.
DispatchLast(tokens, summary) ==
  /\ pc = "tools"
  /\ next = Len(calls)
  /\ Continues(calls[next])
  /\ Extend(<<ToolResult(calls[next], tokens), EvidenceSummary(summary)>>)
  /\ NextRound
  /\ UNCHANGED <<attempt, calls, next, inputs, sent>>

DispatchDone(tokens) ==
  /\ pc = "tools"
  /\ calls[next].tool = "done"
  /\ Extend(<<ToolResult(calls[next], tokens)>>)
  /\ Asks("Idle", Outcome("needs_input", None))
  /\ UNCHANGED <<attempt, calls, next, inputs, sent>>

DispatchProposal(tokens) ==
  /\ pc = "tools"
  /\ Offered(calls[next])
  /\ Extend(<<ToolResult(calls[next], tokens)>>)
  /\ FinishProposal(calls[next].reads)
  /\ UNCHANGED <<attempt, calls, next, inputs, sent>>

\* Ctrl+C drops run_turn where it awaits: a completion, its retry delay or
\* a tool.
Interrupt ==
  /\ pc \in {"calling", "tools"}
  /\ pc' = "ended"
  /\ outcome' = Outcome("interrupted", None)
  /\ UNCHANGED <<state, round, attempt, messages, manager, calls, next, inputs, sent>>

---------------------------------------------------------------------------
(* The steps of a turn, as the code takes them without further input.      *)
Continue ==
  \/ CompressOldest \/ TruncateOldest \/ BudgetExceeded
  \/ SendRequest \/ Retry \/ GiveUp
  \/ \E r \in Responses : \/ ReplyCalls(r) \/ ReplyBroken(r) \/ ReplyProposal(r)
                          \/ ReplyText(r) \/ ReplyTextLast(r)
  \/ \E t \in ToolTokens : \/ Dispatch(t) \/ DispatchDone(t) \/ DispatchProposal(t)
                           \/ \E s \in SummaryTokens : DispatchLast(t, s)

Next ==
  \/ \E input \in Inputs : Begin(input) \/ Cancel(input)
  \/ Continue
  \/ Interrupt
  \/ Quit

Spec == Init /\ [][Next]_vars

(* Between two awaits the loop runs on; a completion is answered or times  *)
(* out after request_timeout_ms, and the tools have timeouts of their own. *)
FairSpec == Spec /\ WF_vars(Continue)

---------------------------------------------------------------------------
Working == pc \in {"budget", "calling", "tools"}

TypeOK ==
  /\ pc \in {"prompt", "budget", "calling", "tools", "ended"}
  /\ state \in States
  /\ round \in 0..(MaxRounds - 1)
  /\ attempt \in 0..Retries
  /\ messages \in Seq(Messages)
  /\ manager \in Seq(Messages)
  /\ calls \in Seq(Calls)
  /\ next \in Nat \ {0}
  /\ pc = "tools" => next \in 1..Len(calls)
  /\ outcome \in Outcomes
  /\ inputs \in 0..MaxInputs
  /\ sent \in Nat

(* The human is never offered a proposal the policy rejects, whether the   *)
(* model called propose_command or wrote the proposal as its reply.        *)
OfferedChecked == outcome.proposal # None => outcome.proposal \notin Rejected

\* The k-th call of message a has its result in its place.
Answered(a, k) ==
  a + k \in DOMAIN messages /\ messages[a + k].answers = messages[a].calls[k].id

\* No call of the message before the k-th ended the turn.
Reached(a, k) == \A j \in 1..(k - 1) : Continues(messages[a].calls[j])

Settled(a, k) == Reached(a, k) => Answered(a, k)

(* Every call of a reply has its result, in the order of the calls, up to  *)
(* and with the first that ends the turn ("done" or an accepted proposal): *)
(* nothing else leaves a call open, but for the round that is being        *)
(* dispatched or was interrupted.                                          *)
CallsAnswered ==
  \A a \in DOMAIN messages : \A k \in DOMAIN messages[a].calls :
    Settled(a, k) \/ (a + k > Len(messages) /\ pc \in {"tools", "ended"})

(* The other way round: a tool result stands right after the message that  *)
(* asked for it and after the results of the calls before it, and no call  *)
(* is dispatched after one that ends the turn.                             *)
ResultsWereAsked ==
  \A i \in DOMAIN messages : messages[i].role = "tool" =>
    \E k \in 1..(i - 1) :
      /\ k \in DOMAIN messages[i - k].calls
      /\ messages[i].answers = messages[i - k].calls[k].id
      /\ Reached(i - k, k)
      /\ \A j \in (i - k + 1)..i : messages[j].role = "tool"

(* So exactly the calls that are dispatched have results, each in its      *)
(* place, whatever the failures, interrupts and rewritings.  The calls     *)
(* after one that ends the turn have none: see RequestsAnswerCalls.        *)
ResultsInPlace == CallsAnswered /\ ResultsWereAsked

(* "Tool/function calls - round-trip via the Message::tool_calls /         *)
(* Message::tool_result message types" (cps-llm): in a request, every call *)
(* of the messages it holds has its result.  It does not hold: the calls   *)
(* after "done" or an accepted proposal stay without one in the history,   *)
(* and the turn of the next input sends them.                              *)
RequestsAnswerCalls ==
  pc = "calling" =>
    \A a \in DOMAIN messages : \A k \in DOMAIN messages[a].calls : Answered(a, k)

\* While calls are dispatched the history ends with the reply that asked for
\* them and the results so far, and nothing before it is left open.
Asking == Len(messages) - next + 1

RoundInHistory ==
  pc = "tools" =>
    /\ Asking \in DOMAIN messages
    /\ messages[Asking].calls = calls
    /\ \A j \in 1..(next - 1) : Continues(calls[j])
    /\ \A j \in (Asking + 1)..Len(messages) : messages[j].role = "tool"
    /\ \A a \in DOMAIN messages \ {Asking} : \A k \in DOMAIN messages[a].calls : Settled(a, k)

ChatInv == ResultsInPlace /\ RoundInHistory

(* The two histories differ in what the budget took away and nothing else: *)
(* tool output cut to a preview once, evidence cut to the placeholder.     *)
Shortened(m, original) ==
  \/ m = original
  \/ original.role = "tool" /\ m = Compressed(original)
  \/ IsEvidence(original) /\ m = Truncated(original)

HistoriesAgree ==
  /\ Len(messages) = Len(manager)
  /\ \A i \in DOMAIN messages : Shortened(messages[i], manager[i])

\* What only a rewriting leaves is not in the history the manager keeps.
Original(m) == m.form \in {"plain", "evidence"} /\ (m.role = "tool" => m.form = "plain")

ManagerKeepsOriginals == \A i \in DOMAIN manager : Original(manager[i])

(* What is newest is kept longest: nothing is cut while an older message   *)
(* could be cut instead, and no evidence goes while older tool output      *)
(* could go.                                                               *)
OldestFirst ==
  \A j \in DOMAIN messages : \A i \in 1..(j - 1) :
    /\ messages[j].form \in {"compressed", "truncated"} => ~Compressible(messages[i])
    /\ messages[j].form = "truncated" => ~Truncatable(messages[i])

HistoryInv == HistoriesAgree /\ ManagerKeepsOriginals /\ OldestFirst

(* The session is given up over its budget only when no cut would have     *)
(* saved it: whichever tool outputs and evidence of the whole conversation *)
(* were cut, over all its turns, what is left would be too much.           *)
Cut(m) == IF m.role = "tool" THEN Compressed(m) ELSE Truncated(m)

NoCutWouldFit ==
  outcome.kind = "BudgetExceeded" =>
    \A cut \in SUBSET {i \in DOMAIN manager : manager[i].role = "tool" \/ IsEvidence(manager[i])} :
      ~WithinBudget([i \in DOMAIN manager |-> IF i \in cut THEN Cut(manager[i]) ELSE manager[i]])

(* One input costs at most max_tool_rounds completions, each tried at most *)
(* transient_retries + 1 times.                                            *)
AttemptsBounded == sent <= MaxRounds * (Retries + 1)

\* Each round so far cost at most Retries + 1 attempts.
AttemptsCounted ==
  /\ pc = "budget" => sent <= round * (Retries + 1)
  /\ pc = "calling" => sent <= round * (Retries + 1) + attempt + 1
  /\ pc = "tools" => sent <= round * (Retries + 1) + (Retries + 1)
  /\ AttemptsBounded

(* A turn ends: at the prompt or with the session.                         *)
TurnEnds == Working ~> ~Working

---------------------------------------------------------------------------
(* The conversation the loop implements: rewriting a message changes       *)
(* neither its place nor its role nor the calls it makes or answers.       *)

Heading(m) == [role |-> m.role, calls |-> m.calls, answers |-> m.answers]

Talk(msgs) == [i \in DOMAIN msgs |-> Heading(msgs[i])]

Phase == IF Working THEN "working" ELSE IF pc = "prompt" THEN "waiting" ELSE "over"

Conversation == INSTANCE ConversationAbs WITH
  Acceptable <- Proposals \ Rejected,
  NoOffer <- None,
  talk <- Talk(messages),
  phase <- Phase,
  offer <- IF pc = "prompt" THEN outcome.proposal ELSE None

RefinesConversation == Conversation!Spec

=============================================================================
