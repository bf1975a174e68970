------------------------------- MODULE Budget -------------------------------
(***************************************************************************)
(* Token budgets: the shares of cps-budget, the per-layer accounting of    *)
(* cps-agent's BudgetTracker, and the two rewritings of the agent loop     *)
(* that bring a conversation back under its budget.                        *)
(*                                                                         *)
(* A message keeps what the accounting and the chat protocol tell apart:   *)
(*   role     who it is from                                               *)
(*   form     how its content starts: "plain", the "evidence" prefix, or   *)
(*            the text a rewriting left ("compressed", "truncated")        *)
(*   tokens   the count of its serialized form                             *)
(*   calls    an assistant message's tool calls                            *)
(*   answers  the call id a tool message answers                           *)
(***************************************************************************)
EXTENDS Integers, Sequences, SequencesExt

CONSTANTS
  EffectiveContext,           \* max_context_tokens minus the thinking budget
  SystemPromptTokens,         \* cost of the system prompt
  ToolDefinitionTokens,       \* cost of the tool definitions
  COMPRESSED_HEADER_TOKENS,   \* a compressed message without its preview
  TRUNCATED_TOKENS            \* a truncated evidence message

ASSUME BudgetAssumption ==
  /\ EffectiveContext \in Nat
  /\ SystemPromptTokens \in Nat
  /\ ToolDefinitionTokens \in Nat
  /\ COMPRESSED_HEADER_TOKENS \in Nat
  /\ TRUNCATED_TOKENS \in Nat

Forms == {"plain", "evidence", "compressed", "truncated"}

---------------------------------------------------------------------------
(* Layers 0 (system prompt), 1 (conversation), 2 (evidence) and 3 (tool    *)
(* output) each have a share of the context; the rest is kept in reserve   *)
(* for the answer.                                                         *)

Layers == 0..3

Percent(layer) == <<5, 15, 25, 30>>[layer + 1]

Share(percent) == (EffectiveContext * percent) \div 100

Limit(layer) == Share(Percent(layer))

Reserve == Share(25)

---------------------------------------------------------------------------
(* check_budget recounts the whole history; is_evidence_message looks at   *)
(* the content alone, whoever the message is from.                         *)

IsEvidence(m) == m.form \in {"evidence", "truncated"}

Layer(m) ==
  IF m.role = "tool" THEN 3
  ELSE IF m.role = "assistant" /\ IsEvidence(m) THEN 2
  ELSE 1

ImmutableUsage(layer) ==
  <<SystemPromptTokens, ToolDefinitionTokens, 0, 0>>[layer + 1]

Usage(msgs, layer) ==
  FoldLeft(LAMBDA sum, m : sum + (IF Layer(m) = layer THEN m.tokens ELSE 0),
           ImmutableUsage(layer), msgs)

LayersFit(used) == \A layer \in Layers : used[layer] <= Limit(layer)

ReserveLeft(used) ==
  used[0] + used[1] + used[2] + used[3] + Reserve <= EffectiveContext

WithinBudget(msgs) ==
  LET used == [layer \in 0..3 |-> Usage(msgs, layer)]
  IN  LayersFit(used) /\ ReserveLeft(used)

---------------------------------------------------------------------------
(* The rewritings: the oldest tool output that gets smaller is cut to a    *)
(* preview, the oldest evidence that gets smaller to a placeholder.        *)

LesserOf(a, b) == IF a <= b THEN a ELSE b
GreaterOf(a, b) == IF a <= b THEN b ELSE a

PreviewBudget(m) == GreaterOf(LesserOf(m.tokens \div 4, Limit(3) \div 20), 1)

Compressed(m) ==
  [m EXCEPT !.form = "compressed",
            !.tokens = COMPRESSED_HEADER_TOKENS + PreviewBudget(m)]

\* (mistake: a preview is cut down again, as long as that saves something)
CompressibleAgain(m) == Layer(m) = 3 /\ Compressed(m).tokens < m.tokens

\* (mistake: it is not looked at whether the preview is any smaller)
CompressibleAlways(m) == Layer(m) = 3

Compressible(m) ==
  /\ Layer(m) = 3
  /\ m.form # "compressed"
  /\ Compressed(m).tokens < m.tokens

\* A rewritten assistant message keeps its tool calls.
Truncated(m) ==
  [m EXCEPT !.form = "truncated", !.tokens = TRUNCATED_TOKENS + Len(m.calls)]

Truncatable(m) ==
  /\ IsEvidence(m)
  /\ m.form # "truncated"
  /\ Truncated(m).tokens < m.tokens

CompressibleAt(msgs) == {i \in DOMAIN msgs : Compressible(msgs[i])}
TruncatableAt(msgs) == {i \in DOMAIN msgs : Truncatable(msgs[i])}

\* (mistake: the newest goes first)
Newest(S) == {i \in S : \A j \in S : i >= j}

Oldest(S) == {i \in S : \A j \in S : i <= j}

=============================================================================
