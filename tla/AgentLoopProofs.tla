--------------------------- MODULE AgentLoopProofs --------------------------
(***************************************************************************)
(* Theorems about cps-agent: the loop, for every set of inputs, replies    *)
(* and tool results and every budget, and the pool of its subagents.       *)
(***************************************************************************)
EXTENDS AgentLoop, SubagentPool, FiniteSetTheorems, SequenceTheorems, TLAPS

---------------------------------------------------------------------------
(* The budget, whatever the size of the context.                           *)

(***************************************************************************)
(* The layers' limits and the reserve fit in the effective context, with   *)
(* the rounding down of each share.                                        *)
(***************************************************************************)
THEOREM SharesFit ==
  Limit(0) + Limit(1) + Limit(2) + Limit(3) + Reserve <= EffectiveContext
PROOF
  BY BudgetAssumption, SMT DEF Limit, Percent, Share, Reserve

(***************************************************************************)
(* The whole-request check of build_suggestions never fires alone: usage   *)
(* that fits layer by layer leaves the reserve.                            *)
(***************************************************************************)
THEOREM LayersLeaveReserve ==
  ASSUME NEW used \in [Layers -> Nat], LayersFit(used)
  PROVE  ReserveLeft(used)
PROOF
<1>1. /\ used[0] <= Limit(0) /\ used[1] <= Limit(1)
      /\ used[2] <= Limit(2) /\ used[3] <= Limit(3)
  BY DEF LayersFit, Layers
<1>2. /\ used[0] \in Nat /\ used[1] \in Nat /\ used[2] \in Nat /\ used[3] \in Nat
  BY DEF Layers
<1>3. /\ Limit(0) \in Int /\ Limit(1) \in Int /\ Limit(2) \in Int /\ Limit(3) \in Int
      /\ Reserve \in Int
  BY BudgetAssumption, SMT DEF Limit, Percent, Share, Reserve
<1>4. QED
  BY <1>1, <1>2, <1>3, SharesFit, BudgetAssumption, SMT DEF ReserveLeft

---------------------------------------------------------------------------
(* The messages the loop makes.                                            *)

LEMMA BudgetTypes ==
  \A m \in Messages : PreviewBudget(m) \in Nat
PROOF
<1>1. Limit(3) \in Nat
  BY BudgetAssumption, SMT DEF Limit, Percent, Share
<1>2. \A m \in Messages : m.tokens \in Nat
  BY DEF Messages
<1>3. QED
  BY <1>1, <1>2, SMT DEF PreviewBudget, LesserOf, GreaterOf

LEMMA RewrittenTypes ==
  ASSUME NEW m \in Messages
  PROVE  Compressed(m) \in Messages /\ Truncated(m) \in Messages
PROOF
<1>1. PreviewBudget(m) \in Nat /\ COMPRESSED_HEADER_TOKENS \in Nat /\ TRUNCATED_TOKENS \in Nat
  BY BudgetTypes, BudgetAssumption
<1>2. Len(m.calls) \in Nat
  BY DEF Messages
<1>3. /\ COMPRESSED_HEADER_TOKENS + PreviewBudget(m) \in Nat
      /\ TRUNCATED_TOKENS + Len(m.calls) \in Nat
  BY <1>1, <1>2
<1>4. ASSUME NEW form \in Forms, NEW tokens \in Nat
      PROVE  [m EXCEPT !.form = form, !.tokens = tokens] \in Messages
  BY <1>4 DEF Messages
<1>5. QED
  BY <1>3, <1>4 DEF Compressed, Truncated, Forms

LEMMA InputTypes ==
  ASSUME NEW input \in Inputs
  PROVE  UserMessage(input.form, input.tokens) \in Messages
PROOF
<1>1. input \in [cancel : BOOLEAN, form : {"plain", "evidence"}, tokens : Nat]
  BY AgentAssumption
<1>2. QED
  BY <1>1 DEF UserMessage, Messages, Forms

LEMMA ReplyTypes ==
  ASSUME NEW r \in Responses
  PROVE  Reply(r) \in Messages /\ r.calls \in Seq(Calls) /\ r.reads \in Reads
PROOF
<1>1. r \in [form : {"plain", "evidence"}, tokens : Nat, calls : Seq(Calls), reads : Reads]
  BY AgentAssumption
<1>2. QED
  BY <1>1 DEF Reply, AssistantMessage, Messages, Forms

LEMMA ResultTypes ==
  ASSUME NEW call \in Calls, NEW t \in ToolTokens
  PROVE  ToolResult(call, t) \in Messages
PROOF
<1>1. t \in Nat /\ call.id \in CallIds
  BY AgentAssumption DEF Calls
<1>2. QED
  BY <1>1 DEF ToolResult, Messages, Forms

LEMMA SummaryTypes ==
  ASSUME NEW s \in SummaryTokens
  PROVE  EvidenceSummary(s) \in Messages
PROOF
<1>1. s \in Nat
  BY AgentAssumption
<1>2. QED
  BY <1>1 DEF EvidenceSummary, AssistantMessage, Messages, Forms

LEMMA NudgeType == Nudge \in Messages
PROOF
  BY AgentAssumption DEF Nudge, UserMessage, Messages, Forms

---------------------------------------------------------------------------
(* Both histories grow by messages, and by the same ones.                  *)
LEMMA ExtendTypes ==
  ASSUME messages \in Seq(Messages), manager \in Seq(Messages),
         NEW new \in Seq(Messages), Extend(new)
  PROVE  messages' \in Seq(Messages) /\ manager' \in Seq(Messages)
PROOF
  BY DEF Extend

\* The loop goes on to a next round only while there is one.
LEMMA NextRoundTypes ==
  ASSUME round \in 0..(MaxRounds - 1), outcome \in Outcomes, NextRound
  PROVE  /\ pc' \in {"budget", "ended"}
         /\ state' \in States
         /\ round' \in 0..(MaxRounds - 1)
         /\ outcome' \in Outcomes
PROOF
  BY AgentAssumption DEF NextRound, Fails, Outcome, Outcomes, Errors, States

LEMMA FinishTypes ==
  ASSUME NEW p \in Proposals, round \in 0..(MaxRounds - 1), FinishProposal(p)
  PROVE  /\ pc' \in {"prompt", "ended"}
         /\ state' \in States
         /\ round' \in 0..(MaxRounds - 1)
         /\ outcome' \in Outcomes
PROOF
  BY DEF FinishProposal, Asks, Fails, Outcome, Outcomes, Errors, States

(***************************************************************************)
(* Type correctness: among other things the dispatch never runs past the   *)
(* calls of its round, and the round index stays below max_tool_rounds.    *)
(***************************************************************************)
THEOREM TypeCorrect == Spec => []TypeOK
PROOF
<1>1. Init => TypeOK
  BY AgentAssumption DEF Init, TypeOK, States, Outcome, Outcomes
<1>2. TypeOK /\ [Next]_vars => TypeOK'
  <2> SUFFICES ASSUME TypeOK, [Next]_vars PROVE TypeOK'
    OBVIOUS
  <2> USE DEF TypeOK
  <2>1. CASE \E input \in Inputs : Begin(input) \/ Cancel(input)
    <3>1. PICK input \in Inputs : Begin(input) \/ Cancel(input)
      BY <2>1
    <3>2. <<UserMessage(input.form, input.tokens)>> \in Seq(Messages)
      BY InputTypes
    <3>3. messages' \in Seq(Messages) /\ manager' \in Seq(Messages)
      BY <3>1, <3>2, ExtendTypes DEF Begin, Cancel
    <3>4. inputs' \in 0..MaxInputs
      BY <3>1, AgentAssumption DEF Begin, Cancel
    <3>5. CASE Begin(input)
      BY <3>3, <3>4, <3>5, AgentAssumption DEF Begin, States
    <3>6. CASE Cancel(input)
      BY <3>3, <3>4, <3>6 DEF Cancel, Asks, Outcome, Outcomes, States
    <3>7. QED
      BY <3>1, <3>5, <3>6
  <2>2. CASE CompressOldest
    <3>1. PICK i \in DOMAIN messages : Rewrite(i, Compressed(messages[i]))
      BY <2>2 DEF CompressOldest, Oldest, CompressibleAt
    <3>2. Compressed(messages[i]) \in Messages
      BY RewrittenTypes
    <3>3. messages' \in Seq(Messages)
      BY <3>1, <3>2 DEF Rewrite
    <3>4. QED
      BY <3>1, <3>3 DEF Rewrite
  <2>3. CASE TruncateOldest
    <3>1. PICK i \in DOMAIN messages : Rewrite(i, Truncated(messages[i]))
      BY <2>3 DEF TruncateOldest, Oldest, TruncatableAt
    <3>2. Truncated(messages[i]) \in Messages
      BY RewrittenTypes
    <3>3. messages' \in Seq(Messages)
      BY <3>1, <3>2 DEF Rewrite
    <3>4. QED
      BY <3>1, <3>3 DEF Rewrite
  <2>4. CASE BudgetExceeded
    BY <2>4 DEF BudgetExceeded, Fails, Outcome, Outcomes, Errors
  <2>5. CASE SendRequest
    BY <2>5, AgentAssumption DEF SendRequest
  <2>6. CASE Retry
    BY <2>6, AgentAssumption DEF Retry
  <2>7. CASE GiveUp
    BY <2>7 DEF GiveUp, Fails, Outcome, Outcomes, Errors
  <2>8. CASE \E r \in Responses : \/ ReplyCalls(r) \/ ReplyBroken(r) \/ ReplyProposal(r)
                                  \/ ReplyText(r) \/ ReplyTextLast(r)
    <3>1. PICK r \in Responses : \/ ReplyCalls(r) \/ ReplyBroken(r) \/ ReplyProposal(r)
                                 \/ ReplyText(r) \/ ReplyTextLast(r)
      BY <2>8
    <3>2. <<Reply(r)>> \in Seq(Messages) /\ <<Reply(r), Nudge>> \in Seq(Messages)
      BY ReplyTypes, NudgeType
    <3>3. messages' \in Seq(Messages) /\ manager' \in Seq(Messages)
      BY <3>1, <3>2, ExtendTypes
         DEF ReplyCalls, ReplyBroken, ReplyProposal, ReplyText, ReplyTextLast
    <3>4. CASE ReplyCalls(r)
      <4>1. r.calls \in Seq(Calls) /\ r.calls # <<>>
        BY <3>4, ReplyTypes DEF ReplyCalls
      <4>2. 1 \in 1..Len(r.calls)
        BY <4>1
      <4>3. QED
        BY <3>3, <3>4, <4>1, <4>2 DEF ReplyCalls, States
    <3>5. CASE ReplyBroken(r)
      BY <3>3, <3>5 DEF ReplyBroken, Fails, Outcome, Outcomes, Errors
    <3>6. CASE ReplyProposal(r)
      BY <3>3, <3>6, FinishTypes DEF ReplyProposal
    <3>7. CASE ReplyText(r)
      BY <3>3, <3>7, NextRoundTypes DEF ReplyText
    <3>8. CASE ReplyTextLast(r)
      BY <3>3, <3>8 DEF ReplyTextLast, Asks, Outcome, Outcomes, States
    <3>9. QED
      BY <3>1, <3>4, <3>5, <3>6, <3>7, <3>8
  <2>9. CASE \E t \in ToolTokens :
               \/ Dispatch(t) \/ DispatchDone(t) \/ DispatchProposal(t)
               \/ \E s \in SummaryTokens : DispatchLast(t, s)
    <3>1. PICK t \in ToolTokens : \/ Dispatch(t) \/ DispatchDone(t) \/ DispatchProposal(t)
                                  \/ \E s \in SummaryTokens : DispatchLast(t, s)
      BY <2>9
    <3>2. pc = "tools"
      BY <3>1 DEF Dispatch, DispatchDone, DispatchProposal, DispatchLast
    <3>3. ToolResult(calls[next], t) \in Messages /\ <<ToolResult(calls[next], t)>> \in Seq(Messages)
      <4>1. calls[next] \in Calls
        BY <3>2
      <4>2. QED
        BY <4>1, ResultTypes
    <3>4. CASE Dispatch(t)
      <4>1. messages' \in Seq(Messages) /\ manager' \in Seq(Messages)
        BY <3>3, <3>4, ExtendTypes DEF Dispatch
      <4>2. QED
        BY <3>4, <4>1 DEF Dispatch
    <3>5. CASE DispatchDone(t)
      <4>1. messages' \in Seq(Messages) /\ manager' \in Seq(Messages)
        BY <3>3, <3>5, ExtendTypes DEF DispatchDone
      <4>2. QED
        BY <3>5, <4>1 DEF DispatchDone, Asks, Outcome, Outcomes, States
    <3>6. CASE DispatchProposal(t)
      <4>1. messages' \in Seq(Messages) /\ manager' \in Seq(Messages)
        BY <3>3, <3>6, ExtendTypes DEF DispatchProposal
      <4>2. calls[next].reads \in Proposals /\ FinishProposal(calls[next].reads)
        BY <3>6 DEF DispatchProposal, Offered
      <4>3. QED
        BY <3>6, <4>1, <4>2, FinishTypes DEF DispatchProposal
    <3>7. CASE \E s \in SummaryTokens : DispatchLast(t, s)
      <4>1. PICK s \in SummaryTokens : DispatchLast(t, s)
        BY <3>7
      <4>2. <<ToolResult(calls[next], t), EvidenceSummary(s)>> \in Seq(Messages)
        BY <3>3, SummaryTypes
      <4>3. messages' \in Seq(Messages) /\ manager' \in Seq(Messages)
        BY <4>1, <4>2, ExtendTypes DEF DispatchLast
      <4>4. QED
        BY <4>1, <4>3, NextRoundTypes DEF DispatchLast
    <3>8. QED
      BY <3>1, <3>4, <3>5, <3>6, <3>7
  <2>10. CASE Interrupt
    BY <2>10 DEF Interrupt, Outcome, Outcomes
  <2>11. CASE Quit
    BY <2>11 DEF Quit
  <2>12. CASE UNCHANGED vars
    BY <2>12 DEF vars
  <2>13. QED
    BY <2>1, <2>2, <2>3, <2>4, <2>5, <2>6, <2>7, <2>8, <2>9, <2>10, <2>11, <2>12
       DEF Next, Continue
<1>3. QED
  BY <1>1, <1>2, PTL DEF Spec

---------------------------------------------------------------------------
(***************************************************************************)
(* The human is only ever offered a proposal that check_proposal lets      *)
(* pass, by whichever of the two ways it came.                             *)
(***************************************************************************)
THEOREM OffersAreChecked == Spec => []OfferedChecked
PROOF
<1>1. Init => OfferedChecked
  BY DEF Init, OfferedChecked, Outcome
<1>2. OfferedChecked /\ [Next]_vars => OfferedChecked'
  <2> SUFFICES ASSUME OfferedChecked, [Next]_vars PROVE OfferedChecked'
    OBVIOUS
  <2> USE DEF OfferedChecked, Outcome
  <2>1. ASSUME NEW p, FinishProposal(p) PROVE OfferedChecked'
    BY <2>1 DEF FinishProposal, Fails, Asks
  <2>2. ASSUME NextRound PROVE OfferedChecked'
    BY <2>2 DEF NextRound, Fails
  <2>3. ASSUME NEW input, Begin(input) \/ Cancel(input) PROVE OfferedChecked'
    BY <2>3 DEF Begin, Cancel, Asks
  <2>4. ASSUME CompressOldest \/ TruncateOldest \/ SendRequest \/ Retry \/ Quit \/ UNCHANGED vars
        PROVE  OfferedChecked'
    BY <2>4 DEF CompressOldest, TruncateOldest, Rewrite, SendRequest, Retry, Quit, vars
  <2>5. ASSUME BudgetExceeded \/ GiveUp \/ Interrupt PROVE OfferedChecked'
    BY <2>5 DEF BudgetExceeded, GiveUp, Interrupt, Fails
  <2>6. ASSUME NEW r, \/ ReplyCalls(r) \/ ReplyBroken(r) \/ ReplyProposal(r)
                      \/ ReplyText(r) \/ ReplyTextLast(r)
        PROVE  OfferedChecked'
    BY <2>1, <2>2, <2>6
       DEF ReplyCalls, ReplyBroken, ReplyProposal, ReplyText, ReplyTextLast, Fails, Asks
  <2>7. ASSUME NEW t, NEW s, Dispatch(t) \/ DispatchDone(t) \/ DispatchProposal(t) \/ DispatchLast(t, s)
        PROVE  OfferedChecked'
    BY <2>1, <2>2, <2>7 DEF Dispatch, DispatchDone, DispatchProposal, DispatchLast, Asks
  <2>8. QED
    BY <2>3, <2>4, <2>5, <2>6, <2>7 DEF Next, Continue
<1>3. QED
  BY <1>1, <1>2, PTL DEF Spec

---------------------------------------------------------------------------
(* A step of the loop extends both histories by the same new messages, or  *)
(* rewrites one message of the sent one, or leaves both alone.             *)

Fresh == {m \in Messages : Original(m)}

Extends == \E new \in Seq(Fresh) : Extend(new)

Compresses ==
  \E i \in Oldest(CompressibleAt(messages)) :
    messages' = [messages EXCEPT ![i] = Compressed(messages[i])] /\ UNCHANGED manager

Truncates ==
  /\ CompressibleAt(messages) = {}
  /\ \E i \in Oldest(TruncatableAt(messages)) :
       messages' = [messages EXCEPT ![i] = Truncated(messages[i])] /\ UNCHANGED manager

LEMMA HistorySteps ==
  ASSUME TypeOK, [Next]_vars
  PROVE  Extends \/ Compresses \/ Truncates \/ UNCHANGED <<messages, manager>>
PROOF
<1>1. ASSUME NEW new \in Seq(Fresh), Extend(new) PROVE Extends
  BY <1>1 DEF Extends
<1>2. ASSUME NEW input \in Inputs, Begin(input) \/ Cancel(input) PROVE Extends
  <2>1. UserMessage(input.form, input.tokens) \in Fresh
    <3>1. input.form \in {"plain", "evidence"}
      BY AgentAssumption
    <3>2. QED
      BY <3>1, InputTypes DEF Fresh, Original, UserMessage
  <2>2. <<UserMessage(input.form, input.tokens)>> \in Seq(Fresh)
    BY <2>1
  <2>3. QED
    BY <1>1, <1>2, <2>2 DEF Begin, Cancel
<1>3. ASSUME NEW r \in Responses,
             \/ ReplyCalls(r) \/ ReplyBroken(r) \/ ReplyProposal(r)
             \/ ReplyText(r) \/ ReplyTextLast(r)
      PROVE  Extends
  <2>1. Reply(r) \in Fresh
    <3>1. r.form \in {"plain", "evidence"}
      BY AgentAssumption
    <3>2. QED
      BY <3>1, ReplyTypes DEF Fresh, Original, Reply, AssistantMessage
  <2>2. Nudge \in Fresh
    BY NudgeType DEF Fresh, Original, Nudge, UserMessage
  <2>3. <<Reply(r)>> \in Seq(Fresh) /\ <<Reply(r), Nudge>> \in Seq(Fresh)
    BY <2>1, <2>2
  <2>4. QED
    BY <1>1, <1>3, <2>3
       DEF ReplyCalls, ReplyBroken, ReplyProposal, ReplyText, ReplyTextLast
<1>4. ASSUME NEW t \in ToolTokens,
             \/ Dispatch(t) \/ DispatchDone(t) \/ DispatchProposal(t)
             \/ \E s \in SummaryTokens : DispatchLast(t, s)
      PROVE  Extends
  <2>1. pc = "tools"
    BY <1>4 DEF Dispatch, DispatchDone, DispatchProposal, DispatchLast
  <2>2. calls[next] \in Calls
    BY <2>1 DEF TypeOK
  <2>3. ToolResult(calls[next], t) \in Fresh
    BY <2>2, ResultTypes DEF Fresh, Original, ToolResult
  <2>4. ASSUME NEW s \in SummaryTokens PROVE EvidenceSummary(s) \in Fresh
    BY SummaryTypes DEF Fresh, Original, EvidenceSummary, AssistantMessage
  <2>5. <<ToolResult(calls[next], t)>> \in Seq(Fresh)
    BY <2>3
  <2>6. ASSUME NEW s \in SummaryTokens
        PROVE  <<ToolResult(calls[next], t), EvidenceSummary(s)>> \in Seq(Fresh)
    BY <2>3, <2>4
  <2>7. QED
    BY <1>1, <1>4, <2>5, <2>6 DEF Dispatch, DispatchDone, DispatchProposal, DispatchLast
<1>5. CompressOldest => Compresses
  BY DEF CompressOldest, Compresses, Rewrite
<1>6. TruncateOldest => Truncates
  BY DEF TruncateOldest, Truncates, Rewrite
<1>7. BudgetExceeded \/ SendRequest \/ Retry \/ GiveUp \/ Interrupt \/ Quit \/ UNCHANGED vars
        => UNCHANGED <<messages, manager>>
  BY DEF BudgetExceeded, SendRequest, Retry, GiveUp, Interrupt, Quit, vars
<1>8. QED
  BY <1>2, <1>3, <1>4, <1>5, <1>6, <1>7 DEF Next, Continue

---------------------------------------------------------------------------
(* What a rewriting does to one message.                                   *)

LEMMA CompressedIsDone ==
  ASSUME NEW m \in Messages
  PROVE  /\ Compressed(m).form = "compressed"
         /\ Truncated(m).form = "truncated"
         /\ Heading(Compressed(m)) = Heading(m)
         /\ Heading(Truncated(m)) = Heading(m)
         /\ ~Compressible(Compressed(m))
         /\ ~Truncatable(Compressed(m))
         /\ ~Truncatable(Truncated(m))
         /\ (m.role # "tool") => ~Compressible(Truncated(m))
PROOF
<1>1. /\ Compressed(m).form = "compressed"
      /\ Truncated(m).form = "truncated"
      /\ Truncated(m).role = m.role
  BY DEF Compressed, Truncated, Messages
<1>2. Heading(Compressed(m)) = Heading(m) /\ Heading(Truncated(m)) = Heading(m)
  BY DEF Compressed, Truncated, Messages, Heading
<1>3. QED
  BY <1>1, <1>2 DEF Compressible, Truncatable, IsEvidence, Layer

\* A message that can be cut is still the original one, and never both kinds.
LEMMA CutOnce ==
  ASSUME NEW m, NEW o \in Messages, Original(o), Shortened(m, o)
  PROVE  /\ Compressible(m) => m = o /\ o.role = "tool"
         /\ Truncatable(m) => m = o /\ IsEvidence(o) /\ o.role # "tool"
PROOF
<1>1. CASE m = o
  BY <1>1 DEF Compressible, Truncatable, Original, IsEvidence, Layer
<1>2. CASE o.role = "tool" /\ m = Compressed(o)
  BY <1>2, CompressedIsDone
<1>3. CASE IsEvidence(o) /\ m = Truncated(o)
  BY <1>3, CompressedIsDone DEF IsEvidence, Original
<1>4. QED
  BY <1>1, <1>2, <1>3 DEF Shortened

\* A longer sequence, by index.
LEMMA ConcatSplit ==
  ASSUME NEW S, NEW s \in Seq(S), NEW t \in Seq(S)
  PROVE  /\ Len(s \o t) = Len(s) + Len(t)
         /\ DOMAIN (s \o t) = 1..Len(s \o t)
         /\ \A i \in DOMAIN (s \o t) : i \in DOMAIN s \/ i - Len(s) \in DOMAIN t
         /\ \A i \in DOMAIN s : (s \o t)[i] = s[i]
         /\ \A i \in DOMAIN t : (s \o t)[Len(s) + i] = t[i]
PROOF
<1>1. /\ s \o t \in Seq(S)
      /\ Len(s \o t) = Len(s) + Len(t)
      /\ \A i \in 1..(Len(s) + Len(t)) :
            (s \o t)[i] = IF i <= Len(s) THEN s[i] ELSE t[i - Len(s)]
  BY ConcatProperties
<1>2. /\ Len(s) \in Nat /\ DOMAIN s = 1..Len(s)
      /\ Len(t) \in Nat /\ DOMAIN t = 1..Len(t)
      /\ DOMAIN (s \o t) = 1..Len(s \o t)
  BY <1>1
<1>3. \A i \in DOMAIN t : (s \o t)[Len(s) + i] = t[i]
  BY <1>1, <1>2
<1>4. QED
  BY <1>1, <1>2, <1>3

LEMMA HistoryKept ==
  ASSUME TypeOK, HistoryInv, [Next]_vars
  PROVE  HistoryInv'
PROOF
<1> USE DEF HistoryInv
<1>0. /\ messages \in Seq(Messages) /\ manager \in Seq(Messages)
      /\ DOMAIN messages = DOMAIN manager /\ DOMAIN messages = 1..Len(messages)
  BY DEF TypeOK, HistoriesAgree
<1>1. CASE Extends
  <2>1. PICK new \in Seq(Fresh) : Extend(new)
    BY <1>1 DEF Extends
  <2>2. new \in Seq(Messages)
    BY DEF Fresh
  <2>3. /\ Len(messages') = Len(messages) + Len(new) /\ Len(manager') = Len(messages')
        /\ DOMAIN messages' = 1..Len(messages') /\ DOMAIN manager' = 1..Len(messages')
        /\ \A i \in DOMAIN messages' : i \in DOMAIN messages \/ i - Len(messages) \in DOMAIN new
        /\ \A i \in DOMAIN messages : messages'[i] = messages[i] /\ manager'[i] = manager[i]
        /\ \A i \in DOMAIN new : /\ messages'[Len(messages) + i] = new[i]
                                 /\ manager'[Len(messages) + i] = new[i]
    <3>1. /\ messages' = messages \o new /\ manager' = manager \o new
          /\ Len(messages) = Len(manager)
      BY <2>1 DEF Extend, HistoriesAgree
    <3>2. Len(messages \o new) = Len(messages) + Len(new)
      BY <1>0, <2>2, ConcatSplit
    <3>3. /\ DOMAIN (messages \o new) = 1..Len(messages \o new)
          /\ \A i \in DOMAIN (messages \o new) :
                i \in DOMAIN messages \/ i - Len(messages) \in DOMAIN new
          /\ \A i \in DOMAIN messages : (messages \o new)[i] = messages[i]
          /\ \A i \in DOMAIN new : (messages \o new)[Len(messages) + i] = new[i]
      BY <1>0, <2>2, ConcatSplit
    <3>4. ASSUME NEW s \in Seq(Messages)
          PROVE  /\ Len(s \o new) = Len(s) + Len(new)
                 /\ DOMAIN (s \o new) = 1..Len(s \o new)
                 /\ \A i \in DOMAIN s : (s \o new)[i] = s[i]
                 /\ \A i \in DOMAIN new : (s \o new)[Len(s) + i] = new[i]
      BY <2>2, ConcatSplit
    <3>5. /\ Len(manager \o new) = Len(manager) + Len(new)
          /\ DOMAIN (manager \o new) = 1..Len(manager \o new)
          /\ \A i \in DOMAIN manager : (manager \o new)[i] = manager[i]
          /\ \A i \in DOMAIN new : (manager \o new)[Len(manager) + i] = new[i]
      BY <1>0, <3>4, Zenon
    <3>6. QED
      BY <1>0, <3>1, <3>2, <3>3, <3>4, <3>5
  <2>4. \A i \in DOMAIN messages' \ DOMAIN messages :
           messages'[i] = manager'[i] /\ Original(messages'[i])
    <3>1. \A k \in DOMAIN new : Original(new[k])
      BY DEF Fresh
    <3>2. TAKE i \in DOMAIN messages' \ DOMAIN messages
    <3>3. i - Len(messages) \in DOMAIN new /\ Len(messages) + (i - Len(messages)) = i
      BY <1>0, <2>3
    <3>4. messages'[i] = new[i - Len(messages)] /\ manager'[i] = new[i - Len(messages)]
      BY <2>3, <3>3
    <3>5. QED
      BY <3>1, <3>3, <3>4
  <2>5. HistoriesAgree'
    BY <1>0, <2>3, <2>4 DEF HistoriesAgree, Shortened
  <2>6. ManagerKeepsOriginals'
    BY <1>0, <2>3, <2>4 DEF ManagerKeepsOriginals
  <2>7. OldestFirst'
    <3>1. SUFFICES ASSUME NEW j \in DOMAIN messages', NEW i \in 1..(j - 1),
                          messages'[j].form \in {"compressed", "truncated"}
                   PROVE  /\ ~Compressible(messages'[i])
                          /\ messages'[j].form = "truncated" => ~Truncatable(messages'[i])
      BY DEF OldestFirst
    <3>2. j \in DOMAIN messages
      BY <2>4, <3>1 DEF Original
    <3>3. i \in DOMAIN messages
      BY <1>0, <3>2
    <3>4. QED
      BY <2>3, <3>1, <3>2, <3>3 DEF OldestFirst
  <2>8. QED
    BY <2>5, <2>6, <2>7
<1>2. CASE Compresses
  <2>1. PICK i \in Oldest(CompressibleAt(messages)) :
           messages' = [messages EXCEPT ![i] = Compressed(messages[i])] /\ UNCHANGED manager
    BY <1>2 DEF Compresses
  <2>2. /\ i \in DOMAIN messages /\ Compressible(messages[i])
        /\ \A k \in DOMAIN messages : Compressible(messages[k]) => i <= k
    BY DEF Oldest, CompressibleAt
  <2>3. /\ DOMAIN messages' = DOMAIN messages /\ Len(messages') = Len(messages)
        /\ messages'[i] = Compressed(messages[i])
        /\ \A k \in DOMAIN messages \ {i} : messages'[k] = messages[k]
    BY <1>0, <2>1, <2>2
  <2>4. messages[i] = manager[i] /\ manager[i].role = "tool" /\ messages[i] \in Messages
    BY <1>0, <2>2, CutOnce DEF HistoriesAgree, ManagerKeepsOriginals
  <2>5. HistoriesAgree'
    BY <1>0, <2>1, <2>3, <2>4 DEF HistoriesAgree, Shortened
  <2>6. ManagerKeepsOriginals'
    BY <2>1 DEF ManagerKeepsOriginals
  <2>7. OldestFirst'
    <3>1. SUFFICES ASSUME NEW j \in DOMAIN messages', NEW k \in 1..(j - 1),
                          messages'[j].form \in {"compressed", "truncated"}
                   PROVE  /\ ~Compressible(messages'[k])
                          /\ messages'[j].form = "truncated" => ~Truncatable(messages'[k])
      BY DEF OldestFirst
    <3>2. k \in DOMAIN messages /\ k < j
      BY <1>0, <2>3
    <3>3. CASE k = i
      BY <2>3, <2>4, <3>3, CompressedIsDone
    <3>4. CASE k # i /\ j = i
      <4>1. ~(i <= k)
        BY <1>0, <2>3, <3>2, <3>4
      <4>2. ~Compressible(messages'[k])
        BY <2>2, <2>3, <3>2, <3>4, <4>1
      <4>3. messages'[j].form = "compressed"
        BY <2>3, <2>4, <3>4, CompressedIsDone
      <4>4. QED
        BY <4>2, <4>3
    <3>5. CASE k # i /\ j # i
      BY <2>3, <3>1, <3>2, <3>5 DEF OldestFirst
    <3>6. QED
      BY <3>3, <3>4, <3>5
  <2>8. QED
    BY <2>5, <2>6, <2>7
<1>3. CASE Truncates
  <2>1. PICK i \in Oldest(TruncatableAt(messages)) :
           messages' = [messages EXCEPT ![i] = Truncated(messages[i])] /\ UNCHANGED manager
    BY <1>3 DEF Truncates
  <2>2. /\ i \in DOMAIN messages /\ Truncatable(messages[i])
        /\ \A k \in DOMAIN messages : Truncatable(messages[k]) => i <= k
        /\ \A k \in DOMAIN messages : ~Compressible(messages[k])
    BY <1>3 DEF Oldest, TruncatableAt, Truncates, CompressibleAt
  <2>3. /\ DOMAIN messages' = DOMAIN messages /\ Len(messages') = Len(messages)
        /\ messages'[i] = Truncated(messages[i])
        /\ \A k \in DOMAIN messages \ {i} : messages'[k] = messages[k]
    BY <1>0, <2>1, <2>2
  <2>4. /\ messages[i] = manager[i] /\ IsEvidence(manager[i]) /\ manager[i].role # "tool"
        /\ messages[i] \in Messages
    BY <1>0, <2>2, CutOnce DEF HistoriesAgree, ManagerKeepsOriginals
  <2>5. HistoriesAgree'
    BY <1>0, <2>1, <2>3, <2>4 DEF HistoriesAgree, Shortened
  <2>6. ManagerKeepsOriginals'
    BY <2>1 DEF ManagerKeepsOriginals
  <2>7. OldestFirst'
    <3>1. SUFFICES ASSUME NEW j \in DOMAIN messages', NEW k \in 1..(j - 1),
                          messages'[j].form \in {"compressed", "truncated"}
                   PROVE  /\ ~Compressible(messages'[k])
                          /\ messages'[j].form = "truncated" => ~Truncatable(messages'[k])
      BY DEF OldestFirst
    <3>2. k \in DOMAIN messages /\ k < j
      BY <1>0, <2>3
    <3>3. CASE k = i
      BY <2>3, <2>4, <3>3, CompressedIsDone
    <3>4. CASE k # i /\ j = i
      <4>1. ~(i <= k)
        BY <1>0, <2>3, <3>2, <3>4
      <4>2. QED
        BY <2>2, <2>3, <3>2, <3>4, <4>1
    <3>5. CASE k # i /\ j # i
      BY <2>3, <3>1, <3>2, <3>5 DEF OldestFirst
    <3>6. QED
      BY <3>3, <3>4, <3>5
  <2>8. QED
    BY <2>5, <2>6, <2>7
<1>4. CASE UNCHANGED <<messages, manager>>
  BY <1>4 DEF HistoriesAgree, ManagerKeepsOriginals, OldestFirst
<1>5. QED
  BY <1>1, <1>2, <1>3, <1>4, HistorySteps

(***************************************************************************)
(* The history that is sent is the history that was said, shortened: each  *)
(* message at most once, tool output to a preview, evidence to its         *)
(* placeholder, and what is older before what is newer.                    *)
(***************************************************************************)
THEOREM HistoryInvariant == Spec => []HistoryInv
PROOF
<1>1. Init => HistoryInv
  BY DEF Init, HistoryInv, HistoriesAgree, ManagerKeepsOriginals, OldestFirst
<1>2. TypeOK /\ HistoryInv /\ [Next]_vars => HistoryInv'
  BY HistoryKept
<1>3. QED
  BY <1>1, <1>2, TypeCorrect, PTL DEF Spec

THEOREM HistoriesStayInStep == Spec => []HistoriesAgree
PROOF
<1>1. HistoryInv => HistoriesAgree
  BY DEF HistoryInv
<1>2. QED
  BY <1>1, HistoryInvariant, PTL

THEOREM NewestKeptLongest == Spec => []OldestFirst
PROOF
<1>1. HistoryInv => OldestFirst
  BY DEF HistoryInv
<1>2. QED
  BY <1>1, HistoryInvariant, PTL

---------------------------------------------------------------------------
LEMMA Rounds ==
  \A a, b, m \in Nat : a < b => a * m + m <= b * m
PROOF
<1>1. ASSUME NEW a \in Nat, NEW b \in Nat, NEW m \in Nat, a < b PROVE a * m + m <= b * m
  <2>1. PICK c \in Nat : b = a + 1 + c
    <3>1. b - a - 1 \in Nat /\ b = a + 1 + (b - a - 1)
      BY <1>1
    <3>2. QED
      BY <3>1
  <2>2. b * m = a * m + m + c * m
    BY <2>1
  <2>3. a * m \in Nat /\ c * m \in Nat
    BY SMT
  <2>4. QED
    BY <2>2, <2>3
<1>2. QED
  BY <1>1

(***************************************************************************)
(* A turn makes at most max_tool_rounds * (transient_retries + 1)          *)
(* completion attempts.                                                    *)
(***************************************************************************)
THEOREM AttemptsStayBounded == Spec => []AttemptsBounded
PROOF
<1> DEFINE R == Retries + 1
<1>0. R \in Nat /\ MaxRounds \in Nat /\ Retries \in Nat
  BY AgentAssumption
<1>1. Init => AttemptsCounted
  <2>1. 0 * R = 0 /\ MaxRounds * R \in Nat
    BY <1>0
  <2>2. QED
    BY <2>1 DEF Init, AttemptsCounted, AttemptsBounded
<1>2. TypeOK /\ AttemptsCounted /\ [Next]_vars => AttemptsCounted'
  <2> SUFFICES ASSUME TypeOK, AttemptsCounted, [Next]_vars PROVE AttemptsCounted'
    OBVIOUS
  <2> DEFINE before == round * R
             after  == round' * R
             all    == MaxRounds * R
             C(b) == /\ pc = "budget" => sent <= b
                     /\ pc = "calling" => sent <= b + attempt + 1
                     /\ pc = "tools" => sent <= b + R
                     /\ sent <= all
             D(b) == /\ pc' = "budget" => sent' <= b
                     /\ pc' = "calling" => sent' <= b + attempt' + 1
                     /\ pc' = "tools" => sent' <= b + R
                     /\ sent' <= all
  <2>1. C(before)
    BY DEF AttemptsCounted, AttemptsBounded
  <2>2. /\ round \in Nat /\ round < MaxRounds /\ attempt \in Nat /\ attempt <= Retries
        /\ sent \in Nat
    BY <1>0 DEF TypeOK
  <2>3. /\ before \in Nat /\ all \in Nat /\ before + R <= all
    BY <1>0, <2>2, Rounds
  <2>4. SUFFICES D(after)
    BY DEF AttemptsCounted, AttemptsBounded
  <2>5. round' = round => after = before
    OBVIOUS
  <2>6. round' = round + 1 => after = before + R
    BY <1>0, <2>2
  <2>7. round' = 0 => after = 0
    BY <1>0
  <2> HIDE DEF before, after, all, R
  <2>8. ASSUME NEW input, Begin(input) \/ Cancel(input) PROVE D(after)
    BY <2>1, <2>3, <2>5, <2>7, <2>8 DEF Begin, Cancel, Asks
  <2>9. ASSUME CompressOldest \/ TruncateOldest \/ UNCHANGED vars PROVE D(after)
    BY <2>1, <2>5, <2>9 DEF CompressOldest, TruncateOldest, Rewrite, vars
  <2>10. ASSUME BudgetExceeded \/ GiveUp \/ Interrupt \/ Quit PROVE D(after)
    BY <2>1, <2>5, <2>10 DEF BudgetExceeded, GiveUp, Interrupt, Quit, Fails
  <2>11. R = Retries + 1
    BY DEF R
  <2>12. CASE SendRequest
    BY <1>0, <2>1, <2>2, <2>3, <2>5, <2>11, <2>12 DEF SendRequest
  <2>13. CASE Retry
    BY <1>0, <2>1, <2>2, <2>3, <2>5, <2>11, <2>13 DEF Retry
  <2>14. ASSUME NEW p, FinishProposal(p), UNCHANGED sent PROVE D(after)
    BY <2>1, <2>14 DEF FinishProposal, Asks, Fails
  <2>15. ASSUME pc \in {"calling", "tools"}, NextRound, UNCHANGED sent PROVE D(after)
    <3>1. sent <= before + R
      BY <1>0, <2>1, <2>2, <2>3, <2>11, <2>15
    <3>2. CASE round + 1 < MaxRounds
      BY <2>1, <2>6, <2>15, <3>1, <3>2 DEF NextRound
    <3>3. CASE ~(round + 1 < MaxRounds)
      BY <2>1, <2>15, <3>3 DEF NextRound, Fails
    <3>4. QED
      BY <3>2, <3>3
  <2>16. ASSUME NEW r, ReplyCalls(r) PROVE D(after)
    BY <1>0, <2>1, <2>2, <2>3, <2>5, <2>11, <2>16 DEF ReplyCalls
  <2>17. ASSUME NEW r, ReplyBroken(r) \/ ReplyTextLast(r) PROVE D(after)
    BY <2>1, <2>5, <2>17 DEF ReplyBroken, ReplyTextLast, Asks, Fails
  <2>18. ASSUME NEW r, ReplyProposal(r) \/ ReplyText(r) PROVE D(after)
    BY <2>14, <2>15, <2>18 DEF ReplyProposal, ReplyText
  <2>19. ASSUME NEW t, NEW s, DispatchProposal(t) \/ DispatchLast(t, s) PROVE D(after)
    BY <2>14, <2>15, <2>19 DEF DispatchProposal, DispatchLast
  <2>20. ASSUME NEW t, Dispatch(t) \/ DispatchDone(t) PROVE D(after)
    BY <2>1, <2>5, <2>20 DEF Dispatch, DispatchDone, Asks
  <2>21. QED
    BY <2>8, <2>9, <2>10, <2>12, <2>13, <2>16, <2>17, <2>18, <2>19, <2>20 DEF Next, Continue
<1>3. AttemptsCounted => AttemptsBounded
  BY DEF AttemptsCounted
<1>4. QED
  BY <1>1, <1>2, <1>3, TypeCorrect, PTL DEF Spec

---------------------------------------------------------------------------
(* The conversation: what a step of the loop does to the talk.             *)

\* A talk is as long as its history and has the heading of each message.
LEMMA TalkOf ==
  ASSUME NEW msgs \in Seq(Messages)
  PROVE  /\ Len(Talk(msgs)) = Len(msgs)
         /\ \A i \in 1..Len(msgs) : Talk(msgs)[i] = Heading(msgs[i])
PROOF
<1>1. DOMAIN msgs = 1..Len(msgs) /\ Len(msgs) \in Nat
  OBVIOUS
<1>2. QED
  BY <1>1 DEF Talk

LEMMA TalkGrows ==
  ASSUME messages \in Seq(Messages), NEW new \in Seq(Messages), new # <<>>, Extend(new)
  PROVE  /\ Conversation!Grows
         /\ Len(Talk(messages)') = Len(Talk(messages)) + Len(new)
         /\ Talk(messages)'[Len(Talk(messages)) + 1] = Heading(new[1])
PROOF
<1>1. /\ messages' = messages \o new /\ messages' \in Seq(Messages)
      /\ Len(messages) \in Nat /\ Len(new) \in Nat /\ Len(new) > 0
  BY DEF Extend
<1>2. /\ Len(messages') = Len(messages) + Len(new)
      /\ \A i \in 1..Len(messages) : messages'[i] = messages[i]
      /\ messages'[Len(messages) + 1] = new[1]
  BY <1>1
<1>3. /\ Len(Talk(messages)) = Len(messages)
      /\ \A i \in 1..Len(messages) : Talk(messages)[i] = Heading(messages[i])
  BY TalkOf
<1>4. /\ Len(Talk(messages')) = Len(messages')
      /\ \A i \in 1..Len(messages') : Talk(messages')[i] = Heading(messages'[i])
  BY <1>1, TalkOf
<1>5. Talk(messages)' = Talk(messages')
  BY DEF Talk, Heading
<1>6. \A i \in 1..Len(messages) : Talk(messages')[i] = Talk(messages)[i]
  BY <1>1, <1>2, <1>3, <1>4
<1>7. QED
  BY <1>1, <1>2, <1>3, <1>4, <1>5, <1>6 DEF Conversation!Grows

\* A rewriting leaves the talk as it is.
LEMMA TalkKept ==
  ASSUME TypeOK, CompressOldest \/ TruncateOldest
  PROVE  Talk(messages)' = Talk(messages)
PROOF
<1>1. /\ messages \in Seq(Messages)
      /\ \A m \in Messages : Heading(Compressed(m)) = Heading(m)
      /\ \A m \in Messages : Heading(Truncated(m)) = Heading(m)
  BY CompressedIsDone DEF TypeOK
<1>2. PICK i, m :
        /\ i \in DOMAIN messages
        /\ messages' = [messages EXCEPT ![i] = m]
        /\ Heading(m) = Heading(messages[i])
  <2>1. CASE CompressOldest
    <3>1. PICK i \in DOMAIN messages :
            messages' = [messages EXCEPT ![i] = Compressed(messages[i])]
      BY <2>1 DEF CompressOldest, Oldest, CompressibleAt, Rewrite
    <3>2. messages[i] \in Messages
      BY <1>1
    <3>3. Heading(Compressed(messages[i])) = Heading(messages[i])
      BY <1>1, <3>2
    <3>4. QED
      BY <3>1, <3>3
  <2>2. CASE TruncateOldest
    <3>1. PICK i \in DOMAIN messages :
            messages' = [messages EXCEPT ![i] = Truncated(messages[i])]
      BY <2>2 DEF TruncateOldest, Oldest, TruncatableAt, Rewrite
    <3>2. messages[i] \in Messages
      BY <1>1
    <3>3. Heading(Truncated(messages[i])) = Heading(messages[i])
      BY <1>1, <3>2
    <3>4. QED
      BY <3>1, <3>3
  <2>3. QED
    BY <2>1, <2>2
<1>3. /\ DOMAIN messages' = DOMAIN messages
      /\ \A k \in DOMAIN messages : Heading(messages'[k]) = Heading(messages[k])
  BY <1>1, <1>2
<1>4. Talk(messages)' = [k \in DOMAIN messages' |-> Heading(messages'[k])]
  BY DEF Talk, Heading
<1>5. QED
  BY <1>3, <1>4 DEF Talk

(***************************************************************************)
(* The loop implements the conversation: nothing that was said is unsaid   *)
(* or said again, the agent speaks while it works on an input, and only    *)
(* accepted proposals are handed over.                                     *)
(***************************************************************************)
LEMMA ConversationStep ==
  ASSUME TypeOK, [Next]_vars
  PROVE  [Conversation!Next]_(Conversation!vars)
PROOF
<1>0. messages \in Seq(Messages)
  BY DEF TypeOK
<1>1. ASSUME UNCHANGED <<pc, outcome>>, Talk(messages)' = Talk(messages)
      PROVE  UNCHANGED Conversation!vars
  BY <1>1 DEF Conversation!vars, Phase, Working
<1>2. ASSUME NEW input \in Inputs, Begin(input) PROVE Conversation!Hear
  <2>1. <<UserMessage(input.form, input.tokens)>> \in Seq(Messages)
    BY InputTypes
  <2>2. /\ Conversation!Grows
        /\ Len(Talk(messages)') = Len(Talk(messages)) + 1
        /\ Talk(messages)'[Len(Talk(messages)) + 1] = Heading(UserMessage(input.form, input.tokens))
    BY <1>0, <1>2, <2>1, TalkGrows DEF Begin
  <2>3. QED
    BY <1>2, <2>2 DEF Begin, Conversation!Hear, Phase, Working, Heading, UserMessage
<1>3. ASSUME NEW input \in Inputs, Cancel(input) PROVE Conversation!Hear
  <2>1. <<UserMessage(input.form, input.tokens)>> \in Seq(Messages)
    BY InputTypes
  <2>2. /\ Conversation!Grows
        /\ Len(Talk(messages)') = Len(Talk(messages)) + 1
        /\ Talk(messages)'[Len(Talk(messages)) + 1] = Heading(UserMessage(input.form, input.tokens))
    BY <1>0, <1>3, <2>1, TalkGrows DEF Cancel
  <2>3. QED
    BY <1>3, <2>2
       DEF Cancel, Asks, Outcome, Conversation!Hear, Phase, Working, Heading, UserMessage
<1>4. ASSUME CompressOldest \/ TruncateOldest PROVE UNCHANGED Conversation!vars
  <2>1. Talk(messages)' = Talk(messages)
    BY <1>4, TalkKept
  <2>2. QED
    BY <1>1, <1>4, <2>1 DEF CompressOldest, TruncateOldest, Rewrite
<1>5. UNCHANGED messages => Talk(messages)' = Talk(messages)
  BY DEF Talk, Heading
<1>6. ASSUME SendRequest \/ Retry PROVE UNCHANGED Conversation!vars
  BY <1>5, <1>6 DEF SendRequest, Retry, Conversation!vars, Phase, Working
<1>7. ASSUME BudgetExceeded \/ GiveUp \/ Interrupt \/ Quit PROVE Conversation!End
  BY <1>5, <1>7
     DEF BudgetExceeded, GiveUp, Interrupt, Quit, Fails, Conversation!End, Phase, Working
<1>8. ASSUME NEW new \in Seq(Messages), new # <<>>, Extend(new), pc \in {"calling", "tools"}
      PROVE  /\ pc' \in {"budget", "calling", "tools"} => Conversation!Work
             /\ pc' = "prompt" /\ outcome'.proposal \in (Proposals \ Rejected) \cup {None}
                  => Conversation!Return
             /\ pc' = "ended" => Conversation!End
  <2>1. Conversation!Grows
    BY <1>0, <1>8, TalkGrows
  <2>2. QED
    BY <1>8, <2>1
       DEF Conversation!Work, Conversation!Return, Conversation!End, Phase, Working
<1>9. ASSUME NEW p \in Proposals, FinishProposal(p)
      PROVE  \/ pc' = "prompt" /\ outcome'.proposal \in (Proposals \ Rejected) \cup {None}
             \/ pc' = "ended"
  BY <1>9 DEF FinishProposal, Asks, Fails, Outcome
<1>10. NextRound => pc' \in {"budget", "ended"}
  BY DEF NextRound, Fails
<1>11. ASSUME NEW r \in Responses,
              \/ ReplyCalls(r) \/ ReplyBroken(r) \/ ReplyProposal(r)
              \/ ReplyText(r) \/ ReplyTextLast(r)
       PROVE  Conversation!Next
  <2>1. PICK new \in {<<Reply(r)>>, <<Reply(r), Nudge>>} : Extend(new)
    BY <1>11 DEF ReplyCalls, ReplyBroken, ReplyProposal, ReplyText, ReplyTextLast
  <2>2. new \in Seq(Messages) /\ new # <<>>
    <3>1. Reply(r) \in Messages /\ Nudge \in Messages
      BY ReplyTypes, NudgeType
    <3>2. CASE new = <<Reply(r)>>
      BY <3>1, <3>2
    <3>3. CASE new = <<Reply(r), Nudge>>
      BY <3>1, <3>3
    <3>4. QED
      BY <2>1, <3>2, <3>3
  <2>3. pc = "calling"
    BY <1>11 DEF ReplyCalls, ReplyBroken, ReplyProposal, ReplyText, ReplyTextLast
  <2>4. \/ pc' \in {"budget", "calling", "tools"}
        \/ pc' = "prompt" /\ outcome'.proposal \in (Proposals \ Rejected) \cup {None}
        \/ pc' = "ended"
    BY <1>9, <1>10, <1>11
       DEF ReplyCalls, ReplyBroken, ReplyProposal, ReplyText, ReplyTextLast,
           Asks, Fails, Outcome
  <2>5. QED
    BY <1>8, <2>1, <2>2, <2>3, <2>4 DEF Conversation!Next
<1>12. ASSUME NEW t \in ToolTokens,
              \/ Dispatch(t) \/ DispatchDone(t) \/ DispatchProposal(t)
              \/ \E s \in SummaryTokens : DispatchLast(t, s)
       PROVE  Conversation!Next
  <2>1. pc = "tools"
    BY <1>12 DEF Dispatch, DispatchDone, DispatchProposal, DispatchLast
  <2>2. calls[next] \in Calls
    BY <2>1 DEF TypeOK
  <2>3. \E new \in Seq(Messages) : new # <<>> /\ Extend(new)
    <3>1. ToolResult(calls[next], t) \in Messages
      BY <2>2, ResultTypes
    <3>2. CASE Dispatch(t) \/ DispatchDone(t) \/ DispatchProposal(t)
      <4>1. <<ToolResult(calls[next], t)>> \in Seq(Messages)
        BY <3>1
      <4>2. QED
        BY <3>2, <4>1 DEF Dispatch, DispatchDone, DispatchProposal
    <3>3. CASE \E s \in SummaryTokens : DispatchLast(t, s)
      <4>1. PICK s \in SummaryTokens : DispatchLast(t, s)
        BY <3>3
      <4>2. <<ToolResult(calls[next], t), EvidenceSummary(s)>> \in Seq(Messages)
        BY <3>1, SummaryTypes
      <4>3. QED
        BY <4>1, <4>2 DEF DispatchLast
    <3>4. QED
      BY <1>12, <3>2, <3>3
  <2>4. \/ pc' \in {"budget", "calling", "tools"}
        \/ pc' = "prompt" /\ outcome'.proposal \in (Proposals \ Rejected) \cup {None}
        \/ pc' = "ended"
    <3>1. CASE Dispatch(t)
      BY <2>1, <3>1 DEF Dispatch
    <3>2. CASE DispatchDone(t)
      BY <3>2 DEF DispatchDone, Asks, Outcome
    <3>3. CASE DispatchProposal(t)
      BY <1>9, <3>3 DEF DispatchProposal, Offered
    <3>4. CASE \E s \in SummaryTokens : DispatchLast(t, s)
      BY <1>10, <3>4 DEF DispatchLast
    <3>5. QED
      BY <1>12, <3>1, <3>2, <3>3, <3>4
  <2>5. QED
    BY <1>8, <2>1, <2>3, <2>4 DEF Conversation!Next
<1>13. ASSUME UNCHANGED vars PROVE UNCHANGED Conversation!vars
  BY <1>1, <1>5, <1>13 DEF vars
<1>14. QED
  BY <1>2, <1>3, <1>4, <1>6, <1>7, <1>11, <1>12, <1>13
     DEF Next, Continue, Conversation!Next

THEOREM LoopRefinesConversation == Spec => RefinesConversation
PROOF
<1>1. Init => Conversation!Init
  BY DEF Init, Conversation!Init, Talk, Phase, Working, Outcome
<1>2. TypeOK /\ [Next]_vars => [Conversation!Next]_(Conversation!vars)
  BY ConversationStep
<1>3. QED
  BY <1>1, <1>2, TypeCorrect, PTL DEF Spec, RefinesConversation, Conversation!Spec

---------------------------------------------------------------------------
(* The history as a chat: calls and results, in every state.               *)

AllSettled ==
  \A a \in DOMAIN messages : \A k \in DOMAIN messages[a].calls : Settled(a, k)

\* Says something and neither asks for calls nor answers one.
Plain(m) == m.calls = <<>> /\ m.role # "tool"

\* A history that grows, by index.
LEMMA MessagesGrow ==
  ASSUME TypeOK, NEW new \in Seq(Messages), messages' = messages \o new
  PROVE  /\ Len(messages) \in Nat /\ Len(new) \in Nat
         /\ DOMAIN messages = 1..Len(messages) /\ DOMAIN new = 1..Len(new)
         /\ Len(messages') = Len(messages) + Len(new)
         /\ DOMAIN messages' = 1..(Len(messages) + Len(new))
         /\ \A i \in 1..Len(messages) : messages'[i] = messages[i]
         /\ \A i \in 1..Len(new) : messages'[Len(messages) + i] = new[i]
PROOF
<1>1. messages \in Seq(Messages)
  BY DEF TypeOK
<1>2. /\ Len(messages) \in Nat /\ DOMAIN messages = 1..Len(messages)
      /\ Len(new) \in Nat /\ DOMAIN new = 1..Len(new)
  BY <1>1
<1>3. /\ Len(messages') = Len(messages) + Len(new)
      /\ DOMAIN messages' = 1..Len(messages')
      /\ \A i \in DOMAIN messages : messages'[i] = messages[i]
      /\ \A i \in DOMAIN new : messages'[Len(messages) + i] = new[i]
  BY <1>1, ConcatSplit
<1>4. QED
  BY <1>2, <1>3

\* The calls of a message are numbered from 1.
LEMMA CallNumbers ==
  ASSUME NEW m \in Messages
  PROVE  /\ DOMAIN m.calls = 1..Len(m.calls) /\ Len(m.calls) \in Nat
         /\ \A k \in DOMAIN m.calls : k \in Nat /\ k >= 1
PROOF
<1>1. m.calls \in Seq(Calls)
  BY DEF Messages
<1>2. QED
  BY <1>1

\* What is settled stays so, however the history grows.
LEMMA SettledGrows ==
  ASSUME TypeOK, NEW new \in Seq(Messages), messages' = messages \o new,
         NEW a \in DOMAIN messages, NEW k \in Nat, k >= 1, Settled(a, k)
  PROVE  Settled(a, k)'
PROOF
<1>1. /\ Len(messages) \in Nat /\ Len(new) \in Nat /\ DOMAIN messages = 1..Len(messages)
      /\ DOMAIN messages' = 1..(Len(messages) + Len(new))
      /\ \A i \in 1..Len(messages) : messages'[i] = messages[i]
  BY MessagesGrow
<1>2. messages'[a] = messages[a]
  BY <1>1
<1>3. Reached(a, k)' => Reached(a, k)
  BY <1>2 DEF Reached, Continues, Offered
<1>4. Answered(a, k) => Answered(a, k)'
  BY <1>1, <1>2 DEF Answered
<1>5. QED
  BY <1>3, <1>4 DEF Settled

\* A result was asked for if what it follows asked for it.
LEMMA ResultsGrow ==
  ASSUME TypeOK, ResultsWereAsked, NEW new \in Seq(Messages), messages' = messages \o new,
         \A j \in 1..Len(new) : new[j].role = "tool" =>
            /\ j = 1
            /\ \E k \in 1..Len(messages) :
                 LET a == Len(messages) + 1 - k
                 IN  /\ k \in DOMAIN messages[a].calls
                     /\ new[1].answers = messages[a].calls[k].id
                     /\ Reached(a, k)
                     /\ \A i \in (a + 1)..Len(messages) : messages[i].role = "tool"
  PROVE  ResultsWereAsked'
PROOF
<1> DEFINE n == Len(messages)
<1>1. /\ n \in Nat /\ Len(new) \in Nat /\ DOMAIN messages = 1..n
      /\ DOMAIN messages' = 1..(n + Len(new))
      /\ \A i \in 1..n : messages'[i] = messages[i]
      /\ \A i \in 1..Len(new) : messages'[n + i] = new[i]
  BY MessagesGrow
<1>2. SUFFICES ASSUME NEW i \in DOMAIN messages', messages'[i].role = "tool"
               PROVE  \E k \in 1..(i - 1) :
                        /\ k \in DOMAIN messages'[i - k].calls
                        /\ messages'[i].answers = messages'[i - k].calls[k].id
                        /\ Reached(i - k, k)'
                        /\ \A j \in (i - k + 1)..i : messages'[j].role = "tool"
  BY DEF ResultsWereAsked
<1>r. ASSUME NEW a \in 1..n, NEW k, Reached(a, k) PROVE Reached(a, k)'
  <2>1. messages'[a] = messages[a]
    BY <1>1
  <2> QED BY <1>r, <2>1 DEF Reached, Continues, Offered
<1>3. CASE i \in 1..n
  <2>1. PICK k \in 1..(i - 1) :
          /\ k \in DOMAIN messages[i - k].calls
          /\ messages[i].answers = messages[i - k].calls[k].id
          /\ Reached(i - k, k)
          /\ \A j \in (i - k + 1)..i : messages[j].role = "tool"
    BY <1>1, <1>2, <1>3 DEF ResultsWereAsked
  <2>2. /\ i - k \in 1..n /\ \A j \in (i - k + 1)..i : j \in 1..n
    BY <1>1, <1>3
  <2>3. Reached(i - k, k)'
    BY <1>r, <2>1, <2>2
  <2>4. QED
    BY <1>1, <1>3, <2>1, <2>2, <2>3
<1>4. CASE i \notin 1..n
  <2>1. PICK j \in 1..Len(new) : i = n + j
    <3>1. i - n \in 1..Len(new) /\ i = n + (i - n)
      BY <1>1, <1>4
    <3>2. QED
      BY <3>1
  <2>2. new[j].role = "tool"
    BY <1>1, <1>2, <2>1
  <2>3. j = 1
    BY <2>2
  <2>4. PICK k \in 1..n :
          /\ k \in DOMAIN messages[n + 1 - k].calls
          /\ new[1].answers = messages[n + 1 - k].calls[k].id
          /\ Reached(n + 1 - k, k)
          /\ \A l \in (n + 1 - k + 1)..n : messages[l].role = "tool"
    BY <2>2
  <2>5. /\ i = n + 1 /\ k \in 1..(i - 1) /\ i - k \in 1..n /\ i - k = n + 1 - k
        /\ messages'[i] = new[1] /\ messages'[i - k] = messages[n + 1 - k]
    BY <1>1, <2>1, <2>3
  <2>6. ASSUME NEW l \in (i - k + 1)..i PROVE messages'[l].role = "tool"
    <3>1. CASE l = i
      BY <1>2, <3>1
    <3>2. CASE l # i
      <4>1. n \in Nat /\ k \in 1..n /\ i = n + 1 /\ l \in (i - k + 1)..i /\ l # i
        BY <1>1, <2>5, <3>2
      <4>2. l \in (n + 1 - k + 1)..n /\ l \in 1..n
        <5> HIDE DEF n
        <5>1. QED
          BY <4>1
      <4>3. QED
        BY <1>1, <2>4, <4>2
    <3>3. QED
      BY <3>1, <3>2
  <2>7. Reached(i - k, k)'
    BY <1>r, <2>4, <2>5
  <2>8. QED
    BY <2>4, <2>5, <2>6, <2>7
<1>5. QED
  BY <1>3, <1>4

\* Nothing was open, and nothing new asks for calls.
LEMMA PlainKeepsSettled ==
  ASSUME TypeOK, AllSettled, ResultsWereAsked,
         NEW new \in Seq(Messages), messages' = messages \o new,
         \A j \in 1..Len(new) : Plain(new[j])
  PROVE  AllSettled' /\ ResultsWereAsked'
PROOF
<1>1. /\ Len(messages) \in Nat /\ Len(new) \in Nat /\ DOMAIN messages = 1..Len(messages)
      /\ DOMAIN messages' = 1..(Len(messages) + Len(new))
      /\ \A i \in 1..Len(messages) : messages'[i] = messages[i]
      /\ \A i \in 1..Len(new) : messages'[Len(messages) + i] = new[i]
  BY MessagesGrow
<1>2. \A m \in Messages : \A k \in DOMAIN m.calls : k \in Nat /\ k >= 1
  BY CallNumbers
<1>3. ASSUME NEW a \in DOMAIN messages', NEW k \in DOMAIN messages'[a].calls
      PROVE  Settled(a, k)'
  <2>1. CASE a \in DOMAIN messages
    <3>1. messages'[a] = messages[a] /\ messages[a] \in Messages
      BY <1>1, <2>1 DEF TypeOK
    <3>2. k \in Nat /\ k >= 1 /\ Settled(a, k)
      BY <1>2, <1>3, <2>1, <3>1 DEF AllSettled
    <3>3. QED
      BY <2>1, <3>2, SettledGrows
  <2>2. CASE a \notin DOMAIN messages
    <3>1. a - Len(messages) \in 1..Len(new) /\ a = Len(messages) + (a - Len(messages))
      BY <1>1, <2>2
    <3>2. messages'[a] = new[a - Len(messages)]
      BY <1>1, <3>1
    <3>3. messages'[a].calls = <<>>
      BY <3>1, <3>2 DEF Plain
    <3>4. QED
      BY <1>3, <3>3
  <2>3. QED
    BY <2>1, <2>2
<1>4. \A j \in 1..Len(new) : new[j].role # "tool"
  BY DEF Plain
<1>5. ResultsWereAsked'
  BY <1>4, ResultsGrow
<1>6. QED
  BY <1>3, <1>5 DEF AllSettled

\* A result, and what may come after it, settles the call it answers: of the
\* calls that are being dispatched only the later ones are left open.
LEMMA ResultSettles ==
  ASSUME TypeOK, ChatInv, pc = "tools", NEW new \in Seq(Messages), messages' = messages \o new,
         Len(new) >= 1, new[1].role = "tool", new[1].calls = <<>>,
         new[1].answers = calls[next].id,
         \A j \in 2..Len(new) : Plain(new[j])
  PROVE  /\ ResultsWereAsked'
         /\ Asking \in DOMAIN messages /\ messages'[Asking].calls = calls
         /\ \A a \in DOMAIN messages' : \A k \in DOMAIN messages'[a].calls :
              Settled(a, k)' \/ (a = Asking /\ k > next)
PROOF
<1>1. /\ Len(messages) \in Nat /\ Len(new) \in Nat /\ DOMAIN messages = 1..Len(messages)
      /\ DOMAIN messages' = 1..(Len(messages) + Len(new))
      /\ \A i \in 1..Len(messages) : messages'[i] = messages[i]
      /\ \A i \in 1..Len(new) : messages'[Len(messages) + i] = new[i]
  BY MessagesGrow
<1>2. \A m \in Messages : \A k \in DOMAIN m.calls : k \in Nat /\ k >= 1
  BY CallNumbers
<1>3. /\ Asking \in DOMAIN messages
      /\ messages[Asking].calls = calls
      /\ \A j \in 1..(next - 1) : Continues(calls[j])
      /\ \A j \in (Asking + 1)..Len(messages) : messages[j].role = "tool"
      /\ \A a \in DOMAIN messages \ {Asking} : \A k \in DOMAIN messages[a].calls : Settled(a, k)
  BY DEF ChatInv, RoundInHistory
<1>4. /\ next \in 1..Len(calls) /\ next \in DOMAIN calls /\ next \in Nat /\ next >= 1
      /\ Asking = Len(messages) + 1 - next /\ Asking + next = Len(messages) + 1
      /\ next \in 1..Len(messages)
  BY <1>1, <1>3 DEF TypeOK, Asking
<1>5. ResultsWereAsked'
  <2>1. ASSUME NEW j \in 1..Len(new), new[j].role = "tool"
        PROVE  /\ j = 1
               /\ \E k \in 1..Len(messages) :
                    LET a == Len(messages) + 1 - k
                    IN  /\ k \in DOMAIN messages[a].calls
                        /\ new[1].answers = messages[a].calls[k].id
                        /\ Reached(a, k)
                        /\ \A i \in (a + 1)..Len(messages) : messages[i].role = "tool"
    <3>1. j = 1
      BY <1>1, <2>1 DEF Plain
    <3>2. /\ next \in DOMAIN messages[Len(messages) + 1 - next].calls
          /\ new[1].answers = messages[Len(messages) + 1 - next].calls[next].id
          /\ Reached(Len(messages) + 1 - next, next)
          /\ \A i \in (Len(messages) + 1 - next + 1)..Len(messages) : messages[i].role = "tool"
      BY <1>3, <1>4 DEF Reached
    <3>3. QED
      BY <1>4, <3>1, <3>2
  <2>2. ResultsWereAsked
    BY DEF ChatInv, ResultsInPlace
  <2>3. QED
    BY <2>1, <2>2, ResultsGrow
<1>6. ASSUME NEW a \in DOMAIN messages', NEW k \in DOMAIN messages'[a].calls
      PROVE  Settled(a, k)' \/ (a = Asking /\ k > next)
  <2>1. CASE a \in DOMAIN messages
    <3>1. messages'[a] = messages[a] /\ messages[a] \in Messages
      BY <1>1, <2>1 DEF TypeOK
    <3>2. k \in Nat /\ k >= 1 /\ k \in DOMAIN messages[a].calls
      BY <1>2, <1>6, <3>1
    <3>3. CASE Settled(a, k)
      BY <2>1, <3>2, <3>3, SettledGrows
    <3>4. CASE ~Settled(a, k)
      <4>1. a = Asking /\ a + k > Len(messages)
        BY <1>3, <2>1, <3>2, <3>4 DEF ChatInv, ResultsInPlace, CallsAnswered
      <4>2. k >= next
        BY <1>1, <1>4, <3>2, <4>1
      <4>3. CASE k = next
        <5>1. a + k = Len(messages) + 1
          BY <1>4, <4>1, <4>3
        <5>4. messages'[Len(messages) + 1] = new[1] /\ Len(messages) + 1 \in DOMAIN messages'
          BY <1>1
        <5>2. messages'[a].calls[k].id = new[1].answers
          BY <1>3, <3>1, <4>1, <4>3
        <5>3. QED
          BY <5>1, <5>2, <5>4 DEF Settled, Answered
      <4>4. QED
        BY <1>4, <3>2, <4>1, <4>2, <4>3
    <3>5. QED
      BY <3>3, <3>4
  <2>2. CASE a \notin DOMAIN messages
    <3>1. a - Len(messages) \in 1..Len(new) /\ a = Len(messages) + (a - Len(messages))
      BY <1>1, <2>2
    <3>2. messages'[a] = new[a - Len(messages)]
      BY <1>1, <3>1
    <3>3. messages'[a].calls = <<>>
      <4>1. CASE a - Len(messages) = 1
        BY <3>2, <4>1
      <4>2. CASE a - Len(messages) # 1
        <5>1. a - Len(messages) \in 2..Len(new)
          BY <1>1, <3>1, <4>2
        <5>2. QED
          BY <3>2, <5>1 DEF Plain
      <4>3. QED
        BY <4>1, <4>2
    <3>4. QED
      BY <1>6, <3>3
  <2>3. QED
    BY <2>1, <2>2
<1>7. QED
  BY <1>1, <1>3, <1>5, <1>6

\* A rewriting changes no heading, and so nothing of the chat.
LEMMA RewritingKeepsSettled ==
  ASSUME TypeOK, AllSettled, ResultsWereAsked, Talk(messages)' = Talk(messages),
         messages' \in Seq(Messages)
  PROVE  AllSettled' /\ ResultsWereAsked'
PROOF
<1>1. messages \in Seq(Messages)
  BY DEF TypeOK
<1>2. /\ DOMAIN messages' = DOMAIN messages
      /\ \A i \in DOMAIN messages : Heading(messages'[i]) = Heading(messages[i])
  <2>1. Talk(messages)' = [i \in DOMAIN messages' |-> Heading(messages'[i])]
    BY DEF Talk, Heading
  <2>2. Talk(messages) = [i \in DOMAIN messages |-> Heading(messages[i])]
    BY DEF Talk
  <2>3. QED
    BY <2>1, <2>2
<1>3. \A i \in DOMAIN messages : /\ messages'[i].role = messages[i].role
                                 /\ messages'[i].calls = messages[i].calls
                                 /\ messages'[i].answers = messages[i].answers
  BY <1>2 DEF Heading
<1>r. \A a \in DOMAIN messages : \A k : Reached(a, k)' <=> Reached(a, k)
  BY <1>3 DEF Reached, Continues, Offered
<1>a. \A a \in DOMAIN messages : \A k : Answered(a, k)' <=> Answered(a, k)
  BY <1>2, <1>3 DEF Answered
<1>4. AllSettled'
  BY <1>2, <1>3, <1>r, <1>a DEF AllSettled, Settled
<1>5. ResultsWereAsked'
  <2>1. ASSUME NEW i \in DOMAIN messages, messages[i].role = "tool"
        PROVE  \E k \in 1..(i - 1) :
                 /\ k \in DOMAIN messages'[i - k].calls
                 /\ messages'[i].answers = messages'[i - k].calls[k].id
                 /\ Reached(i - k, k)'
                 /\ \A j \in (i - k + 1)..i : messages'[j].role = "tool"
    <3>1. PICK k \in 1..(i - 1) :
            /\ k \in DOMAIN messages[i - k].calls
            /\ messages[i].answers = messages[i - k].calls[k].id
            /\ Reached(i - k, k)
            /\ \A j \in (i - k + 1)..i : messages[j].role = "tool"
      BY <2>1 DEF ResultsWereAsked
    <3>2. DOMAIN messages = 1..Len(messages) /\ Len(messages) \in Nat
      BY <1>1
    <3>3. i - k \in DOMAIN messages /\ \A j \in (i - k + 1)..i : j \in DOMAIN messages
      BY <3>2
    <3>4. QED
      BY <1>3, <1>r, <3>1, <3>3
  <2>2. QED
    BY <1>2, <1>3, <2>1 DEF ResultsWereAsked
<1>6. QED
  BY <1>4, <1>5

\* At the prompt, over a budget check or a completion nothing is open.
LEMMA ChatIsSettled ==
  ASSUME ChatInv, pc \in {"prompt", "budget", "calling"}
  PROVE  AllSettled /\ ResultsWereAsked
PROOF
  BY DEF AllSettled, ChatInv, ResultsInPlace, CallsAnswered

\* The chat in a state whose history is the one before.
LEMMA ChatKept ==
  ASSUME ChatInv, messages' = messages, pc' # "tools",
         pc \in {"prompt", "budget", "calling"} \/ pc' = "ended"
  PROVE  ChatInv'
PROOF
<1>r. \A a, k : Reached(a, k)' <=> Reached(a, k)
  BY DEF Reached, Continues, Offered
<1>1. \A a, k : Settled(a, k) => Settled(a, k)'
  BY <1>r DEF Settled, Answered
<1>2. QED
  BY <1>1, <1>r DEF ChatInv, ResultsInPlace, CallsAnswered, ResultsWereAsked, RoundInHistory

LEMMA ChatStep ==
  ASSUME TypeOK, TypeOK', ChatInv, [Next]_vars
  PROVE  ChatInv'
PROOF
<1>t. messages \in Seq(Messages) /\ messages' \in Seq(Messages)
  BY DEF TypeOK
<1>s. ASSUME AllSettled', ResultsWereAsked', pc' # "tools" PROVE ChatInv'
  BY <1>s DEF AllSettled, ChatInv, ResultsInPlace, CallsAnswered, RoundInHistory
<1>1. ASSUME NEW input \in Inputs, Begin(input) \/ Cancel(input) PROVE ChatInv'
  <2> DEFINE m == UserMessage(input.form, input.tokens)
  <2>1. m \in Messages /\ Plain(m)
    BY InputTypes DEF UserMessage, Plain
  <2>2. pc = "prompt" /\ messages' = messages \o <<m>> /\ pc' # "tools"
    BY <1>1 DEF Begin, Cancel, Extend, Asks
  <2> HIDE DEF m
  <2> DEFINE new == <<m>>
  <2>3. AllSettled' /\ ResultsWereAsked'
    <3>1. new \in Seq(Messages) /\ \A j \in 1..Len(new) : Plain(new[j])
      BY <2>1
    <3>2. messages' = messages \o new
      BY <2>2
    <3> HIDE DEF new
    <3> QED BY <2>2, <3>1, <3>2, ChatIsSettled, PlainKeepsSettled
  <2>4. QED
    BY <2>2, <2>3, <1>s
<1>2. ASSUME CompressOldest \/ TruncateOldest PROVE ChatInv'
  <2>1. pc = "budget" /\ pc' = "budget"
    BY <1>2 DEF CompressOldest, TruncateOldest, Rewrite
  <2>2. AllSettled' /\ ResultsWereAsked'
    BY <1>t, <1>2, <2>1, TalkKept, ChatIsSettled, RewritingKeepsSettled
  <2>3. pc' # "tools"
    BY <2>1
  <2>4. QED
    BY <2>2, <2>3, <1>s
<1>3. ASSUME SendRequest \/ Retry \/ BudgetExceeded \/ GiveUp \/ Interrupt \/ Quit PROVE ChatInv'
  BY <1>3, ChatKept DEF SendRequest, Retry, BudgetExceeded, GiveUp, Interrupt, Quit, Fails
<1>4. ASSUME NEW r \in Responses, ReplyCalls(r) PROVE ChatInv'
  <2> DEFINE m == Reply(r)
             n == Len(messages)
  <2>1. /\ m \in Messages /\ m.role = "assistant" /\ m.calls = r.calls
        /\ <<m>> \in Seq(Messages) /\ Len(<<m>>) = 1 /\ <<m>>[1] = m
    BY ReplyTypes DEF Reply, AssistantMessage
  <2>2. /\ pc = "calling" /\ messages' = messages \o <<m>> /\ pc' = "tools"
        /\ calls' = r.calls /\ next' = 1
    BY <1>4 DEF ReplyCalls, Extend
  <2> HIDE DEF m
  <2>3. /\ n \in Nat /\ DOMAIN messages = 1..n /\ Len(messages') = n + 1
        /\ DOMAIN messages' = 1..(n + 1)
        /\ \A i \in 1..n : messages'[i] = messages[i]
        /\ messages'[n + 1] = m
    BY <2>1, <2>2, MessagesGrow
  <2>4. AllSettled /\ ResultsWereAsked
    BY <2>2, ChatIsSettled
  <2>5. \A o \in Messages : \A k \in DOMAIN o.calls : k \in Nat /\ k >= 1
    BY CallNumbers
  <2>6. ASSUME NEW a \in 1..n, NEW k \in DOMAIN messages'[a].calls PROVE Settled(a, k)'
    <3>1. /\ a \in DOMAIN messages /\ messages[a] \in Messages
          /\ k \in DOMAIN messages[a].calls
      BY <1>t, <2>3, <2>6
    <3>2. k \in Nat /\ k >= 1 /\ Settled(a, k)
      BY <2>4, <2>5, <3>1 DEF AllSettled
    <3>3. QED
      BY <2>1, <2>2, <3>1, <3>2, SettledGrows
  <2>7. ResultsWereAsked'
    <3>1. \A j \in 1..Len(<<m>>) : <<m>>[j].role # "tool"
      BY <2>1
    <3>2. QED
      BY <2>1, <2>2, <2>4, <3>1, ResultsGrow
  <2>8. CallsAnswered'
    <3>1. ASSUME NEW a \in DOMAIN messages', NEW k \in DOMAIN messages'[a].calls
          PROVE  Settled(a, k)' \/ a + k > Len(messages')
      <4>1. CASE a \in 1..n
        BY <2>6, <3>1, <4>1
      <4>2. CASE a = n + 1
        <5>1. k \in Nat /\ k >= 1
          BY <2>1, <2>3, <2>5, <3>1, <4>2
        <5>2. QED
          BY <2>3, <4>2, <5>1
      <4>3. QED
        BY <2>3, <4>1, <4>2
    <3>2. QED
      BY <2>2, <3>1 DEF CallsAnswered
  <2>9. RoundInHistory'
    <3>1. Asking' = n + 1
      BY <2>2, <2>3 DEF Asking
    <3>2. /\ n + 1 \in DOMAIN messages' /\ messages'[n + 1].calls = calls'
          /\ (n + 1 + 1)..Len(messages') = {}
          /\ DOMAIN messages' \ {n + 1} = 1..n
      BY <2>1, <2>2, <2>3
    <3>3. 1..(next' - 1) = {}
      BY <2>2
    <3>4. QED
      BY <2>6, <3>1, <3>2, <3>3 DEF RoundInHistory
  <2>10. QED
    BY <2>7, <2>8, <2>9 DEF ChatInv, ResultsInPlace
<1>5. ASSUME NEW r \in Responses, ReplyBroken(r) \/ ReplyProposal(r) \/ ReplyText(r) \/ ReplyTextLast(r)
      PROVE  ChatInv'
  <2>1. PICK new \in {<<Reply(r)>>, <<Reply(r), Nudge>>} : messages' = messages \o new
    BY <1>5 DEF ReplyBroken, ReplyProposal, ReplyText, ReplyTextLast, Extend
  <2>2. pc = "calling" /\ r.calls = <<>> /\ pc' # "tools"
    BY <1>5 DEF ReplyBroken, ReplyProposal, ReplyText, ReplyTextLast, FinishProposal, NextRound,
                Asks, Fails
  <2>3. /\ Reply(r) \in Messages /\ Nudge \in Messages /\ Plain(Reply(r)) /\ Plain(Nudge)
    BY <2>2, ReplyTypes, NudgeType DEF Plain, Reply, AssistantMessage, Nudge, UserMessage
  <2>4. new \in Seq(Messages) /\ \A j \in 1..Len(new) : Plain(new[j])
    <3> HIDE DEF Plain, Reply, Nudge
    <3>1. CASE new = <<Reply(r)>>
      BY <2>3, <3>1
    <3>2. CASE new = <<Reply(r), Nudge>>
      BY <2>3, <3>2
    <3>3. QED
      BY <3>1, <3>2
  <2>5. AllSettled' /\ ResultsWereAsked'
    BY <2>1, <2>2, <2>4, ChatIsSettled, PlainKeepsSettled
  <2>6. QED
    BY <2>2, <2>5, <1>s
<1>6. ASSUME NEW t \in ToolTokens, pc = "tools"
      PROVE  LET m == ToolResult(calls[next], t)
             IN  m \in Messages /\ m.role = "tool" /\ m.calls = <<>> /\ m.answers = calls[next].id
  <2>1. calls[next] \in Calls
    BY <1>6, SMTT(30) DEF TypeOK
  <2>2. QED
    BY <2>1, ResultTypes DEF ToolResult
<1>7. ASSUME NEW t \in ToolTokens, Dispatch(t) \/ DispatchDone(t) \/ DispatchProposal(t)
      PROVE  ChatInv'
  <2> DEFINE m == ToolResult(calls[next], t)
             n == Len(messages)
  <2>1. pc = "tools" /\ messages' = messages \o <<m>>
    BY <1>7 DEF Dispatch, DispatchDone, DispatchProposal, Extend
  <2>2. m \in Messages /\ m.role = "tool" /\ m.calls = <<>> /\ m.answers = calls[next].id
    BY <1>6, <2>1
  <2> HIDE DEF m
  <2> DEFINE new == <<m>>
  <2>3. new \in Seq(Messages) /\ Len(new) = 1 /\ new[1] = m /\ messages' = messages \o new
    BY <2>1, <2>2
  <2> HIDE DEF new
  <2>4. /\ ResultsWereAsked'
        /\ Asking \in DOMAIN messages /\ messages'[Asking].calls = calls
        /\ \A a \in DOMAIN messages' : \A k \in DOMAIN messages'[a].calls :
             Settled(a, k)' \/ (a = Asking /\ k > next)
    <3>1. Len(new) >= 1 /\ \A j \in 2..Len(new) : Plain(new[j])
      BY <2>3
    <3>2. new[1].role = "tool" /\ new[1].calls = <<>> /\ new[1].answers = calls[next].id
      BY <2>2, <2>3
    <3>3. QED
      BY <2>1, <2>3, <3>1, <3>2, ResultSettles
  <2>5. /\ n \in Nat /\ DOMAIN messages = 1..n /\ Len(messages') = n + 1
        /\ DOMAIN messages' = 1..(n + 1)
        /\ \A i \in 1..n : messages'[i] = messages[i]
        /\ messages'[n + 1] = m
    BY <2>1, <2>3, MessagesGrow
  <2>6. /\ \A j \in (Asking + 1)..n : messages[j].role = "tool"
        /\ \A j \in 1..(next - 1) : Continues(calls[j])
        /\ Asking = n - next + 1 /\ next \in Nat /\ next >= 1
    BY <2>1 DEF ChatInv, RoundInHistory, Asking, TypeOK
  <2>7. CASE Dispatch(t)
    <3>1. pc' = "tools" /\ calls' = calls /\ next' = next + 1 /\ Continues(calls[next])
      BY <2>1, <2>7 DEF Dispatch
    <3>2. ASSUME NEW a \in DOMAIN messages', NEW k \in DOMAIN messages'[a].calls
          PROVE  Settled(a, k)' \/ a + k > Len(messages')
      <4>1. CASE a = Asking /\ k > next
        <5>1. k \in DOMAIN calls
          BY <2>4, <3>2, <4>1
        <5>2. calls \in Seq(Calls)
          BY DEF TypeOK
        <5>3. k \in Nat
          BY <5>1, <5>2
        <5>4. QED
          BY <2>5, <2>6, <4>1, <5>3
      <4>2. QED
        BY <2>4, <3>2, <4>1
    <3>3. CallsAnswered'
      BY <3>1, <3>2 DEF CallsAnswered
    <3>4. Asking' = Asking
      BY <2>5, <2>6, <3>1 DEF Asking
    <3>5. Asking \in DOMAIN messages'
      BY <2>4, <2>5
    <3>6. ASSUME NEW j \in (Asking + 1)..(n + 1) PROVE messages'[j].role = "tool"
      <4>1. CASE j = n + 1
        BY <2>2, <2>5, <4>1
      <4>2. CASE j # n + 1
        <5>1. Asking \in 1..n
          BY <2>4, <2>5
        <5>2. j \in 1..n /\ j \in (Asking + 1)..n
          BY <2>5, <3>6, <4>2, <5>1
        <5>3. QED
          BY <2>5, <2>6, <5>2
      <4>3. QED
        BY <4>1, <4>2
    <3>7. ASSUME NEW j \in 1..(next' - 1) PROVE Continues(calls'[j])
      <4>1. j = next \/ j \in 1..(next - 1)
        BY <2>6, <3>1, <3>7
      <4>2. QED
        BY <2>6, <3>1, <4>1
    <3>8. \A a \in DOMAIN messages' \ {Asking} : \A k \in DOMAIN messages'[a].calls : Settled(a, k)'
      BY <2>4
    <3>9. (\A j \in 1..(next - 1) : Continues(calls[j]))'
      BY <3>7 DEF Continues, Offered
    <3>10. RoundInHistory'
      BY <2>4, <2>5, <3>1, <3>4, <3>5, <3>6, <3>8, <3>9 DEF RoundInHistory
    <3>11. QED
      BY <2>4, <3>3, <3>10 DEF ChatInv, ResultsInPlace
  <2>8. CASE DispatchDone(t) \/ DispatchProposal(t)
    <3>1. pc' # "tools" /\ ~Continues(calls[next])
      BY <2>8 DEF DispatchDone, DispatchProposal, FinishProposal, Asks, Fails, Continues
    <3>2. ASSUME NEW a \in DOMAIN messages', NEW k \in DOMAIN messages'[a].calls
          PROVE  Settled(a, k)'
      <4>1. CASE a = Asking /\ k > next
        <5>1. k \in DOMAIN calls /\ calls \in Seq(Calls)
          BY <2>4, <3>2, <4>1 DEF TypeOK
        <5>2. next \in 1..(k - 1)
          BY <2>6, <4>1, <5>1
        <5>3. ~Continues(messages'[a].calls[next])
          BY <2>4, <3>1, <4>1
        <5>4. ~Reached(a, k)'
          BY <5>2, <5>3 DEF Reached, Continues, Offered
        <5>5. QED
          BY <5>4 DEF Settled
      <4>2. QED
        BY <2>4, <3>2, <4>1
    <3>3. AllSettled'
      BY <3>2 DEF AllSettled
    <3>4. QED
      BY <1>s, <2>4, <3>1, <3>3
  <2>9. QED
    BY <1>7, <2>7, <2>8
<1>8. ASSUME NEW t \in ToolTokens, NEW s \in SummaryTokens, DispatchLast(t, s) PROVE ChatInv'
  <2> DEFINE m == ToolResult(calls[next], t)
             e == EvidenceSummary(s)
  <2>1. pc = "tools" /\ messages' = messages \o <<m, e>> /\ next = Len(calls) /\ pc' # "tools"
    BY <1>8 DEF DispatchLast, Extend, NextRound, Fails
  <2>2. /\ m \in Messages /\ m.role = "tool" /\ m.calls = <<>> /\ m.answers = calls[next].id
        /\ e \in Messages /\ Plain(e)
    BY <1>6, <2>1, SummaryTypes DEF Plain, EvidenceSummary, AssistantMessage
  <2> HIDE DEF m, e
  <2> DEFINE new == <<m, e>>
  <2>3. /\ new \in Seq(Messages) /\ Len(new) = 2 /\ new[1] = m /\ new[2] = e
        /\ messages' = messages \o new
    BY <2>1, <2>2
  <2> HIDE DEF new
  <2>4. /\ ResultsWereAsked'
        /\ messages'[Asking].calls = calls
        /\ \A a \in DOMAIN messages' : \A k \in DOMAIN messages'[a].calls :
             Settled(a, k)' \/ (a = Asking /\ k > next)
    <3>1. Len(new) >= 1 /\ \A j \in 2..Len(new) : Plain(new[j])
      BY <2>2, <2>3
    <3>2. new[1].role = "tool" /\ new[1].calls = <<>> /\ new[1].answers = calls[next].id
      BY <2>2, <2>3
    <3>3. QED
      BY <2>1, <2>3, <3>1, <3>2, ResultSettles
  <2>5. \A k \in DOMAIN calls : ~ (k > next)
    <3>1. calls \in Seq(Calls)
      BY DEF TypeOK
    <3>2. QED
      BY <2>1, <3>1
  <2>6. AllSettled'
    BY <2>4, <2>5 DEF AllSettled
  <2>7. QED
    BY <2>1, <2>4, <2>6, <1>s
<1>9. ASSUME UNCHANGED vars PROVE ChatInv'
  BY <1>9 DEF vars, ChatInv, ResultsInPlace, CallsAnswered, ResultsWereAsked, RoundInHistory,
              Settled, Answered, Reached, Continues, Offered, Asking
<1>10. QED
  BY <1>1, <1>2, <1>3, <1>4, <1>5, <1>7, <1>8, <1>9 DEF Next, Continue

(***************************************************************************)
(* Every call has its result in its place, up to the one that ends the     *)
(* turn, and every result was asked for by a call that was reached:        *)
(* whatever the replies, the failures, the interrupts and the rewritings.  *)
(***************************************************************************)
THEOREM ResultsStayInPlace == Spec => []ResultsInPlace
PROOF
<1>1. Init => ChatInv
  BY DEF Init, ChatInv, ResultsInPlace, CallsAnswered, ResultsWereAsked, RoundInHistory
<1>2. TypeOK /\ TypeOK' /\ ChatInv /\ [Next]_vars => ChatInv'
  BY ChatStep
<1>3. ChatInv => ResultsInPlace
  BY DEF ChatInv
<1>4. QED
  BY <1>1, <1>2, <1>3, TypeCorrect, PTL DEF Spec
---------------------------------------------------------------------------
(* SubagentPool: the handles, for every number of callers, every size of   *)
(* the pool and every number of subagents.  What a retain leaves is a      *)
(* recursive function of the list; induction is done over sets of          *)
(* naturals, which the library's well-founded minimum gives without a      *)
(* theorem that takes a predicate.                                         *)

(* A set with 0 and every successor holds the naturals.                    *)
LEMMA SetInduction ==
  ASSUME NEW S, 0 \in S, \A n \in Nat : n \in S => n + 1 \in S
  PROVE  Nat \subseteq S
<1> DEFINE R == OpToRel(<, Nat)
           T == Nat \ S
<1>1. \A x, y \in Nat : x < y => <<x, y>> \in R
  BY DEF OpToRel
<1>2. ASSUME T # {} PROVE FALSE
  <2>1. IsWellFoundedOn(R, Nat)
    BY NatLessThanWellFounded
  <2> HIDE DEF R
  <2>2. PICK x \in T : \A y \in T : ~ (<<y, x>> \in R)
    BY <1>2, <2>1, WFMin
  <2>3. x # 0 /\ x - 1 \in Nat /\ x - 1 < x
    OBVIOUS
  <2>4. x - 1 \notin T
    BY <1>1, <2>2, <2>3
  <2>5. (x - 1) + 1 \in S
    BY <2>3, <2>4
  <2> QED BY <2>5, <2>2
<1> QED BY <1>2

(* A recursion over 1..n has a solution, and it has the type of its steps. *)
Solves(f, n, D, base, step) ==
  /\ f \in [0..n -> D]
  /\ f[0] = base
  /\ \A i \in 1..n : f[i] = step[i][f[i - 1]]

LEMMA PrefixRecursion ==
  ASSUME NEW D, NEW base \in D, NEW n \in Nat, NEW step \in [1..n -> [D -> D]]
  PROVE  \E f : Solves(f, n, D, base, step)
<1> DEFINE S == {m \in Nat : m <= n => \E f : Solves(f, m, D, base, step)}
<1>1. 0 \in S
  <2>1. Solves([i \in 0..0 |-> base], 0, D, base, step)
    BY DEF Solves
  <2> QED BY <2>1
<1>2. ASSUME NEW m \in Nat, m \in S PROVE m + 1 \in S
  <2>1. SUFFICES ASSUME m + 1 <= n PROVE \E f : Solves(f, m + 1, D, base, step)
    OBVIOUS
  <2>2. PICK f : Solves(f, m, D, base, step)
    BY <1>2, <2>1
  <2>3. f[m] \in D /\ step[m + 1][f[m]] \in D
    BY <2>1, <2>2 DEF Solves
  <2> DEFINE g == [i \in 0..(m + 1) |-> IF i <= m THEN f[i] ELSE step[m + 1][f[m]]]
  <2>4. g \in [0..(m + 1) -> D] /\ g[0] = base
    BY <2>2, <2>3 DEF Solves
  <2>5. ASSUME NEW i \in 1..(m + 1) PROVE g[i] = step[i][g[i - 1]]
    <3>1. g[i - 1] = f[i - 1]
      OBVIOUS
    <3>2. CASE i = m + 1
      BY <3>1, <3>2
    <3>3. CASE i \in 1..m
      BY <2>2, <3>1, <3>3 DEF Solves
    <3> QED BY <3>2, <3>3
  <2> HIDE DEF g
  <2> QED BY <2>4, <2>5 DEF Solves
<1>3. n \in S
  <2> HIDE DEF S
  <2> QED BY <1>1, <1>2, SetInduction
<1> QED BY <1>3
---------------------------------------------------------------------------
(* The steps of a retain, as they are defined.                             *)
LEMMA RetainSteps ==
  ASSUME NEW h \in Seq(Ids)
  PROVE  \E kept \in [0..Len(h) -> Seq(Ids)] :
           /\ kept[0] = <<>>
           /\ \A n \in 1..Len(h) :
                kept[n] = IF task[h[n]] \in Unfinished
                          THEN Append(kept[n - 1], h[n]) ELSE kept[n - 1]
           /\ Live(h) = kept[Len(h)]
<1> DEFINE Step(kept, n) == IF task[h[n]] \in Unfinished THEN Append(kept, h[n]) ELSE kept
           Body(kept, n) == IF n = 0 THEN <<>>
                            ELSE IF task[h[n]] \in Unfinished THEN Append(kept[n - 1], h[n])
                            ELSE kept[n - 1]
           step == [n \in 1..Len(h) |-> [kept \in Seq(Ids) |-> Step(kept, n)]]
<1>1. Len(h) \in Nat /\ DOMAIN h = 1..Len(h) /\ \A n \in 1..Len(h) : h[n] \in Ids
  OBVIOUS
<1>2. \A n \in 1..Len(h) : \A kept \in Seq(Ids) : Step(kept, n) \in Seq(Ids)
  BY <1>1, AppendProperties
<1>3. step \in [1..Len(h) -> [Seq(Ids) -> Seq(Ids)]]
  <2> HIDE DEF Step
  <2> QED BY <1>2
<1>4. <<>> \in Seq(Ids)
  OBVIOUS
<1>5. PICK f \in [0..Len(h) -> Seq(Ids)] :
        f[0] = <<>> /\ \A i \in 1..Len(h) : f[i] = step[i][f[i - 1]]
  <2>1. \A D, base, n, s :
          base \in D /\ n \in Nat /\ s \in [1..n -> [D -> D]] => \E f : Solves(f, n, D, base, s)
    BY PrefixRecursion
  <2>2. PICK f : Solves(f, Len(h), Seq(Ids), <<>>, step)
    <3> HIDE DEF step
    <3> QED BY <2>1, <1>1, <1>3, <1>4
  <2> HIDE DEF step
  <2> QED BY <2>2 DEF Solves
<1>6. \A n \in 1..Len(h) : f[n - 1] \in Seq(Ids) /\ f[n] = Step(f[n - 1], n)
  <2> HIDE DEF Step
  <2> TAKE n \in 1..Len(h)
  <2>1. n - 1 \in 0..Len(h)
    BY <1>1
  <2>2. f[n - 1] \in Seq(Ids)
    BY <2>1, <1>5
  <2>3. step[n][f[n - 1]] = Step(f[n - 1], n)
    BY <2>2
  <2> QED BY <2>2, <2>3, <1>5
<1>7. f = [n \in 0..Len(h) |-> Body(f, n)]
  <2>1. ASSUME NEW n \in 0..Len(h) PROVE f[n] = Body(f, n)
    <3> HIDE DEF step
    <3>1. CASE n = 0
      BY <1>5, <3>1
    <3>2. CASE n \in 1..Len(h)
      <4>1. f[n] = Step(f[n - 1], n)
        BY <1>6, <3>2
      <4>2. n # 0
        BY <3>2
      <4> QED BY <4>1, <4>2, Zenon
    <3> QED BY <1>1, <3>1, <3>2
  <2> HIDE DEF Body
  <2> QED BY <2>1, <1>5
<1>8. PICK kept : /\ kept = [n \in 0..Len(h) |-> Body(kept, n)]
                  /\ Live(h) = kept[Len(h)]
  BY <1>7 DEF Live
<1>9. \A n \in 0..Len(h) : kept[n] = Body(kept, n)
  <2> HIDE DEF Body
  <2> QED BY <1>8
<1>10. kept[0] = <<>> /\ \A n \in 1..Len(h) : kept[n] = Step(kept[n - 1], n)
  BY <1>1, <1>9
<1>11. ASSUME NEW m \in Nat PROVE m <= Len(h) => kept[m] \in Seq(Ids)
  <2> HIDE DEF Step, Body
  <2> DEFINE S == {k \in Nat : k <= Len(h) => kept[k] \in Seq(Ids)}
  <2>1. 0 \in S
    BY <1>4, <1>10
  <2>2. ASSUME NEW k \in Nat, k \in S PROVE k + 1 \in S
    <3>1. SUFFICES ASSUME k + 1 <= Len(h) PROVE kept[k + 1] \in Seq(Ids)
      OBVIOUS
    <3>2. k + 1 \in 1..Len(h) /\ (k + 1) - 1 = k /\ kept[k] \in Seq(Ids)
      BY <1>1, <2>2, <3>1
    <3> QED BY <1>2, <1>10, <3>2
  <2>3. m \in S
    <3> HIDE DEF S
    <3> QED BY <2>1, <2>2, SetInduction
  <2> QED BY <2>3
<1>12. kept \in [0..Len(h) -> Seq(Ids)]
  <2> HIDE DEF Body
  <2> QED BY <1>8, <1>11, <1>1
<1> HIDE DEF Body
<1> QED BY <1>1, <1>8, <1>10, <1>12
---------------------------------------------------------------------------
(* A handle at the end of the list.                                        *)
LEMMA PushedLast ==
  ASSUME NEW s \in Seq(Ids), NEW id \in Ids
  PROVE  /\ Append(s, id) \in Seq(Ids)
         /\ Len(Append(s, id)) = Len(s) + 1
         /\ Append(s, id) # <<>> /\ Last(Append(s, id)) = id
         /\ ToSet(Append(s, id)) = ToSet(s) \cup {id}
         /\ IsInjective(s) /\ id \notin ToSet(s) => IsInjective(Append(s, id))
<1> DEFINE t == Append(s, id)
<1>1. /\ t \in Seq(Ids) /\ Len(t) = Len(s) + 1 /\ DOMAIN t = 1..(Len(s) + 1)
      /\ DOMAIN s = 1..Len(s) /\ Len(s) \in Nat
      /\ \A i \in 1..Len(s) : t[i] = s[i]
      /\ t[Len(s) + 1] = id
  BY AppendProperties
<1> HIDE DEF t
<1>2. t # <<>> /\ Last(t) = id
  BY <1>1 DEF Last
<1>3. ToSet(t) = ToSet(s) \cup {id}
  <2>1. ASSUME NEW x \in ToSet(t) PROVE x \in ToSet(s) \cup {id}
    BY <1>1, <2>1 DEF ToSet
  <2>2. ASSUME NEW x \in ToSet(s) PROVE x \in ToSet(t)
    <3>1. PICK i \in 1..Len(s) : x = s[i]
      BY <1>1, <2>2 DEF ToSet
    <3>2. i \in DOMAIN t /\ t[i] = x
      BY <1>1, <3>1
    <3> QED BY <3>2 DEF ToSet
  <2>3. id \in ToSet(t)
    <3>1. Len(s) + 1 \in DOMAIN t
      BY <1>1
    <3> QED BY <1>1, <3>1 DEF ToSet
  <2> QED BY <2>1, <2>2, <2>3
<1>4. ASSUME IsInjective(s), id \notin ToSet(s) PROVE IsInjective(t)
  <2>1. \A i \in 1..Len(s) : s[i] # id
    BY <1>1, <1>4 DEF ToSet
  <2>2. ASSUME NEW i \in DOMAIN t, NEW j \in DOMAIN t, t[i] = t[j] PROVE i = j
    <3>1. CASE i = Len(s) + 1 /\ j = Len(s) + 1
      BY <3>1
    <3>2. CASE i \in 1..Len(s) /\ j \in 1..Len(s)
      BY <1>1, <1>4, <2>2, <3>2 DEF IsInjective
    <3>3. CASE i = Len(s) + 1 /\ j \in 1..Len(s)
      BY <1>1, <2>1, <2>2, <3>3
    <3>4. CASE i \in 1..Len(s) /\ j = Len(s) + 1
      BY <1>1, <2>1, <2>2, <3>4
    <3> QED BY <1>1, <3>1, <3>2, <3>3, <3>4
  <2> QED BY <2>2 DEF IsInjective
<1> QED BY <1>1, <1>2, <1>3, <1>4 DEF t

(* The last handle taken from the list.                                    *)
LEMMA TakenLast ==
  ASSUME NEW s \in Seq(Ids), s # <<>>
  PROVE  /\ Front(s) \in Seq(Ids)
         /\ Len(Front(s)) = Len(s) - 1
         /\ Last(s) \in ToSet(s) /\ Last(s) \in Ids
         /\ ToSet(s) = ToSet(Front(s)) \cup {Last(s)}
         /\ IsInjective(s) => IsInjective(Front(s)) /\ Last(s) \notin ToSet(Front(s))
<1> DEFINE t == Front(s)
           n == Len(s)
<1>1. n \in Nat \ {0} /\ DOMAIN s = 1..n /\ s \in [1..n -> Ids]
  OBVIOUS
<1>2. /\ t \in Seq(Ids) /\ Len(t) = n - 1 /\ DOMAIN t = 1..(n - 1)
      /\ \A i \in 1..(n - 1) : t[i] = s[i]
  BY <1>1 DEF Front
<1> HIDE DEF t, n
<1>3. n \in DOMAIN s /\ Last(s) = s[n] /\ Last(s) \in Ids /\ Last(s) \in ToSet(s)
  BY <1>1 DEF Last, ToSet, n
<1>4. ToSet(s) = ToSet(t) \cup {Last(s)}
  <2>1. ASSUME NEW x \in ToSet(s) PROVE x \in ToSet(t) \cup {Last(s)}
    <3>1. PICK i \in 1..n : x = s[i]
      BY <1>1, <2>1 DEF ToSet
    <3>2. CASE i = n
      BY <1>3, <3>1, <3>2
    <3>3. CASE i \in 1..(n - 1)
      BY <1>2, <3>1, <3>3 DEF ToSet
    <3> QED BY <1>1, <3>2, <3>3
  <2>2. ASSUME NEW x \in ToSet(t) PROVE x \in ToSet(s)
    <3>1. PICK i \in 1..(n - 1) : x = s[i]
      BY <1>2, <2>2 DEF ToSet
    <3>2. i \in DOMAIN s
      BY <1>1
    <3> QED BY <3>1, <3>2 DEF ToSet
  <2> QED BY <1>3, <2>1, <2>2
<1>5. ASSUME IsInjective(s) PROVE IsInjective(t) /\ Last(s) \notin ToSet(t)
  <2>1. \A i \in 1..(n - 1) : i \in DOMAIN s /\ i # n
    BY <1>1
  <2>2. IsInjective(t)
    BY <1>2, <1>5, <2>1 DEF IsInjective
  <2>3. \A i \in 1..(n - 1) : s[i] # s[n]
    BY <1>3, <1>5, <2>1 DEF IsInjective
  <2> QED BY <1>2, <1>3, <2>2, <2>3 DEF ToSet
<1> QED BY <1>2, <1>3, <1>4, <1>5 DEF t, n

(* A retain leaves the unfinished tasks' handles and no other.             *)
LEMMA LiveHandles ==
  ASSUME NEW h \in Seq(Ids)
  PROVE  /\ Live(h) \in Seq(Ids)
         /\ Len(Live(h)) <= Len(h)
         /\ ToSet(Live(h)) = {id \in ToSet(h) : task[id] \in Unfinished}
         /\ IsInjective(h) => IsInjective(Live(h))
<1>1. PICK kept \in [0..Len(h) -> Seq(Ids)] :
        /\ kept[0] = <<>>
        /\ \A n \in 1..Len(h) :
             kept[n] = IF task[h[n]] \in Unfinished
                       THEN Append(kept[n - 1], h[n]) ELSE kept[n - 1]
        /\ Live(h) = kept[Len(h)]
  BY RetainSteps
<1>2. Len(h) \in Nat /\ DOMAIN h = 1..Len(h) /\ \A n \in 1..Len(h) : h[n] \in Ids
  OBVIOUS
<1> DEFINE Seen(n) == {h[i] : i \in 1..n}
           Good(n) == /\ Len(kept[n]) <= n
                      /\ ToSet(kept[n]) = {id \in Seen(n) : task[id] \in Unfinished}
                      /\ IsInjective(h) => IsInjective(kept[n])
           S == {n \in Nat : n <= Len(h) => Good(n)}
<1>3. 0 \in S
  BY <1>1 DEF ToSet, IsInjective
<1>4. ASSUME NEW n \in Nat, n \in S PROVE n + 1 \in S
  <2>1. SUFFICES ASSUME n + 1 <= Len(h) PROVE Good(n + 1)
    OBVIOUS
  <2>2. Good(n) /\ n + 1 \in 1..Len(h) /\ n \in 0..Len(h) /\ (n + 1) - 1 = n
    BY <1>2, <1>4, <2>1
  <2>3. kept[n] \in Seq(Ids) /\ h[n + 1] \in Ids /\ Len(kept[n]) \in Nat
    BY <1>1, <1>2, <2>2, SMTT(30)
  <2>4. kept[n + 1] = IF task[h[n + 1]] \in Unfinished
                      THEN Append(kept[n], h[n + 1]) ELSE kept[n]
    BY <1>1, <2>2
  <2>5. Seen(n + 1) = Seen(n) \cup {h[n + 1]}
    <3>1. 1..(n + 1) = 1..n \cup {n + 1}
      OBVIOUS
    <3> QED BY <3>1
  <2>6. IsInjective(h) => h[n + 1] \notin Seen(n)
    <3>1. \A i \in 1..n : i \in DOMAIN h /\ i # n + 1
      BY <1>2, <2>1
    <3> QED BY <1>2, <2>2, <3>1 DEF IsInjective
  <2>7. CASE task[h[n + 1]] \in Unfinished
    <3>1. kept[n + 1] = Append(kept[n], h[n + 1])
      BY <2>4, <2>7
    <3>2. /\ Len(kept[n + 1]) = Len(kept[n]) + 1
          /\ ToSet(kept[n + 1]) = ToSet(kept[n]) \cup {h[n + 1]}
          /\ IsInjective(kept[n]) /\ h[n + 1] \notin ToSet(kept[n]) => IsInjective(kept[n + 1])
      BY <2>3, <3>1, PushedLast
    <3> HIDE DEF Seen
    <3> QED BY <2>2, <2>3, <2>5, <2>6, <2>7, <3>2
  <2>8. CASE task[h[n + 1]] \notin Unfinished
    <3>1. kept[n + 1] = kept[n]
      BY <2>4, <2>8
    <3> HIDE DEF Seen
    <3> QED BY <2>2, <2>3, <2>5, <2>8, <3>1
  <2> QED BY <2>7, <2>8
<1>5. Len(h) \in S
  <2> HIDE DEF S
  <2> QED BY <1>2, <1>3, <1>4, SetInduction
<1>6. Seen(Len(h)) = ToSet(h)
  BY <1>2 DEF ToSet
<1> HIDE DEF Seen
<1> QED BY <1>1, <1>2, <1>5, <1>6
---------------------------------------------------------------------------
(* The strengthening is inductive: first the types, action by action.      *)
Kinds == {"none", "invalid", "full", "panic",
          "result", "error", "timeout", "aborted"}

LEMMA AnswersTyped ==
  ASSUME PoolTypeOK, NEW c \in Callers, NEW kind \in Kinds, NEW id \in Ids \cup {NoSubagent},
         Answers(c, kind, id)
  PROVE  /\ at' \in [Callers -> {"idle", "push", "pop", "waiting"}]
         /\ mine' \in [Callers -> Ids \cup {NoSubagent}]
         /\ handle' \in [Callers -> Ids \cup {NoSubagent}]
         /\ reply' \in [Callers -> [kind : Kinds, id : Ids \cup {NoSubagent}]]
BY DEF PoolTypeOK, Answers, Kinds

LEMMA InitInv == PoolInit => PoolInv
<1> SUFFICES ASSUME PoolInit PROVE PoolInv
  OBVIOUS
<1>1. PoolTypeOK
  <2>1. <<>> \in Seq(Ids) /\ 0 \in 0..MaxSpawns
    BY PoolAssumption
  <2> QED BY <2>1 DEF PoolInit, PoolTypeOK
<1>2. HandlesConserved
  BY DEF PoolInit, HandlesConserved, Held, IsInjective, ToSet, Spawned
<1>3. CallersInv
  <2>1. session.max_parallel \in Nat
    BY PoolAssumption DEF PoolInit
  <2> QED BY <2>1 DEF PoolInit, CallersInv, Spawned
<1>4. AloneJustPushed
  BY DEF PoolInit, AloneJustPushed
<1> QED BY <1>1, <1>2, <1>3, <1>4 DEF PoolInv

LEMMA TypeStep == ASSUME PoolInv, [PoolNext]_poolVars PROVE PoolTypeOK'
<1> USE DEF PoolInv
<1>t. PoolTypeOK /\ active \in Seq(Ids) /\ next_id \in 0..MaxSpawns
      /\ Live(active) \in Seq(Ids) /\ NoSubagent \in Ids \cup {NoSubagent}
  BY LiveHandles DEF PoolTypeOK
<1>1. ASSUME NEW c \in Callers, Call(c) PROVE PoolTypeOK'
  BY <1>t, <1>1 DEF PoolTypeOK, Call
<1>2. ASSUME NEW c \in Callers, Invalid(c) PROVE PoolTypeOK'
  BY <1>t, <1>2, AnswersTyped DEF PoolTypeOK, Invalid, Kinds
<1>3. ASSUME NEW c \in Callers, PoolPoisoned(c) PROVE PoolTypeOK'
  BY <1>t, <1>3, AnswersTyped DEF PoolTypeOK, PoolPoisoned, Kinds
<1>4. ASSUME NEW c \in Callers, AtCapacity(c) PROVE PoolTypeOK'
  BY <1>t, <1>4, AnswersTyped DEF PoolTypeOK, AtCapacity, Kinds
<1>5. ASSUME NEW c \in Callers, Push(c) PROVE PoolTypeOK'
  <2>1. next_id \in Ids /\ next_id + 1 \in 0..MaxSpawns
    BY <1>t, <1>5, PoolAssumption DEF Push, Ids
  <2>2. Append(Live(active), next_id) \in Seq(Ids)
    BY <1>t, <2>1, PushedLast
  <2> QED BY <1>t, <1>5, <2>1, <2>2 DEF PoolTypeOK, Push
<1>6. ASSUME NEW c \in Callers, Pop(c) PROVE PoolTypeOK'
  <2>1. Front(active) \in Seq(Ids) /\ Last(active) \in Ids
    BY <1>t, <1>6, TakenLast DEF Pop
  <2> QED BY <1>t, <1>6, <2>1 DEF PoolTypeOK, Pop
<1>7. ASSUME NEW c \in Callers, PopPanics(c) PROVE PoolTypeOK'
  BY <1>t, <1>7, AnswersTyped DEF PoolTypeOK, PopPanics, Kinds
<1>8. ASSUME NEW c \in Callers, Return(c) PROVE PoolTypeOK'
  <2>1. handle[c] # NoSubagent /\ handle[c] \in Ids /\ handle[c] \in Spawned
    BY <1>t, <1>8 DEF Return, CallersInv, PoolTypeOK, HandlesConserved, Held
  <2>2. task[handle[c]] # "none"
    BY <2>1 DEF CallersInv
  <2>3. task[handle[c]] \in Kinds
    BY <1>t, <1>8, <2>1, <2>2 DEF Return, PoolTypeOK, Kinds, Unfinished
  <2> QED BY <1>t, <1>8, <2>1, <2>3, AnswersTyped DEF PoolTypeOK, Return, Kinds
<1>10. ASSUME NEW id \in Ids, Finish(id) PROVE PoolTypeOK'
  BY <1>t, <1>10 DEF PoolTypeOK, Finish
<1>11. ASSUME CancelAll PROVE PoolTypeOK'
  <2>1. <<>> \in Seq(Ids)
    OBVIOUS
  <2> QED BY <1>t, <1>11, <2>1 DEF PoolTypeOK, CancelAll
<1>12. ASSUME ActiveCount PROVE PoolTypeOK'
  BY <1>t, <1>12 DEF PoolTypeOK, ActiveCount
<1>13. ASSUME UNCHANGED poolVars PROVE PoolTypeOK'
  BY <1>t, <1>13 DEF PoolTypeOK, poolVars
<1> QED
  BY <1>1, <1>2, <1>3, <1>4, <1>5, <1>6, <1>7, <1>8, <1>10, <1>11, <1>12, <1>13
  DEF PoolNext, Spawn

(* What callers hold when one of them lets go, and when one takes a handle. *)
OneEach(h) == \A c, e \in Callers : h[c] = h[e] /\ h[c] # NoSubagent => c = e

LEMMA NoneIsNoId == NoSubagent \notin Ids
BY PoolAssumption DEF Ids

LEMMA HeldReleased ==
  ASSUME PoolTypeOK, OneEach(handle), NEW c \in Callers, handle' = [handle EXCEPT ![c] = NoSubagent]
  PROVE  Held' = Held \ {handle[c]} /\ OneEach(handle')
<1>1. handle \in [Callers -> Ids \cup {NoSubagent}]
  BY DEF PoolTypeOK
<1>2. \A e \in Callers : handle'[e] = IF e = c THEN NoSubagent ELSE handle[e]
  BY <1>1
<1>3. OneEach(handle')
  BY <1>2 DEF OneEach
<1>4. ASSUME NEW x \in Held' PROVE x \in Held \ {handle[c]}
  BY <1>2, <1>4 DEF Held, OneEach
<1>5. ASSUME NEW x \in Held \ {handle[c]} PROVE x \in Held'
  BY <1>2, <1>5 DEF Held
<1> QED BY <1>3, <1>4, <1>5

LEMMA HeldTaken ==
  ASSUME PoolTypeOK, OneEach(handle), NEW c \in Callers, handle[c] = NoSubagent, NEW id \in Ids,
         handle' = [handle EXCEPT ![c] = id]
  PROVE  Held' = Held \cup {id} /\ (id \notin Held => OneEach(handle'))
<1>1. handle \in [Callers -> Ids \cup {NoSubagent}] /\ id # NoSubagent
  BY NoneIsNoId DEF PoolTypeOK
<1>2. \A e \in Callers : handle'[e] = IF e = c THEN id ELSE handle[e]
  BY <1>1
<1>3. ASSUME id \notin Held PROVE OneEach(handle')
  <2>1. \A e \in Callers : handle[e] # id
    BY <1>1, <1>3 DEF Held
  <2> QED BY <1>2, <2>1 DEF OneEach
<1>4. ASSUME NEW x \in Held' PROVE x \in Held \cup {id}
  BY <1>2, <1>4 DEF Held
<1>5. ASSUME NEW x \in Held \cup {id} PROVE x \in Held'
  <2>1. CASE x = id
    BY <1>1, <1>2, <2>1 DEF Held
  <2>2. CASE x \in Held
    <3>1. PICK e \in Callers : x = handle[e] /\ x # NoSubagent
      BY <2>2 DEF Held
    <3>2. e # c
      BY <3>1
    <3> QED BY <1>2, <3>1, <3>2 DEF Held
  <2> QED BY <1>5, <2>1, <2>2
<1> QED BY <1>3, <1>4, <1>5

(* Who is answered before it waits has nothing to let go of.               *)
LEMMA NothingHeld ==
  ASSUME PoolInv, NEW c \in Callers, at[c] # "waiting", NEW kind, NEW id,
         Answers(c, kind, id)
  PROVE  handle' = handle
<1>1. handle[c] = NoSubagent /\ handle \in [Callers -> Ids \cup {NoSubagent}]
  BY DEF PoolInv, CallersInv, PoolTypeOK
<1> QED BY <1>1 DEF Answers

(* What each step does to the pool, to what is held and to the tasks keeps *)
(* every handle in one place.                                              *)
LEMMA HandlesKept ==
  ASSUME IsInjective(active'), Held' \cap ToSet(active)' = {}, OneEach(handle'),
         ToSet(active)' \cup Held' \subseteq Spawned',
         \A id \in Spawned' : task'[id] = "running" => id \in ToSet(active)' \cup Held'
  PROVE  HandlesConserved'
BY DEF HandlesConserved, OneEach

LEMMA HandlesStep == ASSUME PoolInv, [PoolNext]_poolVars PROVE HandlesConserved'
<1>t. /\ PoolTypeOK /\ active \in Seq(Ids) /\ next_id \in 0..MaxSpawns /\ HandlesConserved
      /\ task \in [Ids -> Unfinished \cup {"none", "result", "error", "timeout", "aborted"}]
      /\ handle \in [Callers -> Ids \cup {NoSubagent}] /\ at \in [Callers -> {"idle", "push", "pop", "waiting"}]
  BY DEF PoolInv, PoolTypeOK, Unfinished
<1>h. /\ IsInjective(active) /\ Held \cap ToSet(active) = {} /\ OneEach(handle)
      /\ ToSet(active) \cup Held \subseteq Spawned
      /\ \A id \in Spawned : task[id] = "running" => id \in ToSet(active) \cup Held
  BY <1>t DEF HandlesConserved, OneEach
<1>l. /\ Live(active) \in Seq(Ids) /\ IsInjective(Live(active))
      /\ ToSet(Live(active)) = {id \in ToSet(active) : task[id] \in Unfinished}
  BY <1>t, <1>h, LiveHandles
<1>n. \A c \in Callers : at[c] = "waiting" <=> handle[c] # NoSubagent
  BY DEF PoolInv, CallersInv
<1>s. \A id \in Spawned : id \in Ids
  BY <1>t, PoolAssumption DEF Spawned, Ids
<1>1. ASSUME NEW c \in Callers, Call(c) PROVE HandlesConserved'
  BY <1>h, <1>1, HandlesKept DEF Call, Held, Spawned
<1>2. ASSUME NEW c \in Callers, Invalid(c) PROVE HandlesConserved'
  <2>1. handle' = handle
    BY <1>2, NothingHeld DEF Invalid
  <2> QED BY <1>h, <1>2, <2>1, HandlesKept DEF Invalid, Held, Spawned
<1>3. ASSUME NEW c \in Callers, PoolPoisoned(c) PROVE HandlesConserved'
  <2>1. handle' = handle
    BY <1>3, NothingHeld DEF PoolPoisoned
  <2> QED BY <1>h, <1>3, <2>1, HandlesKept DEF PoolPoisoned, Held, Spawned
<1>4. ASSUME NEW c \in Callers, AtCapacity(c) PROVE HandlesConserved'
  <2>1. handle' = handle /\ active' = Live(active) /\ task' = task /\ next_id' = next_id
    BY <1>4, NothingHeld DEF AtCapacity
  <2>2. Held' = Held /\ Spawned' = Spawned
    BY <2>1 DEF Held, Spawned
  <2>3. ToSet(active)' = ToSet(Live(active))
    BY <2>1
  <2> QED BY <1>h, <1>l, <2>1, <2>2, <2>3, HandlesKept DEF Unfinished
<1>5. ASSUME NEW c \in Callers, Push(c) PROVE HandlesConserved'
  <2>1. next_id \in Ids /\ next_id \notin Spawned /\ Spawned' = Spawned \cup {next_id}
    BY <1>t, <1>5, PoolAssumption DEF Push, Ids, Spawned
  <2>2. /\ active' = Append(Live(active), next_id) /\ handle' = handle
        /\ task' = [task EXCEPT ![next_id] = "running"]
    BY <1>5 DEF Push
  <2>3. Held' = Held
    BY <2>2 DEF Held
  <2>4. next_id \notin ToSet(Live(active)) /\ next_id \notin Held
    BY <1>h, <1>l, <2>1
  <2>5. ToSet(active)' = ToSet(Live(active)) \cup {next_id} /\ IsInjective(active')
    BY <1>l, <2>1, <2>2, <2>4, PushedLast
  <2>6. ASSUME NEW id \in Spawned', task'[id] = "running"
        PROVE  id \in ToSet(active)' \cup Held'
    <3>1. CASE id = next_id
      BY <2>5, <3>1
    <3>2. CASE id \in Spawned /\ id # next_id
      <4>1. task[id] = "running"
        BY <1>s, <1>t, <2>2, <2>6, <3>2
      <4> QED BY <1>h, <1>l, <2>3, <2>5, <3>2, <4>1 DEF Unfinished
    <3> QED BY <2>1, <3>1, <3>2
  <2> QED BY <1>h, <1>l, <2>1, <2>2, <2>3, <2>4, <2>5, <2>6, HandlesKept
<1>6. ASSUME NEW c \in Callers, Pop(c) PROVE HandlesConserved'
  <2>1. /\ active # <<>> /\ active' = Front(active) /\ task' = task /\ next_id' = next_id
        /\ handle' = [handle EXCEPT ![c] = Last(active)] /\ at[c] = "pop"
    BY <1>6 DEF Pop
  <2>2. /\ Last(active) \in Ids /\ Last(active) \in ToSet(active)
        /\ ToSet(active) = ToSet(active)' \cup {Last(active)}
        /\ IsInjective(active') /\ Last(active) \notin ToSet(active)'
    BY <1>t, <1>h, <2>1, TakenLast
  <2>3. Last(active) \notin Held /\ handle[c] = NoSubagent
    BY <1>h, <1>n, <2>1, <2>2
  <2>4. Held' = Held \cup {Last(active)} /\ OneEach(handle')
    BY <1>t, <1>h, <2>1, <2>2, <2>3, HeldTaken
  <2>5. Spawned' = Spawned
    BY <2>1 DEF Spawned
  <2> QED BY <1>h, <2>1, <2>2, <2>3, <2>4, <2>5, HandlesKept
<1>7. ASSUME NEW c \in Callers, PopPanics(c) PROVE HandlesConserved'
  <2>1. handle' = handle
    BY <1>7, NothingHeld DEF PopPanics
  <2> QED BY <1>h, <1>7, <2>1, HandlesKept DEF PopPanics, Held, Spawned
<1>8. ASSUME NEW c \in Callers, Return(c) PROVE HandlesConserved'
  <2>1. /\ active' = active /\ task' = task /\ next_id' = next_id
        /\ handle' = [handle EXCEPT ![c] = NoSubagent] /\ task[handle[c]] \notin Unfinished
    BY <1>8 DEF Return, Answers
  <2>2. Held' = Held \ {handle[c]} /\ OneEach(handle')
    BY <1>t, <1>h, <2>1, HeldReleased
  <2>3. Spawned' = Spawned
    BY <2>1 DEF Spawned
  <2> QED BY <1>h, <2>1, <2>2, <2>3, HandlesKept DEF Unfinished
<1>10. ASSUME NEW id \in Ids, Finish(id) PROVE HandlesConserved'
  <2>1. /\ active' = active /\ handle' = handle /\ next_id' = next_id
        /\ \E end \in {"result", "error", "timeout", "aborted"} :
             task' = [task EXCEPT ![id] = end]
    BY <1>10 DEF Finish
  <2>2. \A e \in Ids : task'[e] = "running" => task[e] = "running"
    BY <1>t, <2>1
  <2>3. Held' = Held /\ Spawned' = Spawned
    BY <2>1 DEF Held, Spawned
  <2> QED BY <1>h, <1>s, <2>1, <2>2, <2>3, HandlesKept
<1>11. ASSUME CancelAll PROVE HandlesConserved'
  <2>1. /\ active' = <<>> /\ handle' = handle /\ next_id' = next_id
        /\ task' = [id \in Ids |-> IF id \in ToSet(active) /\ task[id] \in Unfinished
                                   THEN "aborting" ELSE task[id]]
    BY <1>11 DEF CancelAll
  <2>2. \A e \in Ids : task'[e] = "running" => task[e] = "running" /\ e \notin ToSet(active)
    BY <2>1 DEF Unfinished
  <2>3. Held' = Held /\ Spawned' = Spawned
    BY <2>1 DEF Held, Spawned
  <2>4. ToSet(active)' = {} /\ IsInjective(active')
    BY <2>1 DEF ToSet, IsInjective
  <2> QED BY <1>h, <1>s, <2>1, <2>2, <2>3, <2>4, HandlesKept
<1>12. ASSUME ActiveCount PROVE HandlesConserved'
  <2>1. handle' = handle /\ active' = Live(active) /\ task' = task /\ next_id' = next_id
    BY <1>12 DEF ActiveCount
  <2>2. Held' = Held /\ Spawned' = Spawned
    BY <2>1 DEF Held, Spawned
  <2>3. ToSet(active)' = ToSet(Live(active))
    BY <2>1
  <2> QED BY <1>h, <1>l, <2>1, <2>2, <2>3, HandlesKept DEF Unfinished
<1>13. ASSUME UNCHANGED poolVars PROVE HandlesConserved'
  BY <1>h, <1>13, HandlesKept DEF poolVars, Held, Spawned
<1> QED
  BY <1>1, <1>2, <1>3, <1>4, <1>5, <1>6, <1>7, <1>8, <1>10, <1>11, <1>12, <1>13
  DEF PoolNext, Spawn
---------------------------------------------------------------------------
(* Who waits holds a handle, ids are given out in order, and the limit was *)
(* looked at when a handle was pushed.                                     *)
WaitingHold(a, h) == \A c \in Callers : a[c] = "waiting" <=> h[c] # NoSubagent

Members(a) == \A c \in Callers : a[c] # "idle" => c \in session.callers

LEMMA AnsweredIdle ==
  ASSUME PoolInv, NEW c \in Callers, c \in session.callers, NEW kind, NEW id,
         Answers(c, kind, id)
  PROVE  WaitingHold(at', handle') /\ Members(at')
<1>1. /\ at \in [Callers -> {"idle", "push", "pop", "waiting"}]
      /\ handle \in [Callers -> Ids \cup {NoSubagent}]
      /\ WaitingHold(at, handle) /\ Members(at)
  BY DEF PoolInv, PoolTypeOK, CallersInv, WaitingHold, Members
<1>2. \A e \in Callers : /\ at'[e] = IF e = c THEN "idle" ELSE at[e]
                         /\ handle'[e] = IF e = c THEN NoSubagent ELSE handle[e]
  BY <1>1 DEF Answers
<1> QED BY <1>1, <1>2 DEF WaitingHold, Members

LEMMA CallersStep == ASSUME PoolInv, [PoolNext]_poolVars PROVE CallersInv'
<1>t. /\ active \in Seq(Ids) /\ next_id \in 0..MaxSpawns /\ session \in Sessions
      /\ task \in [Ids -> Unfinished \cup {"none", "result", "error", "timeout", "aborted"}]
      /\ handle \in [Callers -> Ids \cup {NoSubagent}] /\ at \in [Callers -> {"idle", "push", "pop", "waiting"}]
  BY DEF PoolInv, PoolTypeOK, Unfinished
<1>c. /\ WaitingHold(at, handle) /\ Members(at)
      /\ \A id \in Ids : task[id] = "none" <=> id \notin Spawned
      /\ Len(active) <= session.max_parallel
  BY DEF PoolInv, CallersInv, WaitingHold, Members
<1>m. session.max_parallel \in Nat /\ Len(active) \in Nat
  BY <1>t, PoolAssumption
<1>l. Live(active) \in Seq(Ids) /\ Len(Live(active)) <= Len(active) /\ Len(Live(active)) \in Nat
  BY <1>t, LiveHandles
<1>k. ASSUME WaitingHold(at', handle'), Members(at'), session' = session,
             \A id \in Ids : task'[id] = "none" <=> id \notin Spawned',
             Len(active)' <= session.max_parallel
      PROVE  CallersInv'
  BY <1>k DEF CallersInv, WaitingHold, Members
<1>1. ASSUME NEW c \in Callers, Call(c) PROVE CallersInv'
  <2>1. WaitingHold(at', handle') /\ Members(at')
    BY <1>t, <1>c, <1>1 DEF Call, WaitingHold, Members
  <2> QED BY <1>c, <1>k, <1>1, <2>1 DEF Call, Spawned
<1>2. ASSUME NEW c \in Callers, Invalid(c) PROVE CallersInv'
  <2>1. WaitingHold(at', handle') /\ Members(at')
    BY <1>c, <1>2, AnsweredIdle DEF Invalid, Members
  <2> QED BY <1>c, <1>k, <1>2, <2>1 DEF Invalid, Spawned
<1>3. ASSUME NEW c \in Callers, PoolPoisoned(c) PROVE CallersInv'
  <2>1. WaitingHold(at', handle') /\ Members(at')
    BY <1>c, <1>3, AnsweredIdle DEF PoolPoisoned, Members
  <2> QED BY <1>c, <1>k, <1>3, <2>1 DEF PoolPoisoned, Spawned
<1>4. ASSUME NEW c \in Callers, AtCapacity(c) PROVE CallersInv'
  <2>1. WaitingHold(at', handle') /\ Members(at')
    BY <1>c, <1>4, AnsweredIdle DEF AtCapacity, Members
  <2>2. Len(active)' <= session.max_parallel
    BY <1>c, <1>l, <1>m, <1>4 DEF AtCapacity
  <2> QED BY <1>c, <1>k, <1>4, <2>1, <2>2 DEF AtCapacity, Spawned
<1>5. ASSUME NEW c \in Callers, Push(c) PROVE CallersInv'
  <2>1. next_id \in Ids /\ Spawned' = Spawned \cup {next_id}
    BY <1>t, <1>5, PoolAssumption DEF Push, Ids, Spawned
  <2>2. /\ active' = Append(Live(active), next_id) /\ handle' = handle /\ session' = session
        /\ task' = [task EXCEPT ![next_id] = "running"] /\ at[c] = "push"
        /\ at' = [at EXCEPT ![c] = "pop"] /\ Len(Live(active)) < session.max_parallel
    BY <1>5 DEF Push
  <2>3. Len(active)' <= session.max_parallel
    BY <1>l, <1>m, <2>1, <2>2, PushedLast
  <2>4. \A id \in Ids : task'[id] = "none" <=> id \notin Spawned'
    BY <1>t, <1>c, <2>1, <2>2
  <2>5. WaitingHold(at', handle') /\ Members(at')
    BY <1>t, <1>c, <2>2 DEF WaitingHold, Members
  <2> QED BY <1>k, <2>2, <2>3, <2>4, <2>5
<1>6. ASSUME NEW c \in Callers, Pop(c) PROVE CallersInv'
  <2>1. /\ active # <<>> /\ active' = Front(active) /\ task' = task /\ next_id' = next_id
        /\ handle' = [handle EXCEPT ![c] = Last(active)] /\ at[c] = "pop"
        /\ at' = [at EXCEPT ![c] = "waiting"] /\ session' = session
    BY <1>6 DEF Pop
  <2>2. Len(active)' = Len(active) - 1 /\ Last(active) # NoSubagent
    BY <1>t, <2>1, TakenLast, NoneIsNoId
  <2>3. WaitingHold(at', handle') /\ Members(at')
    BY <1>t, <1>c, <2>1, <2>2 DEF WaitingHold, Members
  <2>4. Len(active)' <= session.max_parallel
    BY <1>c, <1>m, <2>2
  <2> QED BY <1>c, <1>k, <2>1, <2>3, <2>4 DEF Spawned
<1>7. ASSUME NEW c \in Callers, PopPanics(c) PROVE CallersInv'
  <2>1. WaitingHold(at', handle') /\ Members(at')
    BY <1>c, <1>7, AnsweredIdle DEF PopPanics, Members
  <2> QED BY <1>c, <1>k, <1>7, <2>1 DEF PopPanics, Spawned
<1>8. ASSUME NEW c \in Callers, Return(c) PROVE CallersInv'
  <2>1. WaitingHold(at', handle') /\ Members(at')
    BY <1>c, <1>8, AnsweredIdle DEF Return, Members
  <2> QED BY <1>c, <1>k, <1>8, <2>1 DEF Return, Spawned
<1>10. ASSUME NEW id \in Ids, Finish(id) PROVE CallersInv'
  <2>1. \A e \in Ids : task'[e] = "none" <=> task[e] = "none"
    BY <1>t, <1>10 DEF Finish, Unfinished
  <2> QED BY <1>c, <1>k, <1>10, <2>1 DEF Finish, Spawned, WaitingHold, Members
<1>11. ASSUME CancelAll PROVE CallersInv'
  <2>1. \A e \in Ids : task'[e] = "none" <=> task[e] = "none"
    BY <1>t, <1>11 DEF CancelAll, Unfinished
  <2>2. Len(active)' <= session.max_parallel
    BY <1>m, <1>11 DEF CancelAll
  <2> QED BY <1>c, <1>k, <1>11, <2>1, <2>2 DEF CancelAll, Spawned, WaitingHold, Members
<1>12. ASSUME ActiveCount PROVE CallersInv'
  <2>1. Len(active)' <= session.max_parallel
    BY <1>c, <1>l, <1>m, <1>12 DEF ActiveCount
  <2> QED BY <1>c, <1>k, <1>12, <2>1 DEF ActiveCount, Spawned, WaitingHold, Members
<1>13. ASSUME UNCHANGED poolVars PROVE CallersInv'
  BY <1>c, <1>k, <1>13 DEF poolVars, Spawned, WaitingHold, Members
<1> QED
  BY <1>1, <1>2, <1>3, <1>4, <1>5, <1>6, <1>7, <1>8, <1>10, <1>11, <1>12, <1>13
  DEF PoolNext, Spawn

(* One caller alone: the list changes under it only by its own steps.      *)
LEMMA AloneStep == ASSUME PoolInv, [PoolNext]_poolVars PROVE AloneJustPushed'
<1>t. /\ PoolTypeOK /\ active \in Seq(Ids) /\ next_id \in 0..MaxSpawns
      /\ at \in [Callers -> {"idle", "push", "pop", "waiting"}] /\ mine \in [Callers -> Ids \cup {NoSubagent}]
      /\ \A c \in Callers : at[c] # "idle" => c \in session.callers
      /\ Live(active) \in Seq(Ids)
  BY LiveHandles DEF PoolInv, PoolTypeOK, CallersInv
<1>s. session' = session
  BY DEF PoolNext, Spawn, Call, Invalid, PoolPoisoned, AtCapacity, Push, Pop, PopPanics, Return,
     Finish, CancelAll, ActiveCount, poolVars
<1> SUFFICES ASSUME Alone', NEW e \in Callers, at'[e] = "pop"
             PROVE  active' # <<>> /\ Last(active') = mine'[e]
  BY DEF AloneJustPushed
<1>a. Alone /\ ~session.others /\ \A c, d \in session.callers : c = d
  BY <1>s DEF Alone
<1>b. at[e] = "pop" => active # <<>> /\ Last(active) = mine[e]
  BY <1>a DEF PoolInv, AloneJustPushed
<1>k. ASSUME active' = active, at[e] = "pop", mine'[e] = mine[e]
      PROVE  active' # <<>> /\ Last(active') = mine'[e]
  BY <1>b, <1>k
<1>1. ASSUME NEW c \in Callers, Call(c) PROVE active' # <<>> /\ Last(active') = mine'[e]
  BY <1>t, <1>k, <1>1 DEF Call
<1>2. ASSUME NEW c \in Callers, NEW kind, NEW id, Answers(c, kind, id), active' = active
      PROVE  active' # <<>> /\ Last(active') = mine'[e]
  <2>1. e # c
    BY <1>t, <1>2 DEF Answers
  <2> QED BY <1>t, <1>k, <1>2, <2>1 DEF Answers
<1>3. ASSUME NEW c \in Callers, AtCapacity(c) PROVE FALSE
  <2>1. c \in session.callers /\ e # c /\ at[e] = "pop"
    BY <1>t, <1>3 DEF AtCapacity, Answers
  <2> QED BY <1>a, <1>t, <2>1
<1>4. ASSUME NEW c \in Callers, Push(c) PROVE active' # <<>> /\ Last(active') = mine'[e]
  <2>1. /\ at[c] = "push" /\ active' = Append(Live(active), next_id)
        /\ at' = [at EXCEPT ![c] = "pop"] /\ mine' = [mine EXCEPT ![c] = next_id]
    BY <1>4 DEF Push
  <2>2. next_id \in Ids
    BY <1>t, <1>4, PoolAssumption DEF Push, Ids
  <2>3. e = c
    BY <1>a, <1>t, <2>1
  <2> QED BY <1>t, <2>1, <2>2, <2>3, PushedLast
<1>5. ASSUME NEW c \in Callers, Pop(c) PROVE FALSE
  <2>1. c \in session.callers /\ e # c /\ at[e] = "pop"
    BY <1>t, <1>5 DEF Pop
  <2> QED BY <1>a, <1>t, <2>1
<1>6. ASSUME NEW id \in Ids, Finish(id) PROVE active' # <<>> /\ Last(active') = mine'[e]
  BY <1>k, <1>6 DEF Finish
<1>7. ~CancelAll /\ ~ActiveCount
  BY <1>a DEF CancelAll, ActiveCount
<1>8. ASSUME UNCHANGED poolVars PROVE active' # <<>> /\ Last(active') = mine'[e]
  BY <1>k, <1>8 DEF poolVars
<1>9. ASSUME NEW c \in Callers, Invalid(c) \/ PoolPoisoned(c) \/ PopPanics(c) \/ Return(c)
      PROVE  active' # <<>> /\ Last(active') = mine'[e]
  BY <1>2, <1>9 DEF Invalid, PoolPoisoned, PopPanics, Return
<1> QED BY <1>1, <1>3, <1>4, <1>5, <1>6, <1>7, <1>8, <1>9 DEF PoolNext, Spawn
---------------------------------------------------------------------------
(* The strengthening holds in every state.                                 *)
THEOREM PoolHolds == PoolSpec => []PoolInv
<1>1. PoolInv /\ [PoolNext]_poolVars => PoolInv'
  BY TypeStep, HandlesStep, CallersStep, AloneStep DEF PoolInv
<1> QED BY InitInv, <1>1, PTL DEF PoolSpec

(* A handle is in one place, and every running task has one.               *)
THEOREM HandlesAreConserved == PoolSpec => []HandlesConserved
<1>1. PoolInv => HandlesConserved
  BY DEF PoolInv
<1> QED BY PoolHolds, <1>1, PTL

(* One caller alone takes the handle it pushed.                            *)
THEOREM AloneTakesItsOwn == PoolSpec => []AloneJustPushed
<1>1. PoolInv => AloneJustPushed
  BY DEF PoolInv
<1> QED BY PoolHolds, <1>1, PTL

(* As many tasks run as max_parallel and the waiting callers allow: each   *)
(* has its handle in the pool, which is bounded, or in a waiting caller's  *)
(* hands.                                                                  *)
THEOREM TasksAreBounded == PoolSpec => []TasksBounded
<1>1. ASSUME PoolInv PROVE TasksBounded
  <2> DEFINE Running == {id \in Spawned : task[id] = "running"}
             Waiting == {c \in Callers : at[c] = "waiting"}
  <2>1. /\ active \in Seq(Ids) /\ Len(active) \in Nat /\ session.max_parallel \in Nat
        /\ Len(active) <= session.max_parallel
        /\ Running \subseteq ToSet(active) \cup Held
        /\ \A c \in Callers : at[c] = "waiting" <=> handle[c] # NoSubagent
    BY <1>1, PoolAssumption DEF PoolInv, PoolTypeOK, CallersInv, HandlesConserved
  <2>2. IsFiniteSet(ToSet(active)) /\ Cardinality(ToSet(active)) <= Len(active)
    <3>1. active \in Surjection(1..Len(active), ToSet(active))
      BY <2>1 DEF Surjection, ToSet
    <3>2. IsFiniteSet(1..Len(active)) /\ Cardinality(1..Len(active)) = Len(active)
      <4> DEFINE n == Len(active)
      <4>1. n \in Nat
        BY <2>1
      <4>2. IsFiniteSet(1..n) /\ Cardinality(1..n) = IF 1 > n THEN 0 ELSE n - 1 + 1
        <5> HIDE DEF n
        <5> QED BY <4>1, FS_Interval
      <4> HIDE DEF n
      <4>3. Cardinality(1..n) = n
        BY <4>1, <4>2
      <4> QED BY <4>2, <4>3 DEF n
    <3> QED BY <3>1, <3>2, FS_Surjection
  <2>3. IsFiniteSet(Waiting)
    BY PoolAssumption, FS_Subset
  <2>4. IsFiniteSet(Held) /\ Cardinality(Held) <= Cardinality(Waiting)
    <3> DEFINE f == [c \in Waiting |-> handle[c]]
    <3>1. f \in Surjection(Waiting, Held)
      BY <2>1 DEF Surjection, Held
    <3> QED BY <2>3, <3>1, FS_Surjection
  <2>5. /\ IsFiniteSet(ToSet(active) \cup Held)
        /\ Cardinality(ToSet(active) \cup Held)
             <= Cardinality(ToSet(active)) + Cardinality(Held)
    <3>1. IsFiniteSet(ToSet(active) \cap Held)
      BY <2>2, FS_Subset
    <3>2. /\ Cardinality(ToSet(active)) \in Nat /\ Cardinality(Held) \in Nat
          /\ Cardinality(ToSet(active) \cap Held) \in Nat
      BY <2>2, <2>4, <3>1, FS_CardinalityType
    <3>3. /\ IsFiniteSet(ToSet(active) \cup Held)
          /\ Cardinality(ToSet(active) \cup Held)
               = Cardinality(ToSet(active)) + Cardinality(Held) - Cardinality(ToSet(active) \cap Held)
      BY <2>2, <2>4, FS_Union
    <3> QED BY <3>2, <3>3
  <2>6. IsFiniteSet(Running) /\ Cardinality(Running) <= Cardinality(ToSet(active) \cup Held)
    BY <2>1, <2>5, FS_Subset
  <2>7. /\ Cardinality(Running) \in Nat /\ Cardinality(Waiting) \in Nat /\ Cardinality(Held) \in Nat
        /\ Cardinality(ToSet(active)) \in Nat /\ Cardinality(ToSet(active) \cup Held) \in Nat
    BY <2>2, <2>3, <2>4, <2>5, <2>6, FS_CardinalityType
  <2>8. Cardinality(Running) <= session.max_parallel + Cardinality(Waiting)
    <3> HIDE DEF Running, Waiting
    <3> QED BY <2>1, <2>2, <2>4, <2>5, <2>6, <2>7
  <2> QED BY <2>1, <2>8 DEF TasksBounded
<1> QED BY PoolHolds, <1>1, PTL
=============================================================================
