--------------------------- MODULE ConversationAbs --------------------------
(***************************************************************************)
(* What the conversation of the agent promises its human: what was said    *)
(* stays said, in the order it was said; the agent speaks only while it    *)
(* works on an input; and it hands over nothing but proposals the policy   *)
(* accepts.                                                                *)
(***************************************************************************)
EXTENDS Naturals, Sequences

CONSTANTS
  Acceptable,   \* proposals the policy does not reject
  NoOffer

VARIABLES
  talk,    \* who said what: role, tool calls and call answered
  phase,   \* "waiting" for the human, "working", or "over"
  offer    \* the proposal the human is asked to review

vars == <<talk, phase, offer>>

Init ==
  /\ talk = <<>>
  /\ phase = "waiting"
  /\ offer = NoOffer

Grows ==
  /\ Len(talk) < Len(talk')
  /\ \A i \in 1..Len(talk) : talk'[i] = talk[i]

(* The human speaks: an input that is to be worked on, or a cancel. *)
Hear ==
  /\ phase = "waiting"
  /\ Grows
  /\ Len(talk') = Len(talk) + 1
  /\ talk'[Len(talk) + 1].role = "user"
  /\ phase' \in {"working", "waiting"}
  /\ offer' = NoOffer

(* The agent goes on, and may come to an end: with an offer, a question or *)
(* a failure.                                                              *)
Work ==
  /\ phase = "working"
  /\ Grows
  /\ phase' = "working"
  /\ UNCHANGED offer

Return ==
  /\ phase = "working"
  /\ Grows
  /\ phase' = "waiting"
  /\ offer' \in Acceptable \cup {NoOffer}

End ==
  /\ phase \in {"waiting", "working"}
  /\ talk' = talk \/ Grows
  /\ phase' = "over"
  /\ offer' = NoOffer

Next == Hear \/ Work \/ Return \/ End

Spec == Init /\ [][Next]_vars
=============================================================================
