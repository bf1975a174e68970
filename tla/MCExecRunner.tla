---------------------------- MODULE MCExecRunner ----------------------------
(***************************************************************************)
(* Instances of ExecRunner for TLC: one command under every kind of risk,  *)
(* and what a human may type of it.                                        *)
(***************************************************************************)
EXTENDS ExecRunner

Run == <<"run">>

MCLines == {Run, <<"run", Blank>>, Yes, <<Blank, "yes">>, <<>>}

MCProposals == {[text |-> Run, risk |-> r] : r \in {"Low", "High", "Critical"}}
=============================================================================
