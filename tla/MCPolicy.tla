------------------------------ MODULE MCPolicy ------------------------------
(***************************************************************************)
(* Policy with kubectl and aws commands of every class of risk, a shell,   *)
(* and evidence from a known and an unknown document, a schema and the     *)
(* web.                                                                    *)
(***************************************************************************)
EXTENDS Policy

Word(w) ==
  [raw |-> w, lower |-> w, parts |-> {w}, letters |-> {}, key |-> w, base |-> w,
   flag |-> FALSE, path |-> FALSE, meta |-> FALSE, spaced |-> FALSE]

Flag(w) == [Word(w) EXCEPT !.flag = TRUE]

MCArguments ==
  {Word(w) : w \in {"kubectl", "aws", "get", "rollout", "scale", "rm"}} \cup
  {Flag(w) : w \in {"-n", "--dry-run"}} \cup
  {[Flag("-rf") EXCEPT !.letters = {"r", "f"}],
   [Word("/bin/sh") EXCEPT !.base = "sh", !.parts = {"bin", "sh"}, !.path = TRUE],
   [Word("a;b") EXCEPT !.parts = {"a", "b"}, !.meta = TRUE]}

MCPreflights == {<<Word("kubectl"), Word("get")>>, <<Word("kubectl"), Flag("--dry-run")>>}

MCAssumptions == {{"default", "namespace"}, {"cluster", "region"}}

Item(kind, confidence, known, mentions) ==
  [kind |-> kind, confidence |-> confidence, known |-> known, mentions |-> mentions]

MCEvidence ==
  {Item("LocalDoc", "High", TRUE, {"get", "scale", "-n"}),
   Item("LocalDoc", "Low", FALSE, {}),
   Item("LocalSchema", "High", TRUE, {"rollout", "-n"}),
   Item("Web", "Medium", FALSE, {"rm", "-rf"})}
=============================================================================
