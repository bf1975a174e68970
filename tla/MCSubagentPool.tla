--------------------------- MODULE MCSubagentPool ---------------------------
(***************************************************************************)
(* Instances of SubagentPool for TLC.                                      *)
(***************************************************************************)
EXTENDS SubagentPool

CONSTANTS c1, c2

Session(n, callers, others) ==
  [max_parallel |-> n, callers |-> callers, others |-> others]

\* Two callers and others in a pool of one and of two; one that has it alone.
MCSessions ==
  {Session(1, {c1, c2}, TRUE), Session(2, {c1, c2}, TRUE), Session(2, {c1}, FALSE)}
=============================================================================
