---------------------------- MODULE MCDocRunner ----------------------------
(***************************************************************************)
(* DocRunner with programs whose output is larger than the pipe, reaches   *)
(* the limit, goes beyond it, or is on stderr only; one that fails, one    *)
(* that never ends.                                                        *)
(***************************************************************************)
EXTENDS DocRunner

CONSTANTS d1

Program(out, err, exit) == [stdout |-> out, stderr |-> err, exit |-> exit]

MCPrograms ==
  {Program(2, 1, "success"), Program(5, 3, "success"), Program(0, 2, "success"),
   Program(0, 0, "success"), Program(3, 0, "failure"), Program(1, 1, "never")}

Request(p, refused, schema, parses) ==
  [doc |-> d1, program |-> p, refused |-> refused, schema |-> schema, parses |-> parses]

MCRequests ==
  {Request(p, FALSE, FALSE, FALSE) : p \in MCPrograms} \cup
  {Request(Program(2, 1, "success"), TRUE, FALSE, FALSE)} \cup
  {Request(Program(2, 1, "success"), FALSE, TRUE, parses) : parses \in BOOLEAN}
=============================================================================
