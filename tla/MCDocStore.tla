----------------------------- MODULE MCDocStore -----------------------------
(* Instances of DocStore for TLC. *)
EXTENDS DocStore, TLC

CONSTANTS d1, d2, c1, c2, x, y

\* One line, and four lines whose last is the hit: replacing the longer text by
\* the shorter leaves a captured line number past the end, and past a slice.
MCBodies == {<<x>>, <<y, y, y, x>>}
MCPatterns == {{x}}

\* Two texts with a hit on the same line, for the stale handle.
MCTwoLines == {<<x>>, <<y>>}
MCAnyLine == {{x, y}}

\* A line both texts have, one that only the longer has, one that none has.
MCMatchIds ==
  {MatchId(d, n, 0) : d \in Docs, n \in {1, 4, 7}}

\* Seven bytes are one token of the fallback, and four such lines are seven.
MCBytes == [l \in Lines |-> 7]

\* A line in capitals, and one that is a Markdown header.
Capitals ==
  [blank |-> FALSE, hashes |-> 0, spaced |-> FALSE, indented |-> FALSE, colon |-> FALSE,
   letters |-> "upper"]
MCShape ==
  [l \in Lines |-> IF l = x THEN Capitals
                           ELSE [Capitals EXCEPT !.hashes = 2, !.spaced = TRUE, !.letters = "mixed"]]

Symmetry == Permutations(Clients) \union Permutations(Docs)
=============================================================================
