------------------------------ MODULE DocText ------------------------------
(***************************************************************************)
(* The retrieval arithmetic of cps-doc-store on a document that is a       *)
(* sequence of lines.  What a line is does not matter to most of it: a     *)
(* regular expression is the set of the lines it matches, and a tokenizer  *)
(* is the number of tokens (or bytes) it gives a line.                     *)
(*                                                                         *)
(* Rust indices are usize and the code saturates its additions; every sum  *)
(* here is then cut to the length of the document, which a usize holds, so *)
(* natural numbers give the same result.                                   *)
(***************************************************************************)
EXTENDS Naturals, Sequences, FiniteSets

LesserOf(m, n) == IF m <= n THEN m ELSE n

\* usize::saturating_sub
Monus(m, n) == IF m >= n THEN m - n ELSE 0

---------------------------------------------------------------------------
(* doc_grep: a hit is a 1-based line number.  The loop stops once cap hits *)
(* are collected, so a line is reported when it matches and fewer than cap *)
(* matching lines come before it; that count is also the index I of its    *)
(* match id.                                                               *)

HitsBefore(lines, pattern, n) ==
  Cardinality({m \in 1..(n - 1) : lines[m] \in pattern})

HitLines(lines, pattern, cap) ==
  {n \in 1..Len(lines) : /\ lines[n] \in pattern
                         /\ HitsBefore(lines, pattern, n) < cap}

---------------------------------------------------------------------------
(* doc_expand_around: the half-open 0-based slice lines[start..end].       *)

SliceStart(line, before) == Monus(Monus(line, 1), before)

SliceEnd(lines, line, after) == LesserOf(Monus(line, 1) + after + 1, Len(lines))

\* The text of lines[start..end]; Rust panics when start > end, which the
\* caller has to rule out.
Slice(lines, start, end) == SubSeq(lines, start + 1, end)

\* Some line of the text is this one.
Shows(text, line) == \E i \in 1..Len(text) : text[i] = line

---------------------------------------------------------------------------
(* doc_preview, doc_section and doc_lines.  A weight gives each line a     *)
(* number; lines are taken from the front of a text while their weights    *)
(* add up to max at most.                                                  *)

Total(weight, lines) ==
  LET sum[n \in 0..Len(lines)] == IF n = 0 THEN 0 ELSE sum[n - 1] + weight[lines[n]]
  IN  sum[Len(lines)]

Fitting(weight, lines, max) ==
  Cardinality({n \in 1..Len(lines) : Total(weight, SubSeq(lines, 1, n)) <= max})

\* The number of lines before the first one that is in the set.
Leading(lines, set) ==
  Cardinality({n \in 1..Len(lines) : \A m \in 1..n : lines[m] \notin set})

\* The lines start to end, numbered from 1, end excluded.
LineRange(lines, start, end) ==
  IF start > Len(lines) THEN <<>>
                        ELSE SubSeq(lines, start, LesserOf(end - 1, Len(lines)))

---------------------------------------------------------------------------
(* Match ids and answers.  A match id "{doc}:L{line}:I{index}" is read     *)
(* unambiguously from its right end, so it is the triple of its parts.  An *)
(* answer is a Result of the API: its status, the match ids of a grep, the *)
(* lines of an expansion or of another read.                               *)

Answer(status, ids, text) == [status |-> status, ids |-> ids, text |-> text]
Failure(status)           == Answer(status, {}, <<>>)

MatchId(d, line, index) == [doc |-> d, line |-> line, index |-> index]

\* The ids of the hits of a grep with the given cap.
HitIds(d, lines, pattern, cap) ==
  {MatchId(d, n, HitsBefore(lines, pattern, n)) :
     n \in HitLines(lines, pattern, cap)}

=============================================================================
