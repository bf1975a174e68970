--------------------------- MODULE StreamAssembler ---------------------------
(***************************************************************************)
(* cps-llm's reading of one data: payload and its assembly of a streamed   *)
(* reply.  A payload is what serde makes of the JSON text:                 *)
(*                                                                         *)
(*   kind        "data", "done", "empty", or "broken" when it is no JSON;  *)
(*               "comment" is a line without the data: field               *)
(*   content, tool_calls, finish_reason, usage                             *)
(*               of the first choice, None (<<>> for text) when absent     *)
(*                                                                         *)
(* Text is a sequence of fragments, so that joining it is concatenation.   *)
(***************************************************************************)
EXTENDS Integers, Sequences, SequencesExt

CONSTANTS
  MAX_PARALLEL_TOOL_CALLS,  \* 128 in the code
  None

ASSUME AssemblerAssumption == MAX_PARALLEL_TOOL_CALLS \in Nat

---------------------------------------------------------------------------
(* parse_event: a fragment without an index has its place in the event; a  *)
(* payload that says nothing is skipped.                                   *)

Deltas(payload) ==
  IF payload.tool_calls = None THEN <<>>
  ELSE [i \in DOMAIN payload.tool_calls |->
         [payload.tool_calls[i] EXCEPT !.index = IF @ = None THEN i - 1 ELSE @]]

StreamChunk(payload) ==
  [content |-> payload.content, deltas |-> Deltas(payload),
   finish_reason |-> payload.finish_reason, usage |-> payload.usage]

Says(payload) ==
  \/ payload.content # <<>>
  \/ payload.tool_calls # None
  \/ payload.finish_reason # None
  \/ payload.usage # None

ParseOutcome(payload) ==
  IF payload.kind \in {"done", "broken"} THEN payload.kind
  ELSE IF payload.kind = "data" /\ Says(payload) THEN "data"
  ELSE "skip"

---------------------------------------------------------------------------
(* StreamAssembler: the calls by their index, each with what came last for *)
(* its id and its name and all that came for its arguments.                *)

NewAssembler ==
  [content |-> <<>>, tool_calls |-> [i \in {} |-> None], finish_reason |-> None,
   usage |-> None]

PartialToolCall == [id |-> None, name |-> None, arguments |-> <<>>]

Given(new, old) == IF new = None THEN old ELSE new

Slot(calls, i) == IF i \in DOMAIN calls THEN calls[i] ELSE PartialToolCall

\* (mistake: a fragment replaces the arguments that came before)
IngestDeltaReplacing(calls, d) ==
  [i \in DOMAIN calls \cup {d.index} |->
     IF i = d.index
     THEN [id |-> Given(d.id, Slot(calls, i).id),
           name |-> Given(d.name, Slot(calls, i).name),
           arguments |-> d.arguments]
     ELSE calls[i]]

IngestDelta(calls, d) ==
  [i \in DOMAIN calls \cup {d.index} |->
     IF i = d.index
     THEN [id |-> Given(d.id, Slot(calls, i).id),
           name |-> Given(d.name, Slot(calls, i).name),
           arguments |-> Slot(calls, i).arguments \o d.arguments]
     ELSE calls[i]]

IngestFails(chunk) ==
  \E i \in DOMAIN chunk.deltas : chunk.deltas[i].index >= MAX_PARALLEL_TOOL_CALLS

\* The loop over the fragments of a chunk.
IngestDeltas(calls, deltas) ==
  LET after[n \in 0..Len(deltas)] ==
        IF n = 0 THEN calls ELSE IngestDelta(after[n - 1], deltas[n])
  IN  after[Len(deltas)]

\* ingest and set_usage
Ingest(assembler, chunk) ==
  [content |-> assembler.content \o chunk.content,
   tool_calls |-> IngestDeltas(assembler.tool_calls, chunk.deltas),
   finish_reason |-> Given(chunk.finish_reason, assembler.finish_reason),
   usage |-> Given(chunk.usage, assembler.usage)]

Complete(call) == IF call.id # None /\ call.name # None THEN <<call>> ELSE <<>>

\* The complete ones of the calls in their slots, in the order of the slots.
InOrder(slots) == FlattenSeq([k \in DOMAIN slots |-> Complete(slots[k])])

\* finalize: calls without an id or a name, and gaps, are left out.
Finalize(assembler) ==
  [assembler EXCEPT !.tool_calls =
     InOrder([k \in 1..MAX_PARALLEL_TOOL_CALLS |-> Slot(@, k - 1)])]

---------------------------------------------------------------------------
(* The same reply read off the chunks as a whole.                          *)

LastGiven(seq) ==
  LET given == {i \in DOMAIN seq : seq[i] # None}
  IN  IF given = {} THEN None ELSE seq[Max(given)]

Field(seq, f) == [i \in DOMAIN seq |-> seq[i][f]]

Fragments(chunks, index) ==
  LET deltas == FlattenSeq(Field(chunks, "deltas"))
  IN  FlattenSeq([i \in DOMAIN deltas |->
        IF deltas[i].index = index THEN <<deltas[i]>> ELSE <<>>])

WholeCall(fragments) ==
  [id |-> LastGiven(Field(fragments, "id")),
   name |-> LastGiven(Field(fragments, "name")),
   arguments |-> FlattenSeq(Field(fragments, "arguments"))]

WholeReply(chunks) ==
  [content |-> FlattenSeq(Field(chunks, "content")),
   tool_calls |-> InOrder([k \in 1..MAX_PARALLEL_TOOL_CALLS |->
                             WholeCall(Fragments(chunks, k - 1))]),
   finish_reason |-> LastGiven(Field(chunks, "finish_reason")),
   usage |-> LastGiven(Field(chunks, "usage"))]
=============================================================================
