------------------------------ MODULE LlmStream ------------------------------
(***************************************************************************)
(* One completion of the agent loop: llm_call_with_retry around cps-llm's  *)
(* complete_streaming.  The server answers with server-sent events; the    *)
(* network cuts them into chunks wherever it likes, and may end the body   *)
(* or break the connection at any point.                                   *)
(*                                                                         *)
(*   pc        "over" between calls; "sending" before the answer, "parsing"*)
(*             while the buffer may hold an event, "event" while the lines *)
(*             of one are processed, "reading" while it awaits a chunk,    *)
(*             "delay" before a retry                                      *)
(*   attempt   index of the attempt                                        *)
(*   result    how the call ended                                          *)
(*   script    what the server answers in this attempt                     *)
(*   wire      the part of it that has not arrived                         *)
(*   buffer    what has arrived and is not part of a processed event       *)
(*   lines     what the lines of the event say that are still to come      *)
(*   assembler the StreamAssembler                                         *)
(*   heard     the chunks the callback was given (history variable)        *)
(*   closed    the body has ended                                          *)
(***************************************************************************)
EXTENDS StreamAssembler

CONSTANTS
  Scripts,          \* what a server may answer: [blocks, crlf], a block being
                    \* a sequence of payloads, one for each of its lines
  TextFragments,    \* the fragments of text in them
  Retries           \* transient_retries

SaidIn(s) == UNION {Range(s.blocks[k]) : k \in DOMAIN s.blocks}

ASSUME StreamAssumption ==
  /\ Retries \in Nat
  /\ \A s \in Scripts :
       /\ s.crlf \in BOOLEAN
       /\ s.blocks \in Seq(Seq(SaidIn(s)))
       /\ \A p \in SaidIn(s) :
            /\ DOMAIN p = {"kind", "content", "tool_calls", "finish_reason", "usage"}
            /\ p.content \in Seq(TextFragments)
            /\ p.tool_calls # None => p.tool_calls \in Seq(Range(p.tool_calls))
            /\ p.tool_calls # None => \A d \in Range(p.tool_calls) :
                 /\ DOMAIN d = {"index", "id", "name", "arguments"}
                 /\ d.index \in Nat \cup {None} /\ d.arguments \in Seq(TextFragments)

VARIABLES pc, attempt, result, script, wire, buffer, lines, assembler, heard, closed

vars == <<pc, attempt, result, script, wire, buffer, lines, assembler, heard, closed>>

---------------------------------------------------------------------------
(* Bytes.  A line is in three pieces: cut within the first, no data: is    *)
(* there to be seen; cut within the second, its payload is incomplete.     *)

Byte(piece, payload) == [piece |-> piece, payload |-> payload]

LF == Byte("lf", None)
CR == Byte("cr", None)

EncodedLine(payload, eol) ==
  [k \in 1..3 |-> Byte(<<"start", "middle", "end">>[k], payload)] \o eol

Encoded(s) ==
  LET eol == IF s.crlf THEN <<CR, LF>> ELSE <<LF>>
      block(b) == FlattenSeq([k \in DOMAIN b |-> EncodedLine(b[k], eol)]) \o eol
  IN  FlattenSeq([k \in DOMAIN s.blocks |-> block(s.blocks[k])])

Encodings == [s \in Scripts |-> Encoded(s)]

Cut(payload) ==
  IF payload.kind \in {"comment", "empty"} THEN payload
  ELSE [payload EXCEPT !.kind = "broken"]

\* What block.lines() and the data: prefix leave of the bytes: a line is cut
\* within its payload where they end.
PayloadAt(bytes, i) ==
  IF bytes[i].piece # "middle" THEN <<>>
  ELSE <<IF i < Len(bytes) THEN bytes[i].payload ELSE Cut(bytes[i].payload)>>

Payloads(bytes) == FlattenSeq([i \in DOMAIN bytes |-> PayloadAt(bytes, i)])

\* find_event_boundary: an empty line, of either kind, whichever is first.
Delimiters == {<<LF, LF>>, <<CR, LF, CR, LF>>}

Boundaries(bytes) ==
  {b \in (DOMAIN bytes) \X {2, 4} :
     /\ b[1] + b[2] - 1 <= Len(bytes)
     /\ SubSeq(bytes, b[1], b[1] + b[2] - 1) \in Delimiters}

Boundary(bytes) ==
  CHOOSE b \in Boundaries(bytes) : \A other \in Boundaries(bytes) : b[1] <= other[1]

---------------------------------------------------------------------------
(* How an attempt ends.                                                    *)

Transient(error) ==
  error \in {"Timeout", "Connection", "RateLimit", "Server", "BadRequestExpecting"}

Reply(kind, reply) == [kind |-> kind, reply |-> reply]

\* (mistake: retries are not counted)
FailsUncounted(error) ==
  /\ pc' = IF Transient(error) THEN "delay" ELSE "over"
  /\ result' = IF Transient(error) THEN result ELSE Reply(error, None)
  /\ UNCHANGED <<attempt, script, wire>>

Fails(error) ==
  LET again == Transient(error) /\ attempt < Retries IN
  /\ pc' = IF again THEN "delay" ELSE "over"
  /\ result' = IF again THEN result ELSE Reply(error, None)
  /\ attempt' = IF again THEN attempt + 1 ELSE attempt
  /\ UNCHANGED <<script, wire>>

Returns(a) ==
  /\ pc' = "over"
  /\ result' = Reply("reply", Finalize(a))
  /\ UNCHANGED <<attempt, script, wire>>

Init ==
  /\ pc = "over"
  /\ attempt = 0
  /\ result = Reply("none", None)
  /\ script = None
  /\ wire = <<>>
  /\ buffer = <<>>
  /\ lines = <<>>
  /\ assembler = NewAssembler
  /\ heard = <<>>
  /\ closed = FALSE

---------------------------------------------------------------------------
Call ==
  /\ pc = "over"
  /\ pc' = "sending"
  /\ attempt' = 0
  /\ result' = Reply("none", None)
  /\ UNCHANGED <<script, wire, buffer, lines, assembler, heard, closed>>

\* No answer in time, no connection, or a status that is no success.
SendFails(error) ==
  /\ pc = "sending"
  /\ Fails(error)
  /\ UNCHANGED <<buffer, lines, assembler, heard, closed>>

Answer(s) ==
  /\ pc = "sending"
  /\ pc' = "reading"
  /\ script' = s
  /\ wire' = Encodings[s]
  /\ buffer' = <<>>
  /\ lines' = <<>>
  /\ assembler' = NewAssembler
  /\ heard' = <<>>
  /\ closed' = FALSE
  /\ UNCHANGED <<attempt, result>>

Arrives(n) ==
  /\ pc = "reading"
  /\ n <= Len(wire)
  /\ buffer' = buffer \o SubSeq(wire, 1, n)
  /\ wire' = SubSeq(wire, n + 1, Len(wire))
  /\ pc' = "parsing"
  /\ UNCHANGED <<attempt, result, script, lines, assembler, heard, closed>>

\* The next event in the buffer is taken out.
Process ==
  LET b == Boundary(buffer) IN
  /\ pc = "parsing"
  /\ Boundaries(buffer) # {}
  /\ buffer' = SubSeq(buffer, b[1] + b[2], Len(buffer))
  /\ lines' = Payloads(SubSeq(buffer, 1, b[1] - 1))
  /\ pc' = "event"
  /\ UNCHANGED <<attempt, result, script, wire, assembler, heard, closed>>

\* process_event_block, line by line, as the callback is called: [DONE] ends the
\* reply, the event or not; an unreadable payload ends it with an error.
Unreadable(payload) ==
  \/ payload.kind = "broken"
  \/ ParseOutcome(payload) = "data" /\ IngestFails(StreamChunk(payload))

SkipLine ==
  /\ ParseOutcome(Head(lines)) = "skip"
  /\ lines' = Tail(lines)
  /\ UNCHANGED <<pc, attempt, result, script, wire, assembler, heard>>

DataLine ==
  LET chunk == StreamChunk(Head(lines)) IN
  /\ ParseOutcome(Head(lines)) = "data"
  /\ ~Unreadable(Head(lines))
  /\ lines' = Tail(lines)
  /\ assembler' = Ingest(assembler, chunk)
  /\ heard' = Append(heard, chunk)
  /\ UNCHANGED <<pc, attempt, result, script, wire>>

DoneLine ==
  /\ ParseOutcome(Head(lines)) = "done"
  /\ Returns(assembler)
  /\ UNCHANGED <<lines, assembler, heard>>

UnreadableLine ==
  /\ Unreadable(Head(lines))
  /\ Fails("Malformed")
  /\ UNCHANGED <<lines, assembler, heard>>

ProcessLine ==
  /\ pc = "event"
  /\ lines # <<>>
  /\ SkipLine \/ DataLine \/ DoneLine \/ UnreadableLine
  /\ UNCHANGED <<buffer, closed>>

\* (mistake: one event of a chunk is processed)
EventOverOne ==
  /\ pc = "event"
  /\ lines = <<>>
  /\ IF closed THEN Returns(assembler)
     ELSE pc' = "reading" /\ UNCHANGED <<attempt, result, script, wire>>
  /\ UNCHANGED <<buffer, lines, assembler, heard, closed>>

\* The next event is looked for, or the stream is over.
EventOver ==
  /\ pc = "event"
  /\ lines = <<>>
  /\ IF closed THEN Returns(assembler)
     ELSE pc' = "parsing" /\ UNCHANGED <<attempt, result, script, wire>>
  /\ UNCHANGED <<buffer, lines, assembler, heard, closed>>

\* (mistake: what looks like the end of a line is processed at once)
AwaitChunkEager ==
  /\ pc = "parsing"
  /\ Boundaries(buffer) = {}
  /\ IF \E p \in Range(Payloads(buffer)) : Unreadable(p) THEN Fails("Malformed")
     ELSE pc' = "reading" /\ UNCHANGED <<attempt, result, script, wire>>
  /\ UNCHANGED <<buffer, lines, assembler, heard, closed>>

AwaitChunk ==
  /\ pc = "parsing"
  /\ Boundaries(buffer) = {}
  /\ pc' = "reading"
  /\ UNCHANGED <<attempt, result, script, wire, buffer, lines, assembler, heard, closed>>

\* The body ends, all of it sent or not; what is left in the buffer counts as
\* an event, whatever its status.
BodyEnds ==
  /\ pc = "reading"
  /\ closed' = TRUE
  /\ lines' = Payloads(buffer)
  /\ pc' = "event"
  /\ UNCHANGED <<attempt, result, script, wire, buffer, assembler, heard>>

ReadFails(error) ==
  /\ pc = "reading"
  /\ Fails(error)
  /\ UNCHANGED <<buffer, lines, assembler, heard, closed>>

Retry ==
  /\ pc = "delay"
  /\ pc' = "sending"
  /\ UNCHANGED <<attempt, result, script, wire, buffer, lines, assembler, heard, closed>>

---------------------------------------------------------------------------
SendErrors ==
  {"Timeout", "Connection", "RateLimit", "Server", "BadRequestExpecting",
   "BadRequest", "Unauthorized"}

Continue ==
  \/ \E error \in SendErrors : SendFails(error)
  \/ \E s \in Scripts : Answer(s)
  \/ \E n \in 1..Len(wire) : Arrives(n)
  \/ Process
  \/ ProcessLine
  \/ EventOver
  \/ AwaitChunk
  \/ BodyEnds
  \/ \E error \in {"Timeout", "Connection"} : ReadFails(error)
  \/ Retry

Next == Call \/ Continue

Spec == Init /\ [][Next]_vars

(* Every await ends: the request, the wait for a chunk and the delay each  *)
(* have a timeout.                                                         *)
FairSpec == Spec /\ WF_vars(Continue)

---------------------------------------------------------------------------
Kinds == {"none", "reply", "Malformed"} \cup SendErrors

ReplyFields == {"content", "tool_calls", "finish_reason", "usage"}

TypeOK ==
  /\ pc \in {"over", "sending", "reading", "parsing", "event", "delay"}
  /\ attempt \in 0..Retries
  /\ result.kind \in Kinds
  /\ IF result.kind = "reply" THEN DOMAIN result.reply = ReplyFields ELSE result.reply = None
  /\ script \in Scripts \cup {None}
  /\ DOMAIN assembler = ReplyFields
  /\ DOMAIN assembler.tool_calls \subseteq 0..(MAX_PARALLEL_TOOL_CALLS - 1)
  /\ closed \in BOOLEAN

\* What has arrived in this attempt, and what it says up to [DONE].
Arrived == SubSeq(Encodings[script], 1, Len(Encodings[script]) - Len(wire))

UpToDone(payloads) ==
  LET done == {k \in DOMAIN payloads : payloads[k].kind = "done"}
  IN  IF done = {} THEN payloads ELSE SubSeq(payloads, 1, Min(done) - 1)

Chunks(payloads) ==
  FlattenSeq([k \in DOMAIN payloads |->
    IF ParseOutcome(payloads[k]) = "data" THEN <<StreamChunk(payloads[k])>> ELSE <<>>])

(* The reply is what the server said up to [DONE] or to the end of the     *)
(* body, however the network cut it, whatever an earlier attempt had       *)
(* received; the callback heard all of it, once and in order.              *)
AssembledReply ==
  pc = "over" /\ result.kind = "reply" =>
    LET said == UpToDone(Payloads(Arrived)) IN
      /\ \A k \in DOMAIN said : ~Unreadable(said[k])
      /\ result.reply = WholeReply(Chunks(said))
      /\ heard = Chunks(said)

(* No event waits in the buffer while the next chunk is waited for: the    *)
(* callback has then heard every event that has arrived as a whole.        *)
EventsArrived ==
  LET ends == {b[1] : b \in Boundaries(Arrived)}
  IN  IF ends = {} THEN <<>> ELSE SubSeq(Arrived, 1, Max(ends))

NothingHeldBack == pc = "reading" => heard = Chunks(Payloads(EventsArrived))

(* A reply is malformed only if the server made it so: a chunk boundary    *)
(* never does, only an unreadable payload or a body that ends within one.  *)
MalformedIsReal ==
  pc = "over" /\ result.kind = "Malformed" =>
    LET cut == Arrived # <<>> /\ Last(Arrived).piece = "middle"
        said == UpToDone(Payloads(IF cut /\ ~closed THEN Front(Arrived) ELSE Arrived))
    IN  \E k \in DOMAIN said : Unreadable(said[k])

(* A call returns: every attempt ends by its deadlines, and the attempts   *)
(* are counted.                                                            *)
CallReturns == pc # "over" ~> pc = "over"

---------------------------------------------------------------------------
(* Why the reply is what the server said: in an attempt, and at its end,   *)
(* the bytes that arrived are those taken out as events and the buffer,    *)
(* what the former say is what was processed and the lines still to come,  *)
(* and the assembler holds what the callback heard.                        *)
InAttempt ==
  \/ pc \in {"reading", "parsing", "event"}
  \/ pc = "over" /\ result.kind \in {"reply", "Malformed"}

AfterEvent(bytes, n) ==
  \/ n = 0
  \/ \E d \in {2, 4} : d <= n /\ SubSeq(bytes, n - d + 1, n) \in Delimiters

BytesInv ==
  LET bytes == Encodings[script]
      arrived == Len(bytes) - Len(wire)
      taken == arrived - Len(buffer)
  IN  /\ script \in Scripts
      /\ taken \in Nat /\ arrived \in Nat
      /\ wire = SubSeq(bytes, arrived + 1, Len(bytes))
      /\ buffer = SubSeq(bytes, taken + 1, arrived)
      /\ AfterEvent(bytes, taken)

\* The bytes of the events so far: all that arrived, once the body has ended.
EventBytes == SubSeq(Arrived, 1, Len(Arrived) - (IF closed THEN 0 ELSE Len(buffer)))

Processed == SubSeq(Payloads(EventBytes), 1, Len(Payloads(EventBytes)) - Len(lines))

LinesInv ==
  /\ Len(lines) \in 0..Len(Payloads(EventBytes))
  /\ lines = SubSeq(Payloads(EventBytes), Len(Processed) + 1, Len(Payloads(EventBytes)))
  /\ heard = Chunks(Processed)
  /\ \A k \in DOMAIN Processed : Processed[k].kind # "done" /\ ~Unreadable(Processed[k])

PhaseInv ==
  /\ pc \in {"reading", "parsing"} => lines = <<>> /\ ~closed
  /\ pc = "reading" => Boundaries(buffer) = {}
  /\ pc = "over" /\ result.kind = "Malformed" => lines # <<>> /\ Unreadable(Head(lines))
  /\ pc = "over" /\ result.kind = "reply" =>
       /\ IF lines = <<>> THEN closed ELSE Head(lines).kind = "done"
       /\ result.reply = Finalize(assembler)

AssemblerInv ==
  /\ assembler = [WholeReply(heard) EXCEPT !.tool_calls = assembler.tool_calls]
  /\ \A i \in 0..(MAX_PARALLEL_TOOL_CALLS - 1) :
       Slot(assembler.tool_calls, i) = WholeCall(Fragments(heard, i))

StreamInv == InAttempt => BytesInv /\ LinesInv /\ PhaseInv /\ AssemblerInv
=============================================================================
