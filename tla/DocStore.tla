------------------------------ MODULE DocStore ------------------------------
(***************************************************************************)
(* cps-doc-store: the in-memory document store that the agent, its         *)
(* subagents and the doc runner share through clones of one Arc.           *)
(*                                                                         *)
(*   docs[d]     the StoredDoc under id d, NoDoc before its first insert   *)
(*   matches     the registry of match ids: a function from the registered *)
(*               ids to the MatchPosition each stands for                  *)
(*   scan[c]     what thread c carries from the read-lock half of doc_grep *)
(*               to its write-lock half, NoScan outside a grep             *)
(*   reply[c]    the last answer thread c received                         *)
(*                                                                         *)
(* and two history variables that the code does not have:                  *)
(*                                                                         *)
(*   version[d]  how often d was inserted                                  *)
(*   issued      every handle a grep ever returned, with its line_text and *)
(*               the version of the text it was found in                   *)
(*                                                                         *)
(* Each action is one critical section of the RwLock; the matching between *)
(* the two halves of a grep runs unlocked on a private copy, so it takes   *)
(* place in the second half.                                               *)
(*                                                                         *)
(* Definitions marked "mistake" are the implementation errors the checked  *)
(* properties are tried against; nothing in the specification uses them.   *)
(***************************************************************************)
EXTENDS DocText

CONSTANTS
  Docs,                \* document ids
  Clients,             \* threads that share the store
  Lines,               \* the lines a text is made of
  Bodies,              \* the texts that may be inserted
  Patterns,            \* regular expressions, each the set of lines it matches
  Limits,              \* the max_matches a caller may ask for
  Radii,               \* the before and after a caller may ask for
  MatchIds,            \* what a caller may pass as match_id
  Bytes,               \* the length of each line with its newline
  Shape,               \* what is_heading sees of each line
  Budgets,             \* the max_tokens a caller may ask for
  LineNumbers,         \* the start and end a caller may ask for
  MAX_MATCHES_CAP,     \* 50 in the code
  NoDoc,               \* the absent document
  NoScan,              \* the thread is not between the halves of a grep
  GENERATION_MODULUS,  \* 2^64: the generation is a u64 that wraps
  MaxInserts           \* bound: inserts of one document in a session

(***************************************************************************)
(* A document is never replaced 2^64 times in a session, which is what     *)
(* lets a generation stand for a text.                                     *)
(***************************************************************************)
ASSUME DocStoreAssumption ==
  /\ GENERATION_MODULUS \in Nat \ {0}
  /\ MaxInserts \in 0..GENERATION_MODULUS
  /\ MAX_MATCHES_CAP \in Nat
  /\ Limits \subseteq Nat
  /\ Radii \subseteq Nat
  /\ Bodies \subseteq Seq(Lines)
  /\ Patterns \subseteq SUBSET Lines

ASSUME ReadAssumption ==
  /\ Bytes \in [Lines -> Nat \ {0}]
  /\ Shape \in [Lines -> [blank : BOOLEAN,    \* of white space only
                        hashes : Nat,       \* how many it starts with
                        spaced : BOOLEAN,   \* a space follows them
                        indented : BOOLEAN, \* it starts with white space
                        colon : BOOLEAN,    \* it ends with one, and is not only that
                        letters : {"none", "upper", "mixed"}]]
  /\ Budgets \subseteq Nat
  /\ LineNumbers \subseteq Nat

VARIABLES docs, matches, scan, reply, version, issued

vars == <<docs, matches, scan, reply, version, issued>>

StoredDoc == [raw_text : Bodies, generation : 0..(GENERATION_MODULUS - 1)]

MatchPosition ==
  [doc_id : Docs, line : Nat \ {0}, generation : 0..(GENERATION_MODULUS - 1)]

\* max_matches.min(MAX_MATCHES_CAP)
Cap(limit) == LesserOf(limit, MAX_MATCHES_CAP)

Captured ==
  [doc : Docs, lines : Bodies, generation : 0..(GENERATION_MODULUS - 1),
   pattern : Patterns, cap : {Cap(l) : l \in Limits}, version : Nat]

ASSUME SentinelAssumption ==
  /\ NoDoc \notin StoredDoc
  /\ NoDoc \notin Bodies
  /\ NoScan \notin Captured

Idle(c) == scan[c] = NoScan

---------------------------------------------------------------------------
Init ==
  /\ docs = [d \in Docs |-> NoDoc]
  /\ matches = [id \in {} |-> {}]
  /\ scan = [c \in Clients |-> NoScan]
  /\ reply = [c \in Clients |-> Failure("none")]
  /\ version = [d \in Docs |-> 0]
  /\ issued = {}

---------------------------------------------------------------------------
(* insert: the generation of a first insert is 0, of a replacement the     *)
(* next one; handles into the replaced text are dropped from the registry. *)

\* (mistake: a replacement does not bump the generation)
NextGenerationStuck(d) == 0

NextGeneration(d) ==
  IF docs[d] = NoDoc THEN 0
                     ELSE (docs[d].generation + 1) % GENERATION_MODULUS

\* (mistake: the handles into the replaced text stay registered)
RetainedAll(d) == DOMAIN matches

\* (mistake: the handles into every text are dropped)
RetainedNone(d) == {}

Retained(d) == {id \in DOMAIN matches : matches[id].doc_id # d}

Insert(d, b) ==
  /\ version[d] < MaxInserts
  /\ matches' = [id \in Retained(d) |-> matches[id]]
  /\ docs' = [docs EXCEPT ![d] = [raw_text |-> b, generation |-> NextGeneration(d)]]
  /\ version' = [version EXCEPT ![d] = @ + 1]
  /\ UNCHANGED <<scan, reply, issued>>

---------------------------------------------------------------------------
(* doc_grep, up to the end of its read-lock half.  The pattern is compiled *)
(* first, then a cap of zero answers before the document is looked up.     *)

Answers(c, answer) ==
  /\ reply' = [reply EXCEPT ![c] = answer]
  /\ UNCHANGED <<docs, matches, version>>

GrepBadPattern(c) ==
  /\ Idle(c)
  /\ Answers(c, Failure("InvalidPattern"))
  /\ UNCHANGED <<scan, issued>>

GrepNoneWanted(c, limit) ==
  /\ Idle(c)
  /\ Cap(limit) = 0
  /\ Answers(c, Failure("ok"))
  /\ UNCHANGED <<scan, issued>>

GrepMissing(c, d, limit) ==
  /\ Idle(c)
  /\ Cap(limit) # 0
  /\ docs[d] = NoDoc
  /\ Answers(c, Failure("DocNotFound"))
  /\ UNCHANGED <<scan, issued>>

GrepCapture(c, d, p, limit) ==
  /\ Idle(c)
  /\ Cap(limit) # 0
  /\ docs[d] # NoDoc
  /\ scan' = [scan EXCEPT ![c] =
       [doc |-> d, lines |-> docs[d].raw_text, generation |-> docs[d].generation,
        pattern |-> p, cap |-> Cap(limit), version |-> version[d]]]
  /\ UNCHANGED <<docs, matches, reply, version, issued>>

---------------------------------------------------------------------------
(* doc_grep, its write-lock half: the hits are registered only if the text *)
(* they were found in is still the current one.                            *)

\* (mistake: only the document's presence is looked at)
CurrentIfPresent(s) == docs[s.doc] # NoDoc

Current(s) == docs[s.doc] # NoDoc /\ docs[s.doc].generation = s.generation

FoundIds(s) == HitIds(s.doc, s.lines, s.pattern, s.cap)

Registered(s) ==
  [id \in DOMAIN matches \union FoundIds(s) |->
     IF id \in FoundIds(s)
       THEN [doc_id |-> s.doc, line |-> id.line, generation |-> s.generation]
       ELSE matches[id]]

GrepRegister(c) ==
  /\ ~Idle(c)
  /\ Current(scan[c])
  /\ matches' = Registered(scan[c])
  /\ issued' = issued \union
       {[id |-> id, version |-> scan[c].version,
         line_text |-> scan[c].lines[id.line]] : id \in FoundIds(scan[c])}
  /\ reply' = [reply EXCEPT ![c] = Answer("ok", FoundIds(scan[c]), <<>>)]
  /\ scan' = [scan EXCEPT ![c] = NoScan]
  /\ UNCHANGED <<docs, version>>

GrepOvertaken(c) ==
  /\ ~Idle(c)
  /\ ~Current(scan[c])
  /\ Answers(c, Failure("ok"))
  /\ scan' = [scan EXCEPT ![c] = NoScan]
  /\ UNCHANGED issued

---------------------------------------------------------------------------
(* doc_expand_around, in the order of its checks.  "panic" is the Rust     *)
(* slice lines[start..end] with start > end.                               *)

\* (mistake: the position's own document is not compared with the caller's)
ExpandStatusAnyDoc(d, id, before, after) ==
  LET pos == matches[id] IN
  IF id \notin DOMAIN matches THEN "MatchNotFound"
  ELSE IF docs[d] = NoDoc THEN "DocNotFound"
  ELSE IF docs[d].generation # pos.generation THEN "MatchNotFound"
  ELSE IF SliceStart(pos.line, before) > SliceEnd(docs[d].raw_text, pos.line, after)
    THEN "panic"
  ELSE "ok"

ExpandStatus(d, id, before, after) ==
  LET pos == matches[id] IN
  IF id \notin DOMAIN matches THEN "MatchNotFound"
  ELSE IF pos.doc_id # d THEN "MatchNotFound"
  ELSE IF docs[d] = NoDoc THEN "DocNotFound"
  ELSE IF docs[d].generation # pos.generation THEN "MatchNotFound"
  ELSE IF SliceStart(pos.line, before) > SliceEnd(docs[d].raw_text, pos.line, after)
    THEN "panic"
  ELSE "ok"

ExpandText(d, id, before, after) ==
  LET text == docs[d].raw_text
      line == matches[id].line
  IN Slice(text, SliceStart(line, before), SliceEnd(text, line, after))

Expand(c, d, id, before, after) ==
  /\ Idle(c)
  /\ LET status == ExpandStatus(d, id, before, after) IN
       Answers(c, IF status = "ok"
                    THEN Answer("ok", {}, ExpandText(d, id, before, after))
                    ELSE Failure(status))
  /\ UNCHANGED <<scan, issued>>

---------------------------------------------------------------------------
(* The reads that need no handle: doc_token_count, doc_preview,            *)
(* doc_section and doc_lines, each under one read lock.  Tokens are those  *)
(* of FallbackTokenizer, a quarter of the bytes, which is in use wherever  *)
(* no tokenizer.json is installed.                                         *)

Tokens(text) == Total(Bytes, text) \div 4

LineTokens == [l \in Lines |-> LET t == Bytes[l] \div 4 IN IF t = 0 THEN 1 ELSE t]

\* A section counts nothing for a blank line that has no token.
SectionTokens == [l \in Lines |-> IF Shape[l].blank THEN Bytes[l] \div 4 ELSE LineTokens[l]]

Preview(text, max) ==
  IF max = 0 THEN <<>>
  ELSE IF Tokens(text) <= max THEN text
  ELSE SubSeq(text, 1, Fitting(LineTokens, text, max))

IsHeading(s) ==
  /\ ~s.blank
  /\ \/ s.hashes \in 1..6 /\ s.spaced
     \/ ~s.indented /\ (s.colon \/ s.letters = "upper")

Headings == {l \in Lines : IsHeading(Shape[l])}

\* The lines before the first heading that matches, all when none does.
Preamble(text, p) == Leading(text, Headings \cap p)

\* From that heading to the next one.
WholeSection(text, p) ==
  LET start == Preamble(text, p) + 1
  IN  SubSeq(text, start, start + Leading(SubSeq(text, start + 1, Len(text)), Headings))

\* A max of 0 is no limit.
Section(text, p, max) ==
  IF Preamble(text, p) = Len(text) THEN <<>>
  ELSE IF max = 0 THEN WholeSection(text, p)
  ELSE SubSeq(WholeSection(text, p), 1, Fitting(SectionTokens, WholeSection(text, p), max))

Reads(c, answer) ==
  /\ Idle(c)
  /\ Answers(c, answer)
  /\ UNCHANGED <<scan, issued>>

ReadText(d, text) ==
  IF docs[d] = NoDoc THEN Failure("DocNotFound") ELSE Answer("ok", {}, text)

\* doc_token_count answers with sizes, never with the text.
DocTokenCount(c, d) == Reads(c, ReadText(d, <<>>))

DocPreview(c, d, max) == Reads(c, ReadText(d, Preview(docs[d].raw_text, max)))

DocSection(c, d, compiles, p, max) ==
  Reads(c, IF compiles THEN ReadText(d, Section(docs[d].raw_text, p, max))
                       ELSE Failure("InvalidPattern"))

DocLines(c, d, start, end) ==
  Reads(c, IF start = 0 \/ end < start THEN Failure("InvalidLineRange")
           ELSE ReadText(d, LineRange(docs[d].raw_text, start, end)))

---------------------------------------------------------------------------
Next ==
  \/ \E d \in Docs, b \in Bodies : Insert(d, b)
  \/ \E c \in Clients : GrepBadPattern(c)
  \/ \E c \in Clients, limit \in Limits : GrepNoneWanted(c, limit)
  \/ \E c \in Clients, d \in Docs, limit \in Limits : GrepMissing(c, d, limit)
  \/ \E c \in Clients, d \in Docs, p \in Patterns, limit \in Limits :
       GrepCapture(c, d, p, limit)
  \/ \E c \in Clients : GrepRegister(c) \/ GrepOvertaken(c)
  \/ \E c \in Clients, d \in Docs, id \in MatchIds, before, after \in Radii :
       Expand(c, d, id, before, after)
  \/ \E c \in Clients, d \in Docs : DocTokenCount(c, d)
  \/ \E c \in Clients, d \in Docs, max \in Budgets : DocPreview(c, d, max)
  \/ \E c \in Clients, d \in Docs, compiles \in BOOLEAN, p \in Patterns, max \in Budgets :
       DocSection(c, d, compiles, p, max)
  \/ \E c \in Clients, d \in Docs, start, end \in LineNumbers : DocLines(c, d, start, end)

Spec == Init /\ [][Next]_vars

---------------------------------------------------------------------------
(* Types.  Lines are numbered from 1, indexes of a result set from 0.      *)

Handles == [doc : Docs, line : Nat \ {0}, index : Nat]

Statuses ==
  {"none", "ok", "InvalidPattern", "DocNotFound", "MatchNotFound", "InvalidLineRange",
   "panic"}

Replies == [status : Statuses, ids : SUBSET Handles, text : Seq(Lines)]

TypeOK ==
  /\ docs \in [Docs -> StoredDoc \union {NoDoc}]
  /\ DOMAIN matches \subseteq Handles
  /\ \A id \in DOMAIN matches : matches[id] \in MatchPosition
  /\ scan \in [Clients -> Captured \union {NoScan}]
  /\ reply \in [Clients -> Replies]
  /\ version \in [Docs -> 0..MaxInserts]
  /\ issued \subseteq [id : Handles, version : 1..MaxInserts, line_text : Lines]

---------------------------------------------------------------------------
(* Safety.                                                                 *)

\* Every registered match id stands for a line of the current text of its own
\* document: whatever order inserts and the halves of greps take, no position
\* outlives the text it was computed from.  (insert's retain and the second
\* half's generation check have to cover for each other.)
RegistryCurrent ==
  \A id \in DOMAIN matches :
    /\ matches[id].doc_id = id.doc
    /\ matches[id].line = id.line
    /\ docs[id.doc] # NoDoc
    /\ matches[id].generation = docs[id.doc].generation
    /\ id.line \in 1..Len(docs[id.doc].raw_text)

\* No caller of doc_expand_around ever hits the out-of-range slice that the
\* comment in insert fears.
ExpandNeverPanics ==
  \A c \in Clients : reply[c].status # "panic"

\* A handle stays good for as long as its document is not replaced: inserts of
\* other documents and later greps, by any thread, neither revoke nor move it,
\* and expanding it shows the line it was issued for.
LiveHandleExpands ==
  \A h \in issued : h.version = version[h.id.doc] =>
    \A before, after \in Radii :
      /\ ExpandStatus(h.id.doc, h.id, before, after) = "ok"
      /\ Shows(ExpandText(h.id.doc, h.id, before, after), h.line_text)

\* A grep answers with the hits of the text that is current when it answers, or
\* with nothing; and with nothing only if that text is not the one it captured.
GrepEnds(c) == ~Idle(c) /\ scan'[c] = NoScan

GrepAnswer(s) ==
  IF s.version = version[s.doc]
    THEN HitIds(s.doc, docs[s.doc].raw_text, s.pattern, s.cap)
    ELSE {}

GrepAnswersCurrentText ==
  [][\A c \in Clients : GrepEnds(c) => reply'[c].ids = GrepAnswer(scan[c])]_vars

\* What the comments on generation and on MatchPosition say: once a document has
\* been replaced, a handle into the old text is rejected rather than read
\* against the new one, where its line may be another.
StaleHandleRejected ==
  \A h \in issued : h.version # version[h.id.doc] =>
    \/ ExpandStatus(h.id.doc, h.id, 0, 0) # "ok"
    \/ ExpandText(h.id.doc, h.id, 0, 0) = <<h.line_text>>

---------------------------------------------------------------------------
(* Why the above holds: the inductive strengthening.                       *)

\* A generation counts the inserts since the first, so within a document equal
\* generations mean equal texts.
GenerationCounts ==
  \A d \in Docs :
    /\ docs[d] = NoDoc <=> version[d] = 0
    /\ docs[d] # NoDoc => docs[d].generation = version[d] - 1

\* What a grep carries between its halves is the text of the generation it
\* carries with it.
CaptureFaithful ==
  \A c \in Clients : ~Idle(c) =>
    LET s == scan[c] IN
      /\ s.version \in 1..version[s.doc]
      /\ s.generation = s.version - 1
      /\ s.version = version[s.doc] => s.lines = docs[s.doc].raw_text

\* A handle into the current text is registered, for the line it was issued for.
IssuedRegistered ==
  \A h \in issued :
    /\ h.version <= version[h.id.doc]
    /\ h.version = version[h.id.doc] =>
         /\ h.id \in DOMAIN matches
         /\ h.line_text = docs[h.id.doc].raw_text[h.id.line]

StoreInv ==
  /\ TypeOK
  /\ RegistryCurrent
  /\ ExpandNeverPanics
  /\ GenerationCounts
  /\ CaptureFaithful
  /\ IssuedRegistered

---------------------------------------------------------------------------
(* Refinement: with a registered id in force when its generation is the    *)
(* document's, the store is the atomic store of DocStoreAbs.               *)

AbsBody == [d \in Docs |-> IF docs[d] = NoDoc THEN NoDoc ELSE docs[d].raw_text]

AbsHandles ==
  {id \in DOMAIN matches : matches[id].generation = docs[id.doc].generation}

Abs == INSTANCE DocStoreAbs WITH body <- AbsBody, handles <- AbsHandles

\* Every step of the two-half, generation-checked store is a step of the atomic
\* store or changes nothing its callers can see.
RefinesAbs == Abs!AbsSpec

=============================================================================
