---------------------------- MODULE DocStoreAbs ----------------------------
(***************************************************************************)
(* What the document store promises its callers, without locks, captured   *)
(* snapshots or generation numbers.                                        *)
(*                                                                         *)
(*   body[d]   the text of document d, NoDoc before its first insert       *)
(*   handles   the match ids that doc_expand_around accepts now            *)
(*   reply[c]  the last answer client c received                           *)
(*                                                                         *)
(* A grep is one atomic step on the current text: it either answers with   *)
(* the hits of that text and makes their ids valid, or, when the document  *)
(* changed under it, answers with nothing at all.  Replacing a document    *)
(* revokes the handles into it and no other; a handle in force always      *)
(* expands to lines of the document's current text, and the other reads    *)
(* show consecutive lines of it.                                           *)
(***************************************************************************)
EXTENDS DocText

CONSTANTS
  Docs,             \* document ids
  Clients,          \* threads that share one clone of the store
  Bodies,           \* the texts that may be inserted: sequences of lines
  Patterns,         \* regular expressions, each the set of lines it matches
  Limits,           \* the max_matches a caller may ask for
  Radii,            \* the before and after a caller may ask for
  MatchIds,         \* what a caller may pass as match_id
  MAX_MATCHES_CAP,  \* clamp on max_matches
  NoDoc             \* the absent document

VARIABLES body, handles, reply

absVars == <<body, handles, reply>>

AbsInit ==
  /\ body = [d \in Docs |-> NoDoc]
  /\ handles = {}
  /\ reply = [c \in Clients |-> Failure("none")]

AbsInsert(d, b) ==
  /\ body' = [body EXCEPT ![d] = b]
  /\ handles' = {id \in handles : id.doc # d}
  /\ UNCHANGED reply

AbsGrep(c, d, p, limit) ==
  /\ body[d] # NoDoc
  /\ LET ids == HitIds(d, body[d], p, LesserOf(limit, MAX_MATCHES_CAP)) IN
       /\ handles' = handles \union ids
       /\ reply' = [reply EXCEPT ![c] = Answer("ok", ids, <<>>)]
  /\ UNCHANGED body

\* A grep that registers nothing: the pattern does not compile, no match was
\* asked for, or an insert overtook it.
AbsGrepNothing(c) ==
  /\ \E s \in {"ok", "InvalidPattern"} :
       reply' = [reply EXCEPT ![c] = Failure(s)]
  /\ UNCHANGED <<body, handles>>

AbsMissing(c, d) ==
  /\ body[d] = NoDoc
  /\ reply' = [reply EXCEPT ![c] = Failure("DocNotFound")]
  /\ UNCHANGED <<body, handles>>

AbsExpand(c, d, id, before, after) ==
  /\ reply' = [reply EXCEPT ![c] =
       IF id \in handles /\ id.doc = d
         THEN Answer("ok", {}, Slice(body[d], SliceStart(id.line, before),
                                     SliceEnd(body[d], id.line, after)))
         ELSE Failure("MatchNotFound")]
  /\ UNCHANGED <<body, handles>>

\* The other reads show consecutive lines of the current text, and nothing else.
AbsRead(c, d) ==
  /\ body[d] # NoDoc
  /\ \E first \in 1..(Len(body[d]) + 1), last \in 0..Len(body[d]) :
       reply' = [reply EXCEPT ![c] = Answer("ok", {}, SubSeq(body[d], first, last))]
  /\ UNCHANGED <<body, handles>>

AbsReadRefused(c) ==
  /\ \E s \in {"InvalidPattern", "InvalidLineRange"} :
       reply' = [reply EXCEPT ![c] = Failure(s)]
  /\ UNCHANGED <<body, handles>>

AbsNext ==
  \/ \E d \in Docs, b \in Bodies : AbsInsert(d, b)
  \/ \E c \in Clients, d \in Docs, p \in Patterns, limit \in Limits :
       AbsGrep(c, d, p, limit)
  \/ \E c \in Clients : AbsGrepNothing(c)
  \/ \E c \in Clients, d \in Docs : AbsMissing(c, d) \/ AbsRead(c, d)
  \/ \E c \in Clients : AbsReadRefused(c)
  \/ \E c \in Clients, d \in Docs, id \in MatchIds, before, after \in Radii :
       AbsExpand(c, d, id, before, after)

AbsSpec == AbsInit /\ [][AbsNext]_absVars

=============================================================================
