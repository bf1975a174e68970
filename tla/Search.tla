------------------------------- MODULE Search -------------------------------
(***************************************************************************)
(* cps-search: a SearchEngine with its session override, the redaction of  *)
(* a query before it leaves, the provider, and the storing of results.     *)
(*                                                                         *)
(* A query is a record                                                     *)
(*   text      its characters, each a member of Chars                      *)
(*   found     for every rule the spans [start, end) of the text that the  *)
(*             regular expressions of the rule match (the regex crate)     *)
(* with offsets as in the code: the first character is at 0.               *)
(*                                                                         *)
(*   pc        "idle" between searches, "redacting" a query, "asking" the  *)
(*             provider; "new" before from_config, "rejected" by it        *)
(*   redactor  the rules in force, and whether redaction is on             *)
(*   override  session_override, None outside a session choice             *)
(*   provider  the DuckDuckGo provider, or another one                     *)
(*   search    the search in progress                                      *)
(*   last_end  up to where the query is redacted                           *)
(*   pieces    the redacted query: spans of the query and what each is     *)
(*             shown as, "text" for itself or a placeholder                *)
(*   applied   redactions_applied                                          *)
(*   returned  the results of the last search                              *)
(*   stored    what search_and_store has put under prefix and number       *)
(*   searches  number of searches (bound)                                  *)
(***************************************************************************)
EXTENDS Integers, Sequences

CONSTANTS
  Queries,
  RuleLists,      \* redaction_rules of the configuration, trimmed, in lower case
  Results,        \* what a provider may find, with the trust it gives it
  Limits,         \* max_results of a caller
  Prefixes,       \* doc_id_prefix of a caller
  MaxAnswer,      \* bound: results of a provider
  MaxSearches,    \* bound: searches of a session
  None

Rules == {"hostname", "ipv4", "ipv6", "email", "internal_domain", "k8s_namespace"}

\* A letter up to f, another letter, a digit, and what the boundaries look
\* for; a blank stands for any other character.
Chars == {"a", "z", "0", "-", "_", ".", ":", "@", " "}

Spans(text) == {s \in [start : 0..Len(text), end : 0..Len(text)] : s.start < s.end}

TrustLevels == {"local_schema", "local_doc", "official_web_doc", "untrusted_web"}

ASSUME SearchAssumption ==
  /\ \A q \in Queries :
       /\ q.text \in Seq(Chars)
       /\ q.found \in [Rules -> SUBSET Spans(q.text)]
  /\ RuleLists \subseteq Seq(STRING)
  /\ Limits \subseteq Nat
  /\ MaxAnswer \in Nat
  /\ MaxSearches \in Nat
  /\ Results \subseteq [what : STRING, trust : TrustLevels]
  /\ None \notin BOOLEAN

VARIABLES pc, provider, redactor, enabled, override, search, last_end, pieces, applied, returned,
          stored, searches

redaction == <<last_end, pieces, applied>>
engine == <<provider, redactor, enabled, override>>
vars == <<pc, engine, search, redaction, returned, stored, searches>>

Init ==
  /\ pc = "new"
  /\ provider \in {"ddg", "other"}
  /\ redactor = None
  /\ enabled \in BOOLEAN
  /\ override = None
  /\ search = None
  /\ last_end = 0
  /\ pieces = <<>>
  /\ applied = <<>>
  /\ returned = <<>>
  /\ stored = [d \in {} |-> None]
  /\ searches = 0

---------------------------------------------------------------------------
(* QueryRedactor::from_config: the names of the rules.                     *)

RuleNamed ==
  [name \in Rules \cup {"internal_domains", "k8s_namespaces", "sensitive_namespace",
                        "sensitive_namespaces"} |->
     IF name = "internal_domains" THEN "internal_domain"
     ELSE IF name \in Rules THEN name
     ELSE "k8s_namespace"]

Named(list) == {list[i] : i \in DOMAIN list}

UnknownRule(list) == Named(list) \ DOMAIN RuleNamed # {}

RulesOf(list) == {RuleNamed[name] : name \in Named(list)}

FromConfig(list, redact_queries) ==
  /\ pc = "new"
  /\ IF UnknownRule(list)
     THEN /\ pc' = "rejected"
          /\ UNCHANGED redactor
     ELSE /\ pc' = "idle"
          /\ redactor' = [rules |-> RulesOf(list), enabled |-> redact_queries]
  /\ UNCHANGED <<provider, enabled, override, search, redaction, returned, stored, searches>>

---------------------------------------------------------------------------
(* The boundaries: what may not stand next to a match.                     *)

LETTERS == {"a", "z"}
DOMAIN_CHARS == LETTERS \cup {"0", "-", "."}
NAMESPACE_CHARS == LETTERS \cup {"0", "-", "_"}
EMAIL_CHARS == LETTERS \cup {"0", "-", "_", ".", "@"}

NotBefore ==
  [rule \in Rules |->
     CASE rule \in {"hostname", "internal_domain"} -> DOMAIN_CHARS \cup {"@"}
       [] rule = "k8s_namespace" -> NAMESPACE_CHARS
       [] rule = "ipv4" -> LETTERS \cup {"0", "."}
       [] rule = "ipv6" -> {"a", "0", ":"}
       [] rule = "email" -> EMAIL_CHARS]

NotAfter ==
  [NotBefore EXCEPT !["hostname"] = DOMAIN_CHARS, !["internal_domain"] = DOMAIN_CHARS]

Boundary(rule, text, s) ==
  /\ s.start = 0 \/ text[s.start] \notin NotBefore[rule]
  /\ s.end = Len(text) \/ text[s.end + 1] \notin NotAfter[rule]

HasLetter(text, s) == \E i \in (s.start + 1)..s.end : text[i] \in LETTERS

---------------------------------------------------------------------------
(* The candidates of a query, in the order they are sorted into: by their  *)
(* start, then by the rule, then the longer first.  Two that are equal in  *)
(* all of it are the same.                                                 *)

Candidate(rule, s) == [rule |-> rule, start |-> s.start, end |-> s.end]

Candidates(q, rules) ==
  UNION {{Candidate(rule, s) :
            s \in {t \in q.found[rule] : /\ Boundary(rule, q.text, t)
                                         /\ rule = "hostname" => HasLetter(q.text, t)}} :
         rule \in rules}

RulePriority ==
  [rule \in Rules |->
     CASE rule = "email" -> 0
       [] rule = "ipv6" -> 1
       [] rule = "ipv4" -> 2
       [] rule = "internal_domain" -> 3
       [] rule = "hostname" -> 4
       [] rule = "k8s_namespace" -> 5]

\* (mistake: the rule comes before the start)
SortedByRule(c, d) ==
  \/ RulePriority[c.rule] < RulePriority[d.rule]
  \/ c.rule = d.rule /\ c.start < d.start

SortedBefore(c, d) ==
  \/ c.start < d.start
  \/ c.start = d.start /\ RulePriority[c.rule] < RulePriority[d.rule]
  \/ c.start = d.start /\ c.rule = d.rule /\ c.end > d.end

Placeholder ==
  [rule \in Rules |->
     CASE rule \in {"ipv4", "ipv6"} -> "<IP>"
       [] rule = "email" -> "<EMAIL>"
       [] rule = "hostname" -> "<HOST>"
       [] rule = "internal_domain" -> "<DOMAIN>"
       [] rule = "k8s_namespace" -> "<NAMESPACE>"]

Piece(from, to, as) == [from |-> from, to |-> to, as |-> as]

---------------------------------------------------------------------------
(* The engine: the session override, and a search that is off, asks for    *)
(* nothing, needs no redaction or needs some.  set_online and its like     *)
(* borrow the engine mutably: never during a search.                       *)

IsEnabled == IF override = None THEN enabled ELSE override

SetOverride(value) ==
  /\ pc = "idle"
  /\ override' = value
  /\ UNCHANGED <<pc, provider, redactor, enabled, search, redaction, returned, stored, searches>>

Begin(q, max, prefix) ==
  /\ pc = "idle"
  /\ IsEnabled /\ max # 0
  /\ searches < MaxSearches
  /\ searches' = searches + 1
  /\ search' = [query |-> q, max |-> max, prefix |-> prefix]
  /\ last_end' = 0
  /\ applied' = <<>>
  /\ UNCHANGED <<engine, returned, stored>>

\* Neither a query nor a result: search_and_store then stores nothing.
SearchNothing(max) ==
  /\ pc = "idle"
  /\ ~IsEnabled \/ max = 0
  /\ returned' = <<>>
  /\ UNCHANGED <<pc, engine, search, redaction, stored, searches>>

SearchInClear(q, max, prefix) ==
  /\ Begin(q, max, prefix)
  /\ ~redactor.enabled \/ Len(q.text) = 0
  /\ pieces' = <<Piece(0, Len(q.text), "text")>>
  /\ pc' = "asking"

SearchRedacted(q, max, prefix) ==
  /\ Begin(q, max, prefix)
  /\ redactor.enabled /\ Len(q.text) # 0
  /\ pieces' = <<>>
  /\ pc' = "redacting"

---------------------------------------------------------------------------
(* The redaction.  The loop over the sorted candidates passes over the     *)
(* ones that start in the one selected last, the loop over the selected    *)
(* ones builds the text; they are taken together, a candidate a step.      *)

\* (mistake: a candidate is passed over only if it ends in the last one)
RemainingByEnd == {c \in Candidates(search.query, redactor.rules) : c.end > last_end}

Remaining == {c \in Candidates(search.query, redactor.rules) : c.start >= last_end}

Appended(c) ==
  pieces \o <<Piece(last_end, c.start, "text"), Piece(c.start, c.end, Placeholder[c.rule])>>

Applied(c) == [rule |-> c.rule, position |-> c.start, length |-> c.end - c.start]

Redact(c) ==
  /\ pc = "redacting"
  /\ c \in Remaining
  /\ \A d \in Remaining : ~SortedBefore(d, c)
  /\ pieces' = Appended(c)
  /\ last_end' = c.end
  /\ applied' = Append(applied, Applied(c))
  /\ UNCHANGED <<pc, engine, search, returned, stored, searches>>

FinishRedaction ==
  /\ pc = "redacting"
  /\ Remaining = {}
  /\ pieces' = Append(pieces, Piece(last_end, Len(search.query.text), "text"))
  /\ pc' = "asking"
  /\ UNCHANGED <<engine, search, last_end, applied, returned, stored, searches>>

---------------------------------------------------------------------------
(* The answer of the provider, and what becomes of it.                     *)

FirstOf(rs, n) == SubSeq(rs, 1, IF n <= Len(rs) THEN n ELSE Len(rs))

Untrusted(r) == [r EXCEPT !.trust = "untrusted_web"]

Forced(rs) == [i \in DOMAIN rs |-> Untrusted(rs[i])]

\* The DuckDuckGo provider sends no blank query, and its results start untrusted.
IsBlank ==
  \A i \in DOMAIN pieces :
    /\ pieces[i].as = "text"
    /\ \A k \in (pieces[i].from + 1)..pieces[i].to : search.query.text[k] = " "

DdgGives(rs) == IF IsBlank \/ search.max = 0 THEN <<>> ELSE FirstOf(Forced(rs), search.max)

Gives(rs) == IF provider = "ddg" THEN DdgGives(rs) ELSE rs

\* store_search_results: the results count from 1, under the prefix.
Stored(prefix, rs) ==
  [d \in DOMAIN stored \cup {<<prefix, i>> : i \in DOMAIN rs} |->
     IF d[1] = prefix /\ d[2] \in DOMAIN rs
     THEN [text |-> rs[d[2]], source_kind |-> "untrusted_web"]
     ELSE stored[d]]

Answered(rs) ==
  /\ pc = "asking"
  /\ returned' = rs
  /\ stored' = IF search.prefix = None THEN stored ELSE Stored(search.prefix, rs)
  /\ pc' = "idle"
  /\ search' = None
  /\ last_end' = 0
  /\ pieces' = <<>>
  /\ applied' = <<>>
  /\ UNCHANGED <<engine, searches>>

ProviderAnswers(rs) == Answered(FirstOf(Forced(Gives(rs)), search.max))

\* An error of the provider, a search that does not end in time among them.
ProviderFails == Answered(<<>>)

Answers == UNION {[1..n -> Results] : n \in 0..MaxAnswer}

Next ==
  \/ \E list \in RuleLists, redact_queries \in BOOLEAN : FromConfig(list, redact_queries)
  \/ \E value \in {TRUE, FALSE, None} : SetOverride(value)
  \/ \E max \in Limits : SearchNothing(max)
  \/ \E q \in Queries, max \in Limits, prefix \in Prefixes \cup {None} :
       SearchInClear(q, max, prefix) \/ SearchRedacted(q, max, prefix)
  \/ pc = "redacting" /\ \E c \in Remaining : Redact(c)
  \/ FinishRedaction
  \/ pc = "asking" /\ \E rs \in Answers : ProviderAnswers(rs)
  \/ ProviderFails

Spec == Init /\ [][Next]_vars

---------------------------------------------------------------------------
(* Invariants.                                                             *)

SearchRecord == [query : Queries, max : Limits, prefix : Prefixes \cup {None}]

TypeOK ==
  /\ pc \in {"new", "rejected", "idle", "redacting", "asking"}
  /\ provider \in {"ddg", "other"}
  /\ pc \notin {"new", "rejected"} => redactor \in [rules : SUBSET Rules, enabled : BOOLEAN]
  /\ enabled \in BOOLEAN
  /\ override \in BOOLEAN \cup {None}
  /\ pc \in {"redacting", "asking"} => search \in SearchRecord
  /\ last_end \in Nat
  /\ pieces \in Seq([from : Nat, to : Nat, as : {"text"} \cup {Placeholder[r] : r \in Rules}])
  /\ applied \in Seq([rule : Rules, position : Nat, length : Nat])
  /\ searches \in 0..MaxSearches

\* The pieces follow one another from the start of the query up to an end.
Tiled(end) ==
  /\ \A i \in DOMAIN pieces :
       /\ pieces[i].from = IF i = 1 THEN 0 ELSE pieces[i - 1].to
       /\ pieces[i].from <= pieces[i].to
       /\ pieces[i].to <= end
  /\ end = IF pieces = <<>> THEN 0 ELSE pieces[Len(pieces)].to

\* Text and replacements take turns, the k-th replacement is the k-th in the audit.
Audited ==
  /\ \A k \in DOMAIN applied :
       pieces[2 * k] = Piece(applied[k].position, applied[k].position + applied[k].length,
                             Placeholder[applied[k].rule])
  /\ \A k \in 0..Len(pieces) :
       2 * k + 1 \in DOMAIN pieces => pieces[2 * k + 1].as = "text"

\* What leaves for the provider is the query from its first character to its
\* last, in order, with nothing twice and nothing lost, and the audit names
\* every part of it that is replaced, with the offset and the length it has in
\* the query: the query can be told from the two (redact, redactions_applied).
AuditRestores ==
  pc = "asking" =>
    /\ Tiled(Len(search.query.text))
    /\ Len(pieces) = 2 * Len(applied) + 1
    /\ Audited

InClear(at) ==
  \E i \in DOMAIN pieces : pieces[i].as = "text" /\ pieces[i].from <= at /\ at < pieces[i].to

\* Of several matches that overlap only one is replaced; still no match of any
\* rule begins in what is sent in clear, however matches lie on one another
\* (select_non_overlapping_candidates).
NoMatchBeginsInClear ==
  (pc = "asking" /\ redactor.enabled) =>
    \A c \in Candidates(search.query, redactor.rules) : ~InClear(c.start)

\* The inductive invariant of the redaction: what is done of it is as it will be,
\* and up to there no match begins in clear.
Redacting ==
  pc = "redacting" =>
    /\ last_end <= Len(search.query.text)
    /\ Tiled(last_end)
    /\ Len(pieces) = 2 * Len(applied)
    /\ Audited
    /\ \A c \in Candidates(search.query, redactor.rules) :
         c.start < last_end => ~InClear(c.start)
=============================================================================
