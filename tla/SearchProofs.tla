---------------------------- MODULE SearchProofs ----------------------------
(***************************************************************************)
(* Proofs about Search, for every query, every set of matches and every    *)
(* provider: the redaction is whole, and no match begins in clear.         *)
(***************************************************************************)
EXTENDS Search, TLAPS

Pieces == [from : Nat, to : Nat, as : {"text"} \cup {Placeholder[r] : r \in Rules}]
Audits == [rule : Rules, position : Nat, length : Nat]

\* A candidate is a non-empty span of its query, under a rule in force.
LEMMA CandidateIsSpan ==
  ASSUME NEW q \in Queries, NEW rules \in SUBSET Rules, NEW c \in Candidates(q, rules)
  PROVE  /\ c.rule \in Rules
         /\ c.start \in Nat /\ c.end \in Nat /\ c.start < c.end
         /\ Len(q.text) \in Nat
         /\ c.end <= Len(q.text)
<1>1. PICK rule \in rules : \E s \in q.found[rule] : c = Candidate(rule, s)
  BY DEF Candidates
<1>2. PICK s \in q.found[rule] : c = Candidate(rule, s)
  BY <1>1
<1>3. q.text \in Seq(Chars) /\ s \in Spans(q.text)
  BY SearchAssumption
<1>4. /\ s.start \in 0..Len(q.text) /\ s.end \in 0..Len(q.text) /\ s.start < s.end
      /\ Len(q.text) \in Nat
  BY <1>3 DEF Spans
<1> QED
  BY <1>2, <1>4 DEF Candidate

---------------------------------------------------------------------------

\* Init and the steps outside a redaction.
LEMMA TypeStep ==
  ASSUME TypeOK, Redacting, [Next]_vars
  PROVE  TypeOK'
<1> USE SearchAssumption
<1>1. ASSUME NEW list \in RuleLists, NEW redact_queries \in BOOLEAN,
             FromConfig(list, redact_queries)
      PROVE  TypeOK'
  <2>1. CASE UnknownRule(list)
    BY <1>1, <2>1 DEF TypeOK, FromConfig, redaction
  <2>2. CASE ~UnknownRule(list)
    <3>1. RulesOf(list) \in SUBSET Rules
      BY <2>2 DEF UnknownRule, RulesOf, RuleNamed, Rules
    <3> QED
      BY <1>1, <2>2, <3>1 DEF TypeOK, FromConfig, redaction
  <2> QED
    BY <2>1, <2>2
<1>2. ASSUME NEW value \in {TRUE, FALSE, None}, SetOverride(value)
      PROVE  TypeOK'
  BY <1>2 DEF TypeOK, SetOverride, redaction
<1>3. ASSUME NEW max \in Limits, SearchNothing(max)
      PROVE  TypeOK'
  BY <1>3 DEF TypeOK, SearchNothing, engine, redaction
<1>4. ASSUME NEW q \in Queries, NEW max \in Limits, NEW prefix \in Prefixes \cup {None},
             SearchInClear(q, max, prefix) \/ SearchRedacted(q, max, prefix)
      PROVE  TypeOK'
  <2>1. /\ search' = [query |-> q, max |-> max, prefix |-> prefix]
        /\ searches' = searches + 1 /\ searches < MaxSearches
        /\ last_end' = 0 /\ applied' = <<>>
        /\ pieces' = <<>> \/ pieces' = <<Piece(0, Len(q.text), "text")>>
        /\ pc = "idle" /\ pc' \in {"redacting", "asking"}
        /\ UNCHANGED engine
    BY <1>4 DEF SearchInClear, SearchRedacted, Begin
  <2>2. search' \in SearchRecord
    BY <2>1 DEF SearchRecord
  <2>3. Len(q.text) \in Nat
    OBVIOUS
  <2>4. pieces' \in Seq(Pieces)
    <3>1. Piece(0, Len(q.text), "text") \in Pieces
      BY <2>3 DEF Pieces, Piece
    <3>2. <<>> \in Seq(Pieces) /\ <<Piece(0, Len(q.text), "text")>> \in Seq(Pieces)
      BY <3>1
    <3> HIDE DEF Pieces
    <3> QED
      BY <2>1, <3>2
  <2> QED
    BY <2>1, <2>2, <2>4 DEF TypeOK, engine, Pieces
<1>5. ASSUME pc = "redacting", NEW c \in Remaining, Redact(c)
      PROVE  TypeOK'
  <2>1. /\ search.query \in Queries /\ redactor.rules \in SUBSET Rules
    BY <1>5 DEF TypeOK, SearchRecord
  <2>2. /\ c.rule \in Rules /\ c.start \in Nat /\ c.end \in Nat /\ c.start < c.end
    BY <1>5, <2>1, CandidateIsSpan DEF Remaining
  <2>3. /\ Piece(last_end, c.start, "text") \in Pieces
        /\ Piece(c.start, c.end, Placeholder[c.rule]) \in Pieces
    BY <2>2 DEF TypeOK, Piece, Pieces
  <2>4. pieces' \in Seq(Pieces)
    BY <1>5, <2>3 DEF TypeOK, Redact, Appended, Pieces
  <2>5. Applied(c) \in Audits
    BY <2>2 DEF Applied, Audits
  <2>6. applied' \in Seq(Audits)
    BY <1>5, <2>5 DEF TypeOK, Redact, Audits
  <2> QED
    BY <1>5, <2>2, <2>4, <2>6 DEF TypeOK, Redact, engine, Pieces, Audits
<1>6. ASSUME FinishRedaction
      PROVE  TypeOK'
  <2>1. search.query \in Queries
    BY <1>6 DEF FinishRedaction, TypeOK, SearchRecord
  <2>2. Len(search.query.text) \in Nat
    BY <2>1
  <2>3. Piece(last_end, Len(search.query.text), "text") \in Pieces
    BY <2>2 DEF TypeOK, Piece, Pieces
  <2>4. pieces' \in Seq(Pieces)
    BY <1>6, <2>3 DEF TypeOK, FinishRedaction, Pieces
  <2> QED
    BY <1>6, <2>4 DEF TypeOK, FinishRedaction, engine, Pieces
<1>7. ASSUME NEW rs, Answered(rs)
      PROVE  TypeOK'
  BY <1>7 DEF TypeOK, Answered, engine
<1>8. CASE UNCHANGED vars
  BY <1>8 DEF TypeOK, vars, engine, redaction
<1> QED
  BY <1>1, <1>2, <1>3, <1>4, <1>5, <1>6, <1>7, <1>8 DEF Next, ProviderAnswers, ProviderFails

\* The redaction from one candidate to the next: the pieces stay next to one
\* another, and of the matches it passes over none begins in front of the
\* candidate, which is the first of all that are left.
LEMMA RedactStep ==
  ASSUME TypeOK, Redacting, NEW c \in Remaining, Redact(c)
  PROVE  Redacting'
<1> DEFINE p == pieces
           q == pieces'
           n == Len(pieces)
<1>1. /\ search.query \in Queries /\ redactor.rules \in SUBSET Rules
      /\ UNCHANGED <<search, redactor>> /\ pc = "redacting"
  BY DEF TypeOK, SearchRecord, Redact, engine
<1>2. /\ c.rule \in Rules /\ c.start \in Nat /\ c.end \in Nat /\ c.start < c.end
      /\ Len(search.query.text) \in Nat
      /\ c.end <= Len(search.query.text)
      /\ last_end \in Nat /\ last_end <= c.start
  BY <1>1, CandidateIsSpan DEF Remaining, TypeOK
<1>3. /\ p \in Seq(Pieces) /\ n \in Nat
      /\ q = p \o <<Piece(last_end, c.start, "text"), Piece(c.start, c.end, Placeholder[c.rule])>>
      /\ last_end' = c.end
      /\ applied \in Seq(Audits)
      /\ applied' = Append(applied, Applied(c))
  BY DEF TypeOK, Redact, Appended, Pieces, Audits
<1>4. /\ Len(q) = n + 2 /\ DOMAIN q = 1..(n + 2) /\ DOMAIN p = 1..n
      /\ \A i \in 1..n : q[i] = p[i]
      /\ q[n + 1] = Piece(last_end, c.start, "text")
      /\ q[n + 2] = Piece(c.start, c.end, Placeholder[c.rule])
  BY <1>3
<1>5. \A i \in 1..n : p[i].from \in Nat /\ p[i].to \in Nat
  <2>1. \A i \in 1..n : p[i] \in Pieces
    BY <1>3
  <2> QED
    BY <2>1 DEF Pieces
<1>6. Tiled(last_end) /\ n = 2 * Len(applied) /\ Audited
  BY <1>1 DEF Redacting
<1>7. Tiled(last_end)'
  <2>1. ASSUME NEW i \in 1..(n + 2)
        PROVE  /\ q[i].from = IF i = 1 THEN 0 ELSE q[i - 1].to
               /\ q[i].from <= q[i].to
               /\ q[i].to <= c.end
    <3>1. CASE i \in 1..n
      <4>1. /\ p[i].from = IF i = 1 THEN 0 ELSE p[i - 1].to
            /\ p[i].from <= p[i].to /\ p[i].to <= last_end
        BY <1>4, <1>6, <3>1 DEF Tiled
      <4>2. q[i] = p[i] /\ (i # 1 => q[i - 1] = p[i - 1])
        BY <1>3, <1>4, <3>1
      <4> QED
        BY <1>2, <1>5, <3>1, <4>1, <4>2
    <3>2. CASE i = n + 1
      <4>1. CASE n = 0
        BY <1>2, <1>4, <1>6, <3>2, <4>1 DEF Tiled, Piece
      <4>2. CASE n # 0
        <5>1. p # <<>> /\ q[i - 1] = p[n] /\ i # 1
          BY <1>3, <1>4, <3>2, <4>2
        <5> QED
          BY <1>2, <1>4, <1>6, <3>2, <5>1 DEF Tiled, Piece
      <4> QED
        BY <4>1, <4>2
    <3>3. CASE i = n + 2
      <4>1. i # 1 /\ q[i - 1] = q[n + 1]
        BY <1>3, <3>3
      <4> QED
        BY <1>2, <1>4, <3>3, <4>1 DEF Piece
    <3> QED
      BY <1>3, <3>1, <3>2, <3>3
  <2>2. q # <<>> /\ q[Len(q)].to = c.end
    BY <1>3, <1>4 DEF Piece
  <2> QED
    BY <1>3, <1>4, <2>1, <2>2 DEF Tiled
<1>8. Len(q) = 2 * Len(applied')
  BY <1>3, <1>4, <1>6
<1>9. Audited'
  <2>1. ASSUME NEW k \in DOMAIN applied'
        PROVE  q[2 * k] = Piece(applied'[k].position, applied'[k].position + applied'[k].length,
                                Placeholder[applied'[k].rule])
    <3>1. CASE k \in DOMAIN applied
      <4>1. 2 * k \in 1..n /\ applied'[k] = applied[k]
        BY <1>3, <1>6, <3>1
      <4> QED
        BY <1>4, <1>6, <3>1, <4>1 DEF Audited
    <3>2. CASE k = Len(applied) + 1
      <4>1. 2 * k = n + 2 /\ applied'[k] = Applied(c)
        BY <1>3, <1>6, <3>2
      <4> QED
        BY <1>2, <1>4, <4>1 DEF Applied
    <3>3. DOMAIN applied' = 1..(Len(applied) + 1) /\ DOMAIN applied = 1..Len(applied)
          /\ Len(applied) \in Nat
      BY <1>3
    <3> QED
      BY <3>1, <3>2, <3>3
  <2>2. ASSUME NEW k \in 0..Len(q), 2 * k + 1 \in DOMAIN q
        PROVE  q[2 * k + 1].as = "text"
    <3>1. CASE 2 * k + 1 \in 1..n
      BY <1>4, <1>6, <2>2, <3>1 DEF Audited
    <3>2. CASE 2 * k + 1 = n + 1
      BY <1>4, <3>2 DEF Piece
    <3>3. Len(applied) \in Nat /\ k \in Nat /\ 2 * k + 1 <= 2 * Len(applied) + 2
      BY <1>3, <1>4, <1>6, <2>2
    <3> QED
      BY <1>6, <3>1, <3>2, <3>3
  <2> QED
    BY <2>1, <2>2 DEF Audited
<1>10. ASSUME NEW d \in Candidates(search.query, redactor.rules), d.start < c.end
       PROVE  ~(\E i \in DOMAIN q :
                  q[i].as = "text" /\ q[i].from <= d.start /\ d.start < q[i].to)
  <2>1. d.start \in Nat /\ d.rule \in Rules
    BY <1>1, <1>10, CandidateIsSpan
  <2>2. SUFFICES ASSUME NEW i \in 1..(n + 2), q[i].as = "text", q[i].from <= d.start,
                        d.start < q[i].to
                 PROVE  FALSE
    BY <1>4
  <2>3. CASE i \in 1..n
    <3>1. p[i].as = "text" /\ p[i].from <= d.start /\ d.start < p[i].to /\ p[i].to <= last_end
      BY <1>4, <1>6, <2>2, <2>3 DEF Tiled
    <3>2. d.start < last_end
      BY <1>2, <1>5, <2>1, <2>3, <3>1
    <3> QED
      BY <1>1, <1>4, <2>3, <3>1, <3>2 DEF Redacting, InClear
  <2>4. CASE i = n + 1
    <3>1. last_end <= d.start /\ d.start < c.start
      BY <1>4, <2>2, <2>4 DEF Piece
    <3>2. d \in Remaining
      BY <1>10, <3>1, <1>2, <2>1 DEF Remaining
    <3> QED
      BY <3>1, <3>2 DEF Redact, SortedBefore
  <2>5. CASE i = n + 2
    <3>1. Placeholder[c.rule] = "text"
      BY <1>4, <2>2, <2>5 DEF Piece
    <3> QED
      BY <1>2, <3>1 DEF Placeholder, Rules
  <2> QED
    BY <1>3, <2>3, <2>4, <2>5
<1> QED
  BY <1>1, <1>2, <1>3, <1>7, <1>8, <1>9, <1>10 DEF Redacting, InClear
\* The end of the redaction: no candidate is left behind the last one.
LEMMA FinishStep ==
  ASSUME TypeOK, Redacting, FinishRedaction
  PROVE  AuditRestores' /\ NoMatchBeginsInClear'
<1> DEFINE p == pieces
           q == pieces'
           n == Len(pieces)
           len == Len(search.query.text)
<1>1. /\ search.query \in Queries /\ redactor.rules \in SUBSET Rules
      /\ UNCHANGED <<search, redactor, applied>> /\ pc = "redacting"
  BY DEF TypeOK, SearchRecord, FinishRedaction, engine
<1>2. /\ len \in Nat /\ last_end \in Nat /\ last_end <= len
  <2>1. search.query.text \in Seq(Chars)
    BY <1>1, SearchAssumption
  <2> QED
    BY <1>1, <2>1, SMTT(30) DEF TypeOK, Redacting
<1>3. /\ p \in Seq(Pieces) /\ n \in Nat
      /\ q = Append(p, Piece(last_end, len, "text"))
      /\ Len(applied) \in Nat
  BY DEF TypeOK, FinishRedaction, Pieces
<1>4. /\ Len(q) = n + 1 /\ DOMAIN q = 1..(n + 1) /\ DOMAIN p = 1..n
      /\ \A i \in 1..n : q[i] = p[i]
      /\ q[n + 1] = Piece(last_end, len, "text")
  BY <1>3
<1>5. \A i \in 1..n : p[i].from \in Nat /\ p[i].to \in Nat
  <2>1. \A i \in 1..n : p[i] \in Pieces
    BY <1>3
  <2> QED
    BY <2>1 DEF Pieces
<1>6. Tiled(last_end) /\ n = 2 * Len(applied) /\ Audited
  BY <1>1 DEF Redacting
<1>7. Tiled(len)'
  <2>1. ASSUME NEW i \in 1..(n + 1)
        PROVE  /\ q[i].from = IF i = 1 THEN 0 ELSE q[i - 1].to
               /\ q[i].from <= q[i].to
               /\ q[i].to <= len
    <3>1. CASE i \in 1..n
      <4>1. /\ p[i].from = IF i = 1 THEN 0 ELSE p[i - 1].to
            /\ p[i].from <= p[i].to /\ p[i].to <= last_end
        BY <1>4, <1>6, <3>1 DEF Tiled
      <4>2. q[i] = p[i] /\ (i # 1 => q[i - 1] = p[i - 1])
        BY <1>3, <1>4, <3>1
      <4> QED
        BY <1>2, <1>5, <3>1, <4>1, <4>2
    <3>2. CASE i = n + 1
      <4>1. CASE n = 0
        BY <1>2, <1>4, <1>6, <3>2, <4>1 DEF Tiled, Piece
      <4>2. CASE n # 0
        <5>1. n \in 1..n /\ i - 1 = n /\ i # 1
          BY <1>3, <3>2, <4>2
        <5>2. p # <<>> /\ q[i - 1] = p[n]
          BY <1>3, <1>4, <5>1
        <5> QED
          BY <1>2, <1>4, <1>6, <3>2, <5>1, <5>2 DEF Tiled, Piece
      <4> QED
        BY <4>1, <4>2
    <3> QED
      BY <1>3, <3>1, <3>2
  <2>2. q # <<>> /\ q[Len(q)].to = len
    BY <1>3, <1>4 DEF Piece
  <2> QED
    BY <1>1, <1>3, <1>4, <2>1, <2>2 DEF Tiled
<1>8. Audited'
  <2>1. ASSUME NEW k \in DOMAIN applied
        PROVE  q[2 * k] = p[2 * k] /\ 2 * k \in 1..n
    BY <1>3, <1>4, <1>6
  <2>2. ASSUME NEW k \in 0..Len(q), 2 * k + 1 \in DOMAIN q
        PROVE  q[2 * k + 1].as = "text"
    <3>1. CASE 2 * k + 1 \in 1..n
      <4>1. k \in 0..n
        BY <1>3, <1>4, <2>2, <3>1
      <4> QED
        BY <1>4, <1>6, <3>1, <4>1 DEF Audited
    <3>2. CASE 2 * k + 1 = n + 1
      BY <1>4, <3>2 DEF Piece
    <3> QED
      BY <1>3, <1>4, <2>2, <3>1, <3>2
  <2> QED
    BY <1>1, <1>6, <2>1, <2>2 DEF Audited
<1>9. AuditRestores'
  BY <1>1, <1>3, <1>4, <1>6, <1>7, <1>8 DEF AuditRestores
<1>10. ASSUME NEW d \in Candidates(search.query, redactor.rules)
       PROVE  ~(\E i \in DOMAIN q :
                  q[i].as = "text" /\ q[i].from <= d.start /\ d.start < q[i].to)
  <2>1. d.start \in Nat /\ d.start < last_end
    <3>1. d.start \in Nat /\ d \notin Remaining
      BY <1>1, CandidateIsSpan DEF FinishRedaction
    <3> QED
      BY <1>2, <3>1 DEF Remaining
  <2>2. SUFFICES ASSUME NEW i \in 1..(n + 1), q[i].as = "text", q[i].from <= d.start,
                        d.start < q[i].to
                 PROVE  FALSE
    BY <1>4
  <2>3. CASE i \in 1..n
    BY <1>1, <1>4, <2>1, <2>2, <2>3 DEF Redacting, InClear
  <2>4. CASE i = n + 1
    BY <1>2, <1>4, <2>1, <2>2, <2>4 DEF Piece
  <2> QED
    BY <1>3, <2>3, <2>4
<1> QED
  BY <1>1, <1>9, <1>10 DEF NoMatchBeginsInClear, InClear

---------------------------------------------------------------------------

IInv == TypeOK /\ Redacting /\ AuditRestores /\ NoMatchBeginsInClear

LEMMA InvInit ==
  ASSUME Init
  PROVE  IInv
BY SearchAssumption DEF Init, IInv, TypeOK, Redacting, AuditRestores, NoMatchBeginsInClear

\* A search that is not redacted leaves as it is.
LEMMA BeginStep ==
  ASSUME TypeOK, NEW q \in Queries, NEW max \in Limits, NEW prefix \in Prefixes \cup {None},
         SearchInClear(q, max, prefix) \/ SearchRedacted(q, max, prefix)
  PROVE  Redacting' /\ AuditRestores' /\ NoMatchBeginsInClear'
<1>1. /\ search'.query = q /\ applied' = <<>> /\ last_end' = 0
      /\ UNCHANGED redactor
  BY DEF SearchInClear, SearchRedacted, Begin, engine
<1>2. q.text \in Seq(Chars) /\ Len(q.text) \in Nat
  BY SearchAssumption
<1>3. redactor.rules \in SUBSET Rules
  BY DEF TypeOK, SearchInClear, SearchRedacted, Begin
<1>4. \A c \in Candidates(q, redactor.rules) : c.start \in Nat /\ Len(q.text) > 0
  BY <1>2, <1>3, CandidateIsSpan
<1>5. CASE SearchInClear(q, max, prefix)
  <2>1. /\ pieces' = <<Piece(0, Len(q.text), "text")>> /\ pc' = "asking"
        /\ ~redactor.enabled \/ Len(q.text) = 0
    BY <1>5 DEF SearchInClear
  <2>2. /\ Len(pieces') = 1 /\ DOMAIN pieces' = 1..1 /\ pieces' # <<>>
        /\ pieces'[1] = Piece(0, Len(q.text), "text")
    BY <2>1
  <2>3. Tiled(Len(q.text))'
    BY <1>1, <1>2, <2>2 DEF Tiled, Piece
  <2>4. Audited'
    <3>1. DOMAIN applied' = {}
      BY <1>1
    <3>2. \A k \in 0..1 : 2 * k + 1 \in 1..1 => k = 0
      OBVIOUS
    <3> QED
      BY <2>2, <3>1, <3>2 DEF Audited, Piece
  <2>5. AuditRestores'
    BY <1>1, <2>2, <2>3, <2>4 DEF AuditRestores
  <2>6. NoMatchBeginsInClear'
    BY <1>1, <1>2, <1>4, <2>1 DEF NoMatchBeginsInClear
  <2> QED
    BY <2>1, <2>5, <2>6 DEF Redacting
<1>6. CASE SearchRedacted(q, max, prefix)
  <2>1. pieces' = <<>> /\ pc' = "redacting"
    BY <1>6 DEF SearchRedacted
  <2>2. Tiled(0)' /\ Audited' /\ Len(pieces') = 0 /\ Len(applied') = 0
    BY <1>1, <2>1 DEF Tiled, Audited
  <2>3. \A c \in Candidates(q, redactor.rules) : ~(c.start < 0)
    BY <1>4
  <2>4. Redacting'
    BY <1>1, <1>2, <2>2, <2>3 DEF Redacting
  <2> QED
    BY <2>1, <2>4 DEF AuditRestores, NoMatchBeginsInClear
<1> QED
  BY <1>5, <1>6

LEMMA InvStep ==
  ASSUME IInv, [Next]_vars
  PROVE  IInv'
<1> USE DEF IInv
<1>1. TypeOK'
  BY TypeStep
<1>2. ASSUME NEW list \in RuleLists, NEW redact_queries \in BOOLEAN,
             FromConfig(list, redact_queries)
      PROVE  IInv'
  <2>1. pc' \notin {"redacting", "asking"}
    BY <1>2 DEF FromConfig
  <2> QED
    BY <1>1, <2>1 DEF Redacting, AuditRestores, NoMatchBeginsInClear
<1>3. ASSUME NEW value \in {TRUE, FALSE, None}, SetOverride(value)
      PROVE  IInv'
  BY <1>1, <1>3 DEF SetOverride, Redacting, AuditRestores, NoMatchBeginsInClear
<1>4. ASSUME NEW max \in Limits, SearchNothing(max)
      PROVE  IInv'
  BY <1>1, <1>4 DEF SearchNothing, Redacting, AuditRestores, NoMatchBeginsInClear
<1>5. ASSUME NEW q \in Queries, NEW max \in Limits, NEW prefix \in Prefixes \cup {None},
             SearchInClear(q, max, prefix) \/ SearchRedacted(q, max, prefix)
      PROVE  IInv'
  BY <1>1, <1>5, BeginStep
<1>6. ASSUME pc = "redacting", NEW c \in Remaining, Redact(c)
      PROVE  IInv'
  <2>1. Redacting' /\ pc' = "redacting"
    BY <1>6, RedactStep DEF Redact
  <2> QED
    BY <1>1, <2>1 DEF AuditRestores, NoMatchBeginsInClear
<1>7. ASSUME FinishRedaction
      PROVE  IInv'
  <2>1. pc' = "asking"
    BY <1>7 DEF FinishRedaction
  <2> QED
    BY <1>1, <1>7, <2>1, FinishStep DEF Redacting
<1>8. ASSUME NEW rs, Answered(rs)
      PROVE  IInv'
  <2>1. pc' = "idle"
    BY <1>8 DEF Answered
  <2> QED
    BY <1>1, <2>1 DEF Redacting, AuditRestores, NoMatchBeginsInClear
<1>9. CASE UNCHANGED vars
  <2>1. UNCHANGED <<pc, redactor, search, last_end, pieces, applied>>
    BY <1>9 DEF vars, engine, redaction
  <2>2. Redacting'
    BY <2>1 DEF Redacting, Tiled, Audited, InClear
  <2>3. AuditRestores' /\ NoMatchBeginsInClear'
    BY <2>1 DEF AuditRestores, Tiled, Audited, NoMatchBeginsInClear, InClear
  <2> QED
    BY <1>1, <2>2, <2>3
<1> QED
  BY <1>2, <1>3, <1>4, <1>5, <1>6, <1>7, <1>8, <1>9 DEF Next, ProviderAnswers, ProviderFails

LEMMA InvAlways == Spec => []IInv
<1>1. Init => IInv
  BY InvInit
<1>2. IInv /\ [Next]_vars => IInv'
  BY InvStep
<1> QED
  BY <1>1, <1>2, PTL DEF Spec

\* The variables of a search stay in their sets.
THEOREM SearchTyped == Spec => []TypeOK
<1>1. IInv => TypeOK
  BY DEF IInv
<1> QED
  BY <1>1, InvAlways, PTL

\* The query can be told from what is sent and the audit.
THEOREM RedactionIsRestorable == Spec => []AuditRestores
<1>1. IInv => AuditRestores
  BY DEF IInv
<1> QED
  BY <1>1, InvAlways, PTL

\* Whatever the regular expressions find, and however it overlaps, no match that
\* passed its boundary begins in what is sent in clear.
THEOREM MatchesNeverBeginInClear == Spec => []NoMatchBeginsInClear
<1>1. IInv => NoMatchBeginsInClear
  BY DEF IInv
<1> QED
  BY <1>1, InvAlways, PTL
=============================================================================
