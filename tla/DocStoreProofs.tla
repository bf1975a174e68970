--------------------------- MODULE DocStoreProofs ---------------------------
(***************************************************************************)
(* Proofs about DocStore for any documents, threads, texts and patterns,   *)
(* under DocStoreAssumption and SentinelAssumption.                        *)
(***************************************************************************)
EXTENDS DocStore, FiniteSetTheorems, SequenceTheorems, TLAPS

---------------------------------------------------------------------------
(* The text helpers.                                                       *)

\* The index of a hit in its result set is a natural number.
LEMMA HitsBeforeType ==
  ASSUME NEW lines, NEW pattern, NEW n \in Nat \ {0}
  PROVE  HitsBefore(lines, pattern, n) \in Nat
<1> DEFINE S == {m \in 1..(n - 1) : lines[m] \in pattern}
<1>1. IsFiniteSet(1..(n - 1))
  BY FS_Interval
<1>2. IsFiniteSet(S)
  BY <1>1, FS_Subset, S \subseteq 1..(n - 1)
<1>3. QED
  BY <1>2, FS_CardinalityType DEF HitsBefore

\* A grep of a text finds lines of that text.
LEMMA HitIdsInText ==
  ASSUME NEW D, NEW d \in D, NEW lines \in Seq(Lines), NEW pattern, NEW cap
  PROVE  \A id \in HitIds(d, lines, pattern, cap) :
           /\ id \in [doc : D, line : Nat \ {0}, index : Nat]
           /\ id.doc = d
           /\ id.line \in 1..Len(lines)
<1> SUFFICES ASSUME NEW n \in HitLines(lines, pattern, cap)
             PROVE  LET id == MatchId(d, n, HitsBefore(lines, pattern, n)) IN
                      /\ id \in [doc : D, line : Nat \ {0}, index : Nat]
                      /\ id.doc = d
                      /\ id.line \in 1..Len(lines)
  BY DEF HitIds
<1>1. n \in 1..Len(lines) /\ n \in Nat \ {0}
  BY DEF HitLines
<1>2. HitsBefore(lines, pattern, n) \in Nat
  BY <1>1, HitsBeforeType
<1>3. QED
  BY <1>1, <1>2 DEF MatchId

\* Around a line that exists the slice never starts past its end, and it holds
\* that line.
LEMMA SliceHoldsLine ==
  ASSUME NEW lines \in Seq(Lines), NEW line \in 1..Len(lines),
         NEW before \in Nat, NEW after \in Nat
  PROVE  LET start == SliceStart(line, before)
             end   == SliceEnd(lines, line, after)
         IN /\ start <= end
            /\ Slice(lines, start, end) \in Seq(Lines)
            /\ Shows(Slice(lines, start, end), lines[line])
<1> DEFINE start == SliceStart(line, before)
           end   == SliceEnd(lines, line, after)
<1>1. /\ start \in Nat /\ start < line
      /\ end \in Nat /\ line <= end /\ end <= Len(lines)
      /\ start <= end
  BY DEF SliceStart, SliceEnd, Monus, LesserOf
<1>2. \A i \in (start + 1)..end : lines[i] \in Lines
  BY <1>1
<1> HIDE DEF start, end
<1>3. /\ SubSeq(lines, start + 1, end) \in Seq(Lines)
      /\ Len(SubSeq(lines, start + 1, end)) = end - start
      /\ \A i \in 1..(end - start) :
           SubSeq(lines, start + 1, end)[i] = lines[start + i]
  <2>1. /\ SubSeq(lines, start + 1, end) \in Seq(Lines)
        /\ Len(SubSeq(lines, start + 1, end)) =
             IF start + 1 <= end THEN end - (start + 1) + 1 ELSE 0
        /\ \A i \in 1..(end - (start + 1) + 1) :
             SubSeq(lines, start + 1, end)[i] = lines[start + 1 + i - 1]
    BY <1>1, <1>2, SubSeqProperties
  <2>2. start + 1 <= end /\ end - (start + 1) + 1 = end - start
    BY <1>1
  <2>3. \A i \in Nat : start + 1 + i - 1 = start + i
    BY <1>1
  <2>4. QED
    BY <1>1, <2>1, <2>2, <2>3
<1>4. line - start \in 1..(end - start) /\ start + (line - start) = line
  BY <1>1
<1>5. line - start \in 1..Len(SubSeq(lines, start + 1, end))
  BY <1>3, <1>4
<1>6. SubSeq(lines, start + 1, end)[line - start] = lines[line]
  BY <1>3, <1>4
<1>7. QED
  BY <1>1, <1>3, <1>5, <1>6, Zenon DEF start, end, Slice, Shows

\* A number of leading lines is at most the number of lines.
LEMMA FrontBounded ==
  ASSUME NEW lines \in Seq(Lines), NEW S, S \subseteq 1..Len(lines)
  PROVE  Cardinality(S) \in 0..Len(lines)
<1>1. IsFiniteSet(1..Len(lines)) /\ Cardinality(1..Len(lines)) = Len(lines)
  <2>1. Len(lines) \in Nat
    OBVIOUS
  <2>2. /\ IsFiniteSet(1..Len(lines))
        /\ Cardinality(1..Len(lines)) = IF 1 > Len(lines) THEN 0 ELSE Len(lines) - 1 + 1
    BY <2>1, FS_Interval
  <2>3. QED
    BY <2>1, <2>2
<1>2. IsFiniteSet(S) /\ Cardinality(S) <= Len(lines)
  BY <1>1, FS_Subset
<1>3. QED
  BY <1>2, FS_CardinalityType

LEMMA FrontsBounded ==
  ASSUME NEW lines \in Seq(Lines)
  PROVE  /\ \A weight, max : Fitting(weight, lines, max) \in 0..Len(lines)
         /\ \A set : Leading(lines, set) \in 0..Len(lines)
<1>1. ASSUME NEW weight, NEW max PROVE Fitting(weight, lines, max) \in 0..Len(lines)
  <2> DEFINE S == {n \in 1..Len(lines) : Total(weight, SubSeq(lines, 1, n)) <= max}
  <2>1. S \subseteq 1..Len(lines)
    OBVIOUS
  <2> HIDE DEF S
  <2>2. Cardinality(S) \in 0..Len(lines)
    BY <2>1, FrontBounded
  <2>3. QED
    BY <2>2 DEF S, Fitting
<1>2. ASSUME NEW set PROVE Leading(lines, set) \in 0..Len(lines)
  <2> DEFINE S == {n \in 1..Len(lines) : \A m \in 1..n : lines[m] \notin set}
  <2>1. S \subseteq 1..Len(lines)
    OBVIOUS
  <2> HIDE DEF S
  <2>2. Cardinality(S) \in 0..Len(lines)
    BY <2>1, FrontBounded
  <2>3. QED
    BY <2>2 DEF S, Leading
<1>3. QED
  BY <1>1, <1>2

\* What the reads show of a text is a run of its lines, or nothing.
IsExcerpt(text, lines) ==
  \E first \in 1..(Len(lines) + 1), last \in 0..Len(lines) : text = SubSeq(lines, first, last)

LEMMA SubSeqIsSeq ==
  ASSUME NEW lines \in Seq(Lines), NEW first \in Nat \ {0}, NEW last \in 0..Len(lines)
  PROVE  /\ SubSeq(lines, first, last) \in Seq(Lines)
         /\ Len(SubSeq(lines, first, last)) = IF first <= last THEN last - first + 1 ELSE 0
<1>1. \A i \in first..last : lines[i] \in Lines
  OBVIOUS
<1>2. QED
  BY <1>1, SubSeqProperties

LEMMA ExcerptIsText ==
  ASSUME NEW lines \in Seq(Lines), NEW text, IsExcerpt(text, lines)
  PROVE  text \in Seq(Lines)
<1>1. PICK first \in 1..(Len(lines) + 1), last \in 0..Len(lines) : text = SubSeq(lines, first, last)
  BY DEF IsExcerpt
<1>2. first \in Nat \ {0}
  BY <1>1
<1>3. QED
  BY <1>1, <1>2, SubSeqIsSeq

\* A text begins with, and consists of, its first lines.
LEMMA FrontOfFront ==
  ASSUME NEW lines \in Seq(Lines), NEW first \in 1..(Len(lines) + 1),
         NEW last \in 0..Len(lines),
         NEW k \in 0..Len(SubSeq(lines, first, last))
  PROVE  SubSeq(SubSeq(lines, first, last), 1, k) = SubSeq(lines, first, first + k - 1)
<1> DEFINE whole == SubSeq(lines, first, last)
           front == SubSeq(lines, first, first + k - 1)
<1>1. /\ whole \in Seq(Lines)
      /\ Len(whole) = IF first <= last THEN last - first + 1 ELSE 0
  BY SubSeqIsSeq
<1>2. k \in Nat /\ k <= Len(whole) /\ first + k - 1 \in 0..Len(lines)
  BY <1>1
<1>3. \A i \in first..last : lines[i] \in Lines
  OBVIOUS
<1>4. \A i \in 1..k : whole[i] = lines[first + i - 1]
  BY <1>1, <1>2, <1>3, SubSeqProperties
<1>5. /\ front \in Seq(Lines) /\ Len(front) = k
      /\ \A i \in 1..k : front[i] = lines[first + i - 1]
  <2>1. \A i \in first..(first + k - 1) : lines[i] \in Lines
    BY <1>2
  <2>2. \A i \in 1..(first + k - 1 - first + 1) : front[i] = lines[first + i - 1]
    BY <1>2, <2>1, SubSeqProperties
  <2>3. front \in Seq(Lines) /\ Len(front) = k
    BY <1>2, SubSeqIsSeq
  <2>4. QED
    BY <1>2, <2>2, <2>3
<1> HIDE DEF whole, front
<1>6. /\ SubSeq(whole, 1, k) \in Seq(Lines) /\ Len(SubSeq(whole, 1, k)) = k
      /\ \A i \in 1..k : SubSeq(whole, 1, k)[i] = whole[i]
  <2>1. \A i \in 1..k : whole[i] \in Lines
    BY <1>1, <1>2
  <2>2. \A i \in 1..(k - 1 + 1) : SubSeq(whole, 1, k)[i] = whole[1 + i - 1]
    BY <1>2, <2>1, SubSeqProperties
  <2>3. \A i \in 1..k : 1 + i - 1 = i
    OBVIOUS
  <2>4. QED
    BY <1>1, <1>2, <2>1, <2>2, <2>3, SubSeqProperties
<1>7. SubSeq(whole, 1, k) = front
  BY <1>2, <1>4, <1>5, <1>6, SeqEqual
<1>8. QED
  BY <1>7 DEF whole, front

LEMMA PreviewIsExcerpt ==
  ASSUME NEW lines \in Seq(Lines), NEW max
  PROVE  IsExcerpt(Preview(lines, max), lines)
<1>1. Len(lines) \in Nat
  OBVIOUS
<1>2. SubSeq(lines, 1, 0) = <<>>
  BY SubSeqEmpty
<1>3. SubSeq(lines, 1, Len(lines)) = lines
  BY SubSeqFull
<1>4. Fitting(LineTokens, lines, max) \in 0..Len(lines)
  BY FrontsBounded
<1>5. \E n \in 0..Len(lines) : Preview(lines, max) = SubSeq(lines, 1, n)
  <2>1. 0 \in 0..Len(lines) /\ Len(lines) \in 0..Len(lines)
    BY <1>1
  <2>2. CASE max = 0
    BY <1>2, <2>1, <2>2 DEF Preview
  <2>3. CASE max # 0 /\ Tokens(lines) <= max
    BY <1>3, <2>1, <2>3 DEF Preview
  <2>4. CASE max # 0 /\ ~(Tokens(lines) <= max)
    BY <1>4, <2>4 DEF Preview
  <2>5. QED
    BY <2>2, <2>3, <2>4
<1>6. 1 \in 1..(Len(lines) + 1)
  BY <1>1
<1>7. QED
  BY <1>5, <1>6 DEF IsExcerpt

LEMMA SectionIsExcerpt ==
  ASSUME NEW lines \in Seq(Lines), NEW p, NEW max
  PROVE  IsExcerpt(Section(lines, p, max), lines)
<1>1. Preamble(lines, p) \in 0..Len(lines)
  BY FrontsBounded DEF Preamble
<1>2. CASE Preamble(lines, p) = Len(lines)
  <2>1. Section(lines, p, max) = <<>>
    BY <1>2 DEF Section
  <2>2. SubSeq(lines, 1, 0) = <<>>
    BY SubSeqEmpty
  <2>3. 1 \in 1..(Len(lines) + 1) /\ 0 \in 0..Len(lines)
    OBVIOUS
  <2>4. QED
    BY <2>1, <2>2, <2>3 DEF IsExcerpt
<1>3. CASE Preamble(lines, p) # Len(lines)
  <2> DEFINE start == Preamble(lines, p) + 1
             rest  == SubSeq(lines, start + 1, Len(lines))
             last  == start + Leading(rest, Headings)
             whole == SubSeq(lines, start, last)
             kept  == Fitting(SectionTokens, whole, max)
  <2>1. start \in 1..Len(lines)
    BY <1>1, <1>3
  <2>2. rest \in Seq(Lines) /\ Len(rest) = Len(lines) - start
    <3>1. /\ rest \in Seq(Lines)
          /\ Len(rest) = IF start + 1 <= Len(lines) THEN Len(lines) - (start + 1) + 1 ELSE 0
      BY <2>1, SubSeqIsSeq
    <3>2. QED
      BY <2>1, <3>1
  <2>3. last \in 0..Len(lines)
    <3>1. Leading(rest, Headings) \in 0..Len(rest)
      BY <2>2, FrontsBounded
    <3>2. QED
      BY <2>1, <2>2, <3>1
  <2>4. start \in 1..(Len(lines) + 1)
    BY <2>1
  <2>5. whole = WholeSection(lines, p)
    BY DEF WholeSection
  <2>6. whole \in Seq(Lines) /\ Len(whole) <= Len(lines) - start + 1
    BY <2>1, <2>3, SubSeqIsSeq
  <2>7. kept \in 0..Len(whole)
    BY <2>6, FrontsBounded
  <2>8. SubSeq(whole, 1, kept) = SubSeq(lines, start, start + kept - 1)
    BY <2>3, <2>4, <2>7, FrontOfFront
  <2>9. start + kept - 1 \in 0..Len(lines)
    BY <2>1, <2>6, <2>7
  <2>10. Section(lines, p, max) = IF max = 0 THEN whole ELSE SubSeq(whole, 1, kept)
    BY <1>3, <2>5 DEF Section
  <2> HIDE DEF start, kept, last
  <2>11. QED
    BY <2>3, <2>4, <2>8, <2>9, <2>10 DEF IsExcerpt
<1>4. QED
  BY <1>2, <1>3

LEMMA LineRangeIsExcerpt ==
  ASSUME NEW lines \in Seq(Lines), NEW start \in Nat \ {0}, NEW end \in Nat, end >= start
  PROVE  IsExcerpt(LineRange(lines, start, end), lines)
<1>1. CASE start > Len(lines)
  <2>1. LineRange(lines, start, end) = <<>>
    BY <1>1, Zenon DEF LineRange
  <2>2. SubSeq(lines, 1, 0) = <<>>
    BY SubSeqEmpty
  <2>3. 1 \in 1..(Len(lines) + 1) /\ 0 \in 0..Len(lines)
    OBVIOUS
  <2>4. QED
    BY <2>1, <2>2, <2>3 DEF IsExcerpt
<1>2. CASE start <= Len(lines)
  <2>1. LineRange(lines, start, end) = SubSeq(lines, start, LesserOf(end - 1, Len(lines)))
    <3>1. ~(start > Len(lines))
      BY <1>2
    <3>2. QED
      BY <3>1, Zenon DEF LineRange
  <2>2. start \in 1..(Len(lines) + 1) /\ LesserOf(end - 1, Len(lines)) \in 0..Len(lines)
    BY <1>2 DEF LesserOf
  <2>3. QED
    BY <2>1, <2>2 DEF IsExcerpt
<1>3. QED
  BY <1>1, <1>2

---------------------------------------------------------------------------
(* The inductive invariant.                                                *)

LEMMA StoreInvInit == Init => StoreInv
<1> SUFFICES ASSUME Init PROVE StoreInv
  OBVIOUS
<1> USE DocStoreAssumption, SentinelAssumption DEF Init
<1>1. TypeOK
  <2>1. reply \in [Clients -> Replies]
    BY DEF Replies, Statuses, Failure, Answer
  <2>2. version \in [Docs -> 0..MaxInserts]
    OBVIOUS
  <2>3. QED
    BY <2>1, <2>2 DEF TypeOK
<1>2. RegistryCurrent
  BY DEF RegistryCurrent
<1>3. ExpandNeverPanics
  BY DEF ExpandNeverPanics, Failure, Answer
<1>4. GenerationCounts
  BY DEF GenerationCounts
<1>5. CaptureFaithful
  BY DEF CaptureFaithful, Idle
<1>6. IssuedRegistered
  BY DEF IssuedRegistered
<1>7. QED
  BY <1>1, <1>2, <1>3, <1>4, <1>5, <1>6 DEF StoreInv

\* An insert gives its document the next version and the generation counting it.
LEMMA InsertKeepsInv ==
  ASSUME StoreInv, NEW d \in Docs, NEW b \in Bodies, Insert(d, b)
  PROVE  StoreInv'
<1> USE DocStoreAssumption, SentinelAssumption DEF StoreInv
<1> DEFINE new == [raw_text |-> b, generation |-> NextGeneration(d)]
<1>1. version[d] \in Nat /\ version[d] < MaxInserts
  BY DEF TypeOK, Insert
<1>2. NextGeneration(d) = version[d] /\ NextGeneration(d) \in 0..(GENERATION_MODULUS - 1)
  <2>1. CASE docs[d] = NoDoc
    BY <1>1, <2>1 DEF NextGeneration, GenerationCounts
  <2>2. CASE docs[d] # NoDoc
    <3>1. docs[d].generation = version[d] - 1
      BY <2>2 DEF GenerationCounts
    <3>2. (version[d] - 1 + 1) % GENERATION_MODULUS = version[d]
      BY <1>1
    <3>3. QED
      BY <1>1, <2>2, <3>1, <3>2 DEF NextGeneration
  <2>3. QED
    BY <2>1, <2>2
<1>3. new \in StoredDoc /\ new # NoDoc
  BY <1>2 DEF StoredDoc
<1>4. /\ docs' = [docs EXCEPT ![d] = new]
      /\ version' = [version EXCEPT ![d] = @ + 1]
      /\ matches' = [id \in Retained(d) |-> matches[id]]
      /\ UNCHANGED <<scan, reply, issued>>
  BY DEF Insert
<1>5. /\ docs'[d] = new /\ version'[d] = version[d] + 1
      /\ \A e \in Docs \ {d} : docs'[e] = docs[e] /\ version'[e] = version[e]
  BY <1>4 DEF TypeOK
<1> HIDE DEF new
<1>6. TypeOK'
  <2>1. docs' \in [Docs -> StoredDoc \union {NoDoc}]
    BY <1>3, <1>4 DEF TypeOK
  <2>2. DOMAIN matches' \subseteq Handles /\ \A id \in DOMAIN matches' : matches'[id] \in MatchPosition
    BY <1>4 DEF TypeOK, Retained
  <2>3. version' \in [Docs -> 0..MaxInserts]
    BY <1>1, <1>4 DEF TypeOK
  <2>4. QED
    BY <1>4, <2>1, <2>2, <2>3 DEF TypeOK
<1>7. RegistryCurrent'
  <2> SUFFICES ASSUME NEW id \in DOMAIN matches'
               PROVE  RegistryCurrent!(id)'
    BY DEF RegistryCurrent
  <2>1. id \in DOMAIN matches /\ matches[id].doc_id # d /\ matches'[id] = matches[id]
    BY <1>4 DEF Retained
  <2>2. id.doc \in Docs \ {d}
    BY <2>1 DEF RegistryCurrent, TypeOK, Handles
  <2>3. QED
    BY <1>5, <2>1, <2>2 DEF RegistryCurrent
<1>8. ExpandNeverPanics'
  BY <1>4 DEF ExpandNeverPanics
<1>9. GenerationCounts'
  <2> SUFFICES ASSUME NEW e \in Docs
               PROVE  GenerationCounts!(e)'
    BY DEF GenerationCounts
  <2>1. CASE e = d
    BY <1>1, <1>2, <1>3, <1>5, <2>1 DEF new
  <2>2. CASE e # d
    BY <1>5, <2>2 DEF GenerationCounts
  <2>3. QED
    BY <2>1, <2>2
<1>10. CaptureFaithful'
  <2> SUFFICES ASSUME NEW c \in Clients, ~Idle(c)
               PROVE  CaptureFaithful!(c)!2'
    BY <1>4 DEF CaptureFaithful, Idle
  <2>1. scan[c] \in Captured /\ scan'[c] = scan[c]
    BY <1>4 DEF TypeOK, Idle
  <2>2. scan[c].doc \in Docs /\ scan[c].version \in Nat
    BY <2>1 DEF Captured
  <2>3. /\ scan[c].version \in 1..version[scan[c].doc]
        /\ scan[c].generation = scan[c].version - 1
        /\ scan[c].version = version[scan[c].doc] =>
             scan[c].lines = docs[scan[c].doc].raw_text
    BY DEF CaptureFaithful
  <2>4. CASE scan[c].doc = d
    BY <1>1, <1>5, <2>1, <2>2, <2>3, <2>4
  <2>5. CASE scan[c].doc # d
    BY <1>5, <2>1, <2>2, <2>3, <2>5
  <2>6. QED
    BY <2>4, <2>5
<1>11. IssuedRegistered'
  <2> SUFFICES ASSUME NEW h \in issued
               PROVE  IssuedRegistered!(h)'
    BY <1>4 DEF IssuedRegistered
  <2>1. h.id.doc \in Docs /\ h.version \in Nat /\ h.id \in Handles
    BY DEF TypeOK, Handles
  <2>2. /\ h.version <= version[h.id.doc]
        /\ h.version = version[h.id.doc] =>
             /\ h.id \in DOMAIN matches
             /\ h.line_text = docs[h.id.doc].raw_text[h.id.line]
    BY DEF IssuedRegistered
  <2>3. CASE h.id.doc = d
    BY <1>1, <1>5, <2>1, <2>2, <2>3
  <2>4. CASE h.id.doc # d
    <3>1. h.version = version[h.id.doc] => h.id \in DOMAIN matches'
      BY <1>4, <2>2, <2>4 DEF Retained, RegistryCurrent
    <3>2. QED
      BY <1>5, <2>1, <2>2, <2>4, <3>1
  <2>5. QED
    BY <2>3, <2>4
<1>12. QED
  BY <1>6, <1>7, <1>8, <1>9, <1>10, <1>11

\* A step that only answers, and at most ends a grep, keeps the invariant when
\* the answer is a reply other than a panic.
LEMMA AnswerKeepsInv ==
  ASSUME StoreInv, NEW c \in Clients, NEW answer \in Replies,
         answer.status # "panic", Answers(c, answer), UNCHANGED issued,
         scan' = scan \/ scan' = [scan EXCEPT ![c] = NoScan]
  PROVE  StoreInv'
<1> USE DEF StoreInv
<1>1. /\ UNCHANGED <<docs, matches, version, issued>>
      /\ reply' = [reply EXCEPT ![c] = answer]
  BY DEF Answers
<1>2. scan' \in [Clients -> Captured \union {NoScan}]
  BY DEF TypeOK
<1>3. \A k \in Clients : ~Idle(k)' => ~Idle(k) /\ scan'[k] = scan[k]
  BY DEF TypeOK, Idle
<1>4. TypeOK'
  BY <1>1, <1>2 DEF TypeOK
<1>5. RegistryCurrent'
  BY <1>1 DEF RegistryCurrent
<1>6. ExpandNeverPanics'
  BY <1>1 DEF ExpandNeverPanics, TypeOK
<1>7. GenerationCounts'
  BY <1>1 DEF GenerationCounts
<1>8. CaptureFaithful'
  BY <1>1, <1>3 DEF CaptureFaithful
<1>9. IssuedRegistered'
  BY <1>1 DEF IssuedRegistered
<1>10. QED
  BY <1>4, <1>5, <1>6, <1>7, <1>8, <1>9

LEMMA FailureIsReply ==
  ASSUME NEW s \in Statuses
  PROVE  Failure(s) \in Replies /\ Failure(s).status = s
BY DEF Failure, Answer, Replies

LEMMA CaptureKeepsInv ==
  ASSUME StoreInv, NEW c \in Clients, NEW d \in Docs, NEW p \in Patterns,
         NEW limit \in Limits, GrepCapture(c, d, p, limit)
  PROVE  StoreInv'
<1> USE DocStoreAssumption, SentinelAssumption DEF StoreInv
<1> DEFINE s == [doc |-> d, lines |-> docs[d].raw_text,
                 generation |-> docs[d].generation, pattern |-> p,
                 cap |-> Cap(limit), version |-> version[d]]
<1>1. /\ UNCHANGED <<docs, matches, reply, version, issued>>
      /\ docs[d] # NoDoc
      /\ scan' = [scan EXCEPT ![c] = s]
  BY DEF GrepCapture
<1>2. docs[d] \in StoredDoc /\ version[d] \in 1..MaxInserts
  BY <1>1 DEF TypeOK, GenerationCounts
<1>3. s \in Captured
  BY <1>2 DEF Captured, StoredDoc
<1>4. TypeOK'
  BY <1>1, <1>3 DEF TypeOK
<1>5. CaptureFaithful'
  <2> SUFFICES ASSUME NEW k \in Clients, ~Idle(k)'
               PROVE  CaptureFaithful!(k)!2'
    BY DEF CaptureFaithful
  <2>1. CASE k = c
    <3>1. scan'[k] = s
      BY <1>1, <2>1 DEF TypeOK
    <3>2. docs[d].generation = version[d] - 1
      BY <1>1 DEF GenerationCounts
    <3>3. QED
      BY <1>1, <1>2, <3>1, <3>2
  <2>2. CASE k # c
    <3>1. scan'[k] = scan[k] /\ ~Idle(k)
      BY <1>1, <2>2 DEF TypeOK, Idle
    <3>2. QED
      BY <1>1, <3>1 DEF CaptureFaithful
  <2>3. QED
    BY <2>1, <2>2
<1>6. RegistryCurrent' /\ ExpandNeverPanics' /\ GenerationCounts' /\ IssuedRegistered'
  BY <1>1 DEF RegistryCurrent, ExpandNeverPanics, GenerationCounts, IssuedRegistered
<1>7. QED
  BY <1>4, <1>5, <1>6

\* A capture that is still current holds the text of its document, so what it
\* found can be registered.
LEMMA CurrentCapture ==
  ASSUME StoreInv, NEW c \in Clients, ~Idle(c)
  PROVE  LET s == scan[c] IN
           /\ s \in Captured
           /\ s.version \in 1..version[s.doc]
           /\ Current(s) <=> s.version = version[s.doc]
           /\ Current(s) => /\ s.lines = docs[s.doc].raw_text
                            /\ s.generation = docs[s.doc].generation
<1> USE SentinelAssumption DEF StoreInv
<1> DEFINE s == scan[c]
<1>1. s \in Captured
  BY DEF TypeOK, Idle
<1>2. s.doc \in Docs /\ s.version \in Nat /\ version[s.doc] \in Nat
  BY <1>1 DEF Captured, TypeOK
<1>3. /\ s.version \in 1..version[s.doc]
      /\ s.generation = s.version - 1
      /\ s.version = version[s.doc] => s.lines = docs[s.doc].raw_text
  BY DEF CaptureFaithful
<1>4. docs[s.doc] # NoDoc /\ docs[s.doc].generation = version[s.doc] - 1
  BY <1>2, <1>3 DEF GenerationCounts
<1>5. Current(s) <=> s.version = version[s.doc]
  BY <1>2, <1>3, <1>4 DEF Current
<1>6. QED
  BY <1>1, <1>3, <1>4, <1>5

LEMMA RegisterKeepsInv ==
  ASSUME StoreInv, NEW c \in Clients, GrepRegister(c)
  PROVE  StoreInv'
<1> USE DocStoreAssumption, SentinelAssumption DEF StoreInv
<1> DEFINE s == scan[c]
           F == FoundIds(s)
<1>1. /\ UNCHANGED <<docs, version>>
      /\ ~Idle(c)
      /\ Current(s)
      /\ matches' = Registered(s)
      /\ issued' = issued \union
           {[id |-> id, version |-> s.version, line_text |-> s.lines[id.line]] : id \in F}
      /\ reply' = [reply EXCEPT ![c] = Answer("ok", F, <<>>)]
      /\ scan' = [scan EXCEPT ![c] = NoScan]
  BY DEF GrepRegister
<1>2. /\ s \in Captured
      /\ s.version = version[s.doc]
      /\ s.lines = docs[s.doc].raw_text
      /\ s.generation = docs[s.doc].generation
  BY <1>1, CurrentCapture
<1>3. /\ s.doc \in Docs /\ s.lines \in Seq(Lines)
      /\ s.generation \in 0..(GENERATION_MODULUS - 1)
      /\ docs[s.doc] # NoDoc
  BY <1>1, <1>2 DEF Captured, Current
<1>4. \A id \in F : id \in Handles /\ id.doc = s.doc /\ id.line \in 1..Len(s.lines)
  BY <1>3, HitIdsInText DEF FoundIds, Handles
<1>5. /\ DOMAIN matches' = DOMAIN matches \union F
      /\ \A id \in F : matches'[id] =
           [doc_id |-> s.doc, line |-> id.line, generation |-> s.generation]
      /\ \A id \in DOMAIN matches \ F : matches'[id] = matches[id]
  BY <1>1 DEF Registered
<1>6. s.version \in 1..MaxInserts
  BY <1>1, <1>2, <1>3, CurrentCapture DEF TypeOK
<1>7. \A id \in F : s.lines[id.line] \in Lines
  BY <1>3, <1>4
<1>8. \A k \in Clients : ~Idle(k)' => ~Idle(k) /\ scan'[k] = scan[k]
  BY <1>1 DEF TypeOK, Idle
<1> HIDE DEF F, s
<1>9. TypeOK'
  <2>1. DOMAIN matches' \subseteq Handles
    BY <1>4, <1>5 DEF TypeOK
  <2>2. \A id \in DOMAIN matches' : matches'[id] \in MatchPosition
    BY <1>3, <1>4, <1>5 DEF TypeOK, MatchPosition, Handles
  <2>3. scan' \in [Clients -> Captured \union {NoScan}]
    BY <1>1 DEF TypeOK
  <2>4. Answer("ok", F, <<>>) \in Replies
    BY <1>4 DEF Answer, Replies, Statuses
  <2>5. reply' \in [Clients -> Replies]
    BY <1>1, <2>4 DEF TypeOK
  <2>6. issued' \subseteq [id : Handles, version : 1..MaxInserts, line_text : Lines]
    BY <1>1, <1>4, <1>6, <1>7 DEF TypeOK
  <2>7. QED
    BY <1>1, <2>1, <2>2, <2>3, <2>5, <2>6 DEF TypeOK
<1>10. RegistryCurrent'
  <2> SUFFICES ASSUME NEW id \in DOMAIN matches'
               PROVE  RegistryCurrent!(id)'
    BY DEF RegistryCurrent
  <2>1. CASE id \in F
    BY <1>1, <1>2, <1>3, <1>4, <1>5, <2>1
  <2>2. CASE id \notin F
    BY <1>1, <1>5, <2>2 DEF RegistryCurrent
  <2>3. QED
    BY <2>1, <2>2
<1>11. ExpandNeverPanics'
  BY <1>1 DEF ExpandNeverPanics, TypeOK, Answer
<1>12. GenerationCounts'
  BY <1>1 DEF GenerationCounts
<1>13. CaptureFaithful'
  BY <1>1, <1>8 DEF CaptureFaithful
<1>14. IssuedRegistered'
  <2> SUFFICES ASSUME NEW h \in issued'
               PROVE  IssuedRegistered!(h)'
    BY DEF IssuedRegistered
  <2>1. CASE h \in issued
    BY <1>1, <1>5, <2>1 DEF IssuedRegistered
  <2>2. CASE h \notin issued
    <3>1. PICK id \in F : h = [id |-> id, version |-> s.version,
                               line_text |-> s.lines[id.line]]
      BY <1>1, <2>2
    <3>2. h.id = id /\ id.doc = s.doc /\ h.version = version[s.doc] /\ version[s.doc] \in Nat
      BY <1>2, <1>3, <1>4, <3>1 DEF TypeOK
    <3>3. QED
      BY <1>1, <1>2, <1>5, <3>1, <3>2
  <2>3. QED
    BY <2>1, <2>2
<1>15. QED
  BY <1>9, <1>10, <1>11, <1>12, <1>13, <1>14

\* The expansion of an id succeeds exactly when the id is registered for that
\* document, and it shows the line of the current text that the id names.
LEMMA ExpandSound ==
  ASSUME StoreInv, NEW d \in Docs, NEW id, NEW before \in Nat, NEW after \in Nat
  PROVE  /\ ExpandStatus(d, id, before, after) =
              IF id \in DOMAIN matches /\ id.doc = d THEN "ok" ELSE "MatchNotFound"
         /\ id \in DOMAIN matches /\ id.doc = d =>
              /\ ExpandText(d, id, before, after) =
                   Slice(docs[d].raw_text, SliceStart(id.line, before),
                         SliceEnd(docs[d].raw_text, id.line, after))
              /\ ExpandText(d, id, before, after) \in Seq(Lines)
              /\ Shows(ExpandText(d, id, before, after), docs[d].raw_text[id.line])
<1> USE DocStoreAssumption, SentinelAssumption DEF StoreInv
<1>1. CASE id \in DOMAIN matches /\ id.doc = d
  <2>1. /\ matches[id].doc_id = d
        /\ matches[id].line = id.line
        /\ docs[d] # NoDoc
        /\ matches[id].generation = docs[d].generation
        /\ id.line \in 1..Len(docs[d].raw_text)
    BY <1>1 DEF RegistryCurrent
  <2>2. docs[d].raw_text \in Seq(Lines)
    BY <2>1 DEF TypeOK, StoredDoc
  <2> DEFINE text == docs[d].raw_text
             start == SliceStart(id.line, before)
             end   == SliceEnd(text, id.line, after)
  <2>3. /\ start <= end
        /\ Slice(text, start, end) \in Seq(Lines)
        /\ Shows(Slice(text, start, end), text[id.line])
    BY <2>1, <2>2, SliceHoldsLine
  <2>4. start \in Nat /\ end \in Nat
    BY <2>1, <2>2 DEF SliceStart, SliceEnd, Monus, LesserOf
  <2> HIDE DEF text, start, end
  <2>5. ~(start > end)
    BY <2>3, <2>4
  <2>6. ExpandStatus(d, id, before, after) = "ok"
    BY <1>1, <2>1, <2>5 DEF ExpandStatus, text, start, end
  <2>7. ExpandText(d, id, before, after) = Slice(text, start, end)
    BY <2>1 DEF ExpandText, text, start, end
  <2>8. QED
    BY <1>1, <2>3, <2>6, <2>7 DEF text, start, end
<1>2. CASE ~(id \in DOMAIN matches /\ id.doc = d)
  BY <1>2 DEF ExpandStatus, RegistryCurrent
<1>3. QED
  BY <1>1, <1>2

LEMMA ExpandKeepsInv ==
  ASSUME StoreInv, NEW c \in Clients, NEW d \in Docs, NEW id, NEW before \in Radii,
         NEW after \in Radii, Expand(c, d, id, before, after)
  PROVE  StoreInv'
<1> DEFINE status == ExpandStatus(d, id, before, after)
           answer == IF status = "ok"
                       THEN Answer("ok", {}, ExpandText(d, id, before, after))
                       ELSE Failure(status)
<1>1. Answers(c, answer) /\ UNCHANGED <<scan, issued>>
  BY DEF Expand
<1>2. before \in Nat /\ after \in Nat
  BY DocStoreAssumption
<1>3. CASE id \in DOMAIN matches /\ id.doc = d
  <2>1. status = "ok" /\ ExpandText(d, id, before, after) \in Seq(Lines)
    BY <1>2, <1>3, ExpandSound
  <2>2. answer \in Replies /\ answer.status # "panic"
    BY <2>1 DEF Answer, Replies, Statuses
  <2>3. QED
    BY <1>1, <2>2, AnswerKeepsInv
<1>4. CASE ~(id \in DOMAIN matches /\ id.doc = d)
  <2>1. status = "MatchNotFound"
    BY <1>2, <1>4, ExpandSound
  <2>2. answer \in Replies /\ answer.status # "panic"
    BY <2>1, FailureIsReply DEF Statuses
  <2>3. QED
    BY <1>1, <2>2, AnswerKeepsInv
<1>5. QED
  BY <1>3, <1>4

\* The answer of a read: an error, or an excerpt of the current text.
ReadAnswer(answer) ==
  \/ \E s \in {"InvalidPattern", "InvalidLineRange"} : answer = Failure(s)
  \/ \E d \in Docs : docs[d] = NoDoc /\ answer = Failure("DocNotFound")
  \/ \E d \in Docs : \E text :
       docs[d] # NoDoc /\ IsExcerpt(text, docs[d].raw_text) /\ answer = Answer("ok", {}, text)

Read ==
  \E c \in Clients :
    \/ \E d \in Docs : DocTokenCount(c, d)
    \/ \E d \in Docs, max \in Budgets : DocPreview(c, d, max)
    \/ \E d \in Docs, compiles \in BOOLEAN, p \in Patterns, max \in Budgets :
         DocSection(c, d, compiles, p, max)
    \/ \E d \in Docs, start, end \in LineNumbers : DocLines(c, d, start, end)

LEMMA ReadsExcerpts ==
  ASSUME StoreInv, Read
  PROVE  \E c \in Clients : \E answer : Reads(c, answer) /\ ReadAnswer(answer)
<1> USE DEF StoreInv
<1>1. ASSUME NEW d \in Docs, docs[d] # NoDoc PROVE docs[d].raw_text \in Seq(Lines)
  BY <1>1, DocStoreAssumption DEF TypeOK, StoredDoc
<1>2. ASSUME NEW d \in Docs, NEW text,
             docs[d] # NoDoc => IsExcerpt(text, docs[d].raw_text)
      PROVE  ReadAnswer(ReadText(d, text))
  BY <1>2 DEF ReadText, ReadAnswer
<1>3. ASSUME NEW c \in Clients, NEW d \in Docs, DocTokenCount(c, d)
      PROVE  Reads(c, ReadText(d, <<>>)) /\ ReadAnswer(ReadText(d, <<>>))
  <2>1. docs[d] # NoDoc => IsExcerpt(<<>>, docs[d].raw_text)
    <3> SUFFICES ASSUME docs[d] # NoDoc PROVE IsExcerpt(<<>>, docs[d].raw_text)
      OBVIOUS
    <3>1. SubSeq(docs[d].raw_text, 1, 0) = <<>>
      BY SubSeqEmpty
    <3>2. Len(docs[d].raw_text) \in Nat
      BY <1>1
    <3>3. 1 \in 1..(Len(docs[d].raw_text) + 1) /\ 0 \in 0..Len(docs[d].raw_text)
      BY <3>2
    <3>4. QED
      BY <3>1, <3>3 DEF IsExcerpt
  <2>2. QED
    BY <1>2, <1>3, <2>1 DEF DocTokenCount
<1>4. ASSUME NEW c \in Clients, NEW d \in Docs, NEW max \in Budgets, DocPreview(c, d, max)
      PROVE  \E answer : Reads(c, answer) /\ ReadAnswer(answer)
  BY <1>1, <1>2, <1>4, PreviewIsExcerpt DEF DocPreview
<1>5. ASSUME NEW c \in Clients, NEW d \in Docs, NEW compiles \in BOOLEAN, NEW p \in Patterns,
             NEW max \in Budgets, DocSection(c, d, compiles, p, max)
      PROVE  \E answer : Reads(c, answer) /\ ReadAnswer(answer)
  <2>1. ReadAnswer(ReadText(d, Section(docs[d].raw_text, p, max)))
    BY <1>1, <1>2, SectionIsExcerpt
  <2>2. ReadAnswer(Failure("InvalidPattern"))
    BY DEF ReadAnswer
  <2>3. QED
    BY <1>5, <2>1, <2>2 DEF DocSection
<1>6. ASSUME NEW c \in Clients, NEW d \in Docs, NEW start \in LineNumbers,
             NEW end \in LineNumbers, DocLines(c, d, start, end)
      PROVE  \E answer : Reads(c, answer) /\ ReadAnswer(answer)
  <2>1. start \in Nat /\ end \in Nat
    BY ReadAssumption
  <2>2. ASSUME ~(start = 0 \/ end < start)
        PROVE  ReadAnswer(ReadText(d, LineRange(docs[d].raw_text, start, end)))
    <3>1. start \in Nat \ {0} /\ end >= start
      BY <2>1, <2>2
    <3>2. docs[d] # NoDoc =>
            IsExcerpt(LineRange(docs[d].raw_text, start, end), docs[d].raw_text)
      BY <1>1, <2>1, <3>1, LineRangeIsExcerpt
    <3>3. QED
      BY <1>2, <3>2
  <2>3. ReadAnswer(Failure("InvalidLineRange"))
    BY DEF ReadAnswer
  <2>4. QED
    BY <1>6, <2>2, <2>3 DEF DocLines
<1>7. QED
  BY <1>3, <1>4, <1>5, <1>6 DEF Read

LEMMA ReadKeepsInv ==
  ASSUME StoreInv, Read
  PROVE  StoreInv'
<1>0. PICK c \in Clients : \E answer : Reads(c, answer) /\ ReadAnswer(answer)
  BY ReadsExcerpts
<1>1. PICK answer : Reads(c, answer) /\ ReadAnswer(answer)
  BY <1>0
<1>2. answer \in Replies /\ answer.status # "panic"
  <2>1. CASE \E s \in {"InvalidPattern", "InvalidLineRange", "DocNotFound"} : answer = Failure(s)
    BY <2>1, FailureIsReply DEF Statuses
  <2>2. CASE \E d \in Docs : \E text :
               /\ docs[d] # NoDoc /\ IsExcerpt(text, docs[d].raw_text)
               /\ answer = Answer("ok", {}, text)
    <3>0. PICK d \in Docs : \E text :
               /\ docs[d] # NoDoc /\ IsExcerpt(text, docs[d].raw_text)
               /\ answer = Answer("ok", {}, text)
      BY <2>2
    <3>1. PICK text : /\ docs[d] # NoDoc /\ IsExcerpt(text, docs[d].raw_text)
                      /\ answer = Answer("ok", {}, text)
      BY <3>0
    <3>2. docs[d].raw_text \in Seq(Lines)
      BY <3>1, DocStoreAssumption DEF StoreInv, TypeOK, StoredDoc
    <3>3. text \in Seq(Lines)
      BY <3>1, <3>2, ExcerptIsText
    <3>4. QED
      BY <3>1, <3>3 DEF Answer, Replies, Statuses
  <2>3. QED
    BY <1>1, <2>1, <2>2 DEF ReadAnswer
<1>3. QED
  BY <1>1, <1>2, AnswerKeepsInv DEF Reads

LEMMA StoreInvStep == StoreInv /\ [Next]_vars => StoreInv'
<1> SUFFICES ASSUME StoreInv, [Next]_vars PROVE StoreInv'
  OBVIOUS
<1> USE FailureIsReply DEF Statuses
<1>1. ASSUME NEW d \in Docs, NEW b \in Bodies, Insert(d, b) PROVE StoreInv'
  BY <1>1, InsertKeepsInv
<1>2. ASSUME NEW c \in Clients, GrepBadPattern(c) PROVE StoreInv'
  BY <1>2, AnswerKeepsInv DEF GrepBadPattern
<1>3. ASSUME NEW c \in Clients, NEW limit \in Limits, GrepNoneWanted(c, limit)
      PROVE StoreInv'
  BY <1>3, AnswerKeepsInv DEF GrepNoneWanted
<1>4. ASSUME NEW c \in Clients, NEW d \in Docs, NEW limit \in Limits,
             GrepMissing(c, d, limit)
      PROVE StoreInv'
  BY <1>4, AnswerKeepsInv DEF GrepMissing
<1>5. ASSUME NEW c \in Clients, NEW d \in Docs, NEW p \in Patterns, NEW limit \in Limits,
             GrepCapture(c, d, p, limit)
      PROVE StoreInv'
  BY <1>5, CaptureKeepsInv
<1>6. ASSUME NEW c \in Clients, GrepRegister(c) PROVE StoreInv'
  BY <1>6, RegisterKeepsInv
<1>7. ASSUME NEW c \in Clients, GrepOvertaken(c) PROVE StoreInv'
  BY <1>7, AnswerKeepsInv DEF GrepOvertaken
<1>8. ASSUME NEW c \in Clients, NEW d \in Docs, NEW id \in MatchIds,
             NEW before \in Radii, NEW after \in Radii, Expand(c, d, id, before, after)
      PROVE StoreInv'
  BY <1>8, ExpandKeepsInv
<1>9. CASE Read
  BY <1>9, ReadKeepsInv
<1>10. CASE UNCHANGED vars
  BY <1>10 DEF vars, StoreInv, TypeOK, RegistryCurrent, ExpandNeverPanics,
              GenerationCounts, CaptureFaithful, IssuedRegistered, Idle
<1>11. QED
  BY <1>1, <1>2, <1>3, <1>4, <1>5, <1>6, <1>7, <1>8, <1>9, <1>10 DEF Next, Read

THEOREM StoreInvariant == Spec => []StoreInv
<1>1. QED
  BY StoreInvInit, StoreInvStep, PTL DEF Spec

---------------------------------------------------------------------------
(* The safety properties.                                                  *)

\* All variables keep their types.
THEOREM TypeCorrect == Spec => []TypeOK
<1>1. StoreInv => TypeOK
  BY DEF StoreInv
<1>2. QED
  BY <1>1, StoreInvariant, PTL

\* The registry never outlives the texts its positions were computed from,
\* however inserts and the halves of greps interleave.
THEOREM RegistryStaysCurrent == Spec => []RegistryCurrent
<1>1. StoreInv => RegistryCurrent
  BY DEF StoreInv
<1>2. QED
  BY <1>1, StoreInvariant, PTL

\* doc_expand_around never slices out of range.
THEOREM ExpansionIsSafe == Spec => []ExpandNeverPanics
<1>1. StoreInv => ExpandNeverPanics
  BY DEF StoreInv
<1>2. QED
  BY <1>1, StoreInvariant, PTL

\* A handle keeps expanding to its line until its own document is replaced.
THEOREM HandlesLive == Spec => []LiveHandleExpands
<1>1. StoreInv => LiveHandleExpands
  <2> SUFFICES ASSUME StoreInv, NEW h \in issued, h.version = version[h.id.doc],
                      NEW before \in Radii, NEW after \in Radii
               PROVE  LiveHandleExpands!(h)!2!(before, after)
    BY DEF LiveHandleExpands
  <2>1. before \in Nat /\ after \in Nat
    BY DocStoreAssumption
  <2>2. h.id.doc \in Docs
    BY DEF StoreInv, TypeOK, Handles
  <2>3. /\ h.id \in DOMAIN matches
        /\ h.line_text = docs[h.id.doc].raw_text[h.id.line]
    BY DEF StoreInv, IssuedRegistered
  <2>4. QED
    BY <2>1, <2>2, <2>3, ExpandSound
<1>2. QED
  BY <1>1, StoreInvariant, PTL

\* A grep answers with the hits of the text current at that moment, or with
\* nothing because the document was replaced while it searched.
THEOREM GrepsAnswerCurrentText == Spec => GrepAnswersCurrentText
<1> DEFINE Good == \A c \in Clients : GrepEnds(c) => reply'[c].ids = GrepAnswer(scan[c])
<1>1. StoreInv /\ [Next]_vars => [Good]_vars
  <2> SUFFICES ASSUME StoreInv, Next, NEW c \in Clients, GrepEnds(c)
               PROVE  reply'[c].ids = GrepAnswer(scan[c])
    OBVIOUS
  <2>1. ~Idle(c) /\ scan'[c] # scan[c] /\ scan \in [Clients -> Captured \union {NoScan}]
        /\ reply \in [Clients -> Replies]
    BY DEF GrepEnds, Idle, StoreInv, TypeOK
  <2>2. GrepRegister(c) \/ GrepOvertaken(c)
    BY <2>1, SentinelAssumption
       DEF Next, GrepEnds, Insert, GrepBadPattern, GrepNoneWanted, GrepMissing,
           GrepCapture, GrepRegister, GrepOvertaken, Expand, Reads, DocTokenCount,
           DocPreview, DocSection, DocLines, Idle
  <2>3. CASE GrepRegister(c)
    <3>1. reply'[c].ids = FoundIds(scan[c]) /\ Current(scan[c])
      BY <2>1, <2>3 DEF GrepRegister, Answer
    <3>2. QED
      BY <2>1, <3>1, CurrentCapture DEF FoundIds, GrepAnswer
  <2>4. CASE GrepOvertaken(c)
    <3>1. reply'[c].ids = {} /\ ~Current(scan[c])
      BY <2>1, <2>4 DEF GrepOvertaken, Answers, Failure, Answer
    <3>2. QED
      BY <2>1, <3>1, CurrentCapture DEF GrepAnswer
  <2>5. QED
    BY <2>2, <2>3, <2>4
<1>2. QED
  BY <1>1, StoreInvariant, PTL DEF Spec, GrepAnswersCurrentText

---------------------------------------------------------------------------
(* The two-half store implements the atomic one.                           *)

LEMMA HandlesAreRegistered == StoreInv => AbsHandles = DOMAIN matches
BY DEF StoreInv, RegistryCurrent, AbsHandles

\* The abstract module's text helpers are this module's.
LEMMA SameText ==
  /\ \A s : Abs!Failure(s) = Failure(s)
  /\ \A s, ids, text : Abs!Answer(s, ids, text) = Answer(s, ids, text)
  /\ \A m, n : Abs!LesserOf(m, n) = LesserOf(m, n)
  /\ \A d, lines, pattern, cap :
       Abs!HitIds(d, lines, pattern, cap) = HitIds(d, lines, pattern, cap)
  /\ \A line, before : Abs!SliceStart(line, before) = SliceStart(line, before)
  /\ \A lines, line, after :
       Abs!SliceEnd(lines, line, after) = SliceEnd(lines, line, after)
  /\ \A lines, start, end : Abs!Slice(lines, start, end) = Slice(lines, start, end)
<1>1. \A m, n : Abs!LesserOf(m, n) = LesserOf(m, n) /\ Abs!Monus(m, n) = Monus(m, n)
  BY DEF Abs!LesserOf, LesserOf, Abs!Monus, Monus
<1>2. \A s, ids, text : Abs!Answer(s, ids, text) = Answer(s, ids, text)
  BY DEF Abs!Answer, Answer
<1>3. \A s : Abs!Failure(s) = Failure(s)
  BY <1>2 DEF Abs!Failure, Failure
<1>4. \A lines, pattern, n :
        Abs!HitsBefore(lines, pattern, n) = HitsBefore(lines, pattern, n)
  BY DEF Abs!HitsBefore, HitsBefore, Abs!Cardinality, Cardinality
<1>5. \A lines, pattern, cap :
        Abs!HitLines(lines, pattern, cap) = HitLines(lines, pattern, cap)
  BY <1>4, Zenon DEF Abs!HitLines, HitLines
<1>6. \A d, line, index : Abs!MatchId(d, line, index) = MatchId(d, line, index)
  BY DEF Abs!MatchId, MatchId
<1>7. \A d, lines, pattern, cap :
        Abs!HitIds(d, lines, pattern, cap) = HitIds(d, lines, pattern, cap)
  BY <1>4, <1>5, <1>6 DEF Abs!HitIds, HitIds
<1>8. /\ \A line, before : Abs!SliceStart(line, before) = SliceStart(line, before)
      /\ \A lines, line, after :
           Abs!SliceEnd(lines, line, after) = SliceEnd(lines, line, after)
  BY <1>1 DEF Abs!SliceStart, SliceStart, Abs!SliceEnd, SliceEnd
<1>9. \A lines, start, end : Abs!Slice(lines, start, end) = Slice(lines, start, end)
  BY DEF Abs!Slice, Slice
<1>10. QED
  BY <1>1, <1>2, <1>3, <1>7, <1>8, <1>9

LEMMA StepImplementsAbs ==
  ASSUME StoreInv, StoreInv', Next
  PROVE  [Abs!AbsNext]_(Abs!absVars)
<1> USE DocStoreAssumption, SentinelAssumption, SameText
<1>1. AbsHandles = DOMAIN matches /\ AbsHandles' = DOMAIN matches'
  <2>1. AbsHandles = DOMAIN matches
    BY HandlesAreRegistered
  <2>2. AbsHandles' = DOMAIN matches'
    BY DEF StoreInv, RegistryCurrent, AbsHandles
  <2>3. QED
    BY <2>1, <2>2
<1>2. \A d \in Docs : docs[d] # NoDoc => AbsBody[d] = docs[d].raw_text /\ AbsBody[d] # NoDoc
  BY DEF AbsBody, StoreInv, TypeOK, StoredDoc
<1>3. \A d \in Docs : docs[d] = NoDoc => AbsBody[d] = NoDoc
  BY DEF AbsBody
<1>4. ASSUME NEW c \in Clients, NEW answer, Answers(c, answer)
      PROVE  UNCHANGED <<AbsBody, AbsHandles>> /\ reply' = [reply EXCEPT ![c] = answer]
  BY <1>1, <1>4 DEF Answers, AbsBody
<1>5. ASSUME NEW d \in Docs, NEW b \in Bodies, Insert(d, b)
      PROVE  Abs!AbsInsert(d, b)
  <2>1. AbsBody' = [AbsBody EXCEPT ![d] = b]
    <3>1. docs' = [docs EXCEPT ![d] = [raw_text |-> b, generation |-> NextGeneration(d)]]
      BY <1>5 DEF Insert
    <3>2. docs'[d].raw_text = b /\ docs'[d] # NoDoc
      <4>1. docs'[d] = [raw_text |-> b, generation |-> NextGeneration(d)]
        BY <3>1 DEF StoreInv, TypeOK
      <4>2. version'[d] = version[d] + 1 /\ version[d] \in Nat
        BY <1>5 DEF Insert, StoreInv, TypeOK
      <4>3. QED
        BY <4>1, <4>2 DEF StoreInv, GenerationCounts
    <3>3. \A e \in Docs \ {d} : docs'[e] = docs[e]
      BY <3>1 DEF StoreInv, TypeOK
    <3>4. QED
      BY <3>2, <3>3 DEF AbsBody
  <2>2. AbsHandles' = {id \in AbsHandles : id.doc # d}
    BY <1>1, <1>5 DEF Insert, Retained, StoreInv, RegistryCurrent
  <2>3. UNCHANGED reply
    BY <1>5 DEF Insert
  <2>4. QED
    BY <2>1, <2>2, <2>3 DEF Abs!AbsInsert
<1>6. ASSUME NEW c \in Clients, GrepBadPattern(c)
      PROVE  Abs!AbsGrepNothing(c)
  BY <1>4, <1>6 DEF GrepBadPattern, Abs!AbsGrepNothing
<1>7. ASSUME NEW c \in Clients, NEW limit \in Limits, GrepNoneWanted(c, limit)
      PROVE  Abs!AbsGrepNothing(c)
  BY <1>4, <1>7 DEF GrepNoneWanted, Abs!AbsGrepNothing
<1>8. ASSUME NEW c \in Clients, NEW d \in Docs, NEW limit \in Limits,
             GrepMissing(c, d, limit)
      PROVE  Abs!AbsMissing(c, d)
  BY <1>3, <1>4, <1>8 DEF GrepMissing, Abs!AbsMissing
<1>9. ASSUME NEW c \in Clients, NEW d \in Docs, NEW p \in Patterns,
             NEW limit \in Limits, GrepCapture(c, d, p, limit)
      PROVE  UNCHANGED Abs!absVars
  BY <1>1, <1>9 DEF GrepCapture, AbsBody, Abs!absVars
<1>10. ASSUME NEW c \in Clients, GrepOvertaken(c)
       PROVE  Abs!AbsGrepNothing(c)
  BY <1>4, <1>10 DEF GrepOvertaken, Abs!AbsGrepNothing
<1>11. ASSUME NEW c \in Clients, NEW d \in Docs, NEW id \in MatchIds,
              NEW before \in Radii, NEW after \in Radii, Expand(c, d, id, before, after)
       PROVE  Abs!AbsExpand(c, d, id, before, after)
  <2> DEFINE status == ExpandStatus(d, id, before, after)
             answer == IF status = "ok"
                         THEN Answer("ok", {}, ExpandText(d, id, before, after))
                         ELSE Failure(status)
  <2>1. Answers(c, answer)
    BY <1>11 DEF Expand
  <2>2. before \in Nat /\ after \in Nat
    OBVIOUS
  <2>3. CASE id \in AbsHandles /\ id.doc = d
    <3>1. docs[d] # NoDoc
      BY <1>1, <2>3 DEF StoreInv, RegistryCurrent
    <3>2. answer = Answer("ok", {}, Slice(AbsBody[d], SliceStart(id.line, before),
                                          SliceEnd(AbsBody[d], id.line, after)))
      <4>1. AbsBody[d] = docs[d].raw_text
        BY <1>2, <3>1
      <4>2. status = "ok"
        BY <1>1, <2>2, <2>3, ExpandSound
      <4>3. ExpandText(d, id, before, after) =
              Slice(docs[d].raw_text, SliceStart(id.line, before),
                    SliceEnd(docs[d].raw_text, id.line, after))
        BY <1>1, <2>2, <2>3, ExpandSound
      <4>4. QED
        BY <4>1, <4>2, <4>3
    <3>3. QED
      BY <1>4, <2>1, <2>3, <3>2 DEF Abs!AbsExpand
  <2>4. CASE ~(id \in AbsHandles /\ id.doc = d)
    <3>1. answer = Failure("MatchNotFound")
      BY <1>1, <2>2, <2>4, ExpandSound
    <3>2. QED
      BY <1>4, <2>1, <2>4, <3>1 DEF Abs!AbsExpand
  <2>5. QED
    BY <2>3, <2>4

<1>12. ASSUME NEW c \in Clients, GrepRegister(c)
       PROVE  \E d \in Docs, p \in Patterns, limit \in Limits : Abs!AbsGrep(c, d, p, limit)
  <2> DEFINE s == scan[c]
  <2>1. ~Idle(c) /\ Current(s)
    BY <1>12 DEF GrepRegister
  <2>2. s \in Captured /\ s.lines = docs[s.doc].raw_text
    BY <2>1, CurrentCapture
  <2>3. PICK limit \in Limits : s.cap = Cap(limit)
    BY <2>2 DEF Captured
  <2>4. s.doc \in Docs /\ s.pattern \in Patterns
    BY <2>2 DEF Captured
  <2>5. AbsBody[s.doc] = s.lines /\ AbsBody[s.doc] # NoDoc
    BY <1>2, <2>1, <2>2, <2>4 DEF Current
  <2>6. FoundIds(s) = HitIds(s.doc, AbsBody[s.doc], s.pattern, LesserOf(limit, MAX_MATCHES_CAP))
    BY <2>3, <2>5 DEF FoundIds, Cap
  <2>7. AbsHandles' = AbsHandles \union FoundIds(s)
    BY <1>1, <1>12 DEF GrepRegister, Registered
  <2>8. UNCHANGED AbsBody /\ reply' = [reply EXCEPT ![c] = Answer("ok", FoundIds(s), <<>>)]
    BY <1>12 DEF GrepRegister, AbsBody
  <2>9. Abs!AbsGrep(c, s.doc, s.pattern, limit)
    BY <2>5, <2>6, <2>7, <2>8 DEF Abs!AbsGrep
  <2>10. QED
    BY <2>3, <2>4, <2>9
<1>13. ASSUME Read
       PROVE  \E c \in Clients :
                \/ Abs!AbsReadRefused(c)
                \/ \E d \in Docs : Abs!AbsMissing(c, d) \/ Abs!AbsRead(c, d)
  <2>0. PICK c \in Clients : \E answer : Reads(c, answer) /\ ReadAnswer(answer)
    BY <1>13, ReadsExcerpts
  <2>1. PICK answer : Reads(c, answer) /\ ReadAnswer(answer)
    BY <2>0
  <2>2. UNCHANGED <<AbsBody, AbsHandles>> /\ reply' = [reply EXCEPT ![c] = answer]
    BY <1>4, <2>1 DEF Reads
  <2>3. CASE \E s \in {"InvalidPattern", "InvalidLineRange"} : answer = Failure(s)
    BY <2>2, <2>3 DEF Abs!AbsReadRefused
  <2>4. CASE \E d \in Docs : docs[d] = NoDoc /\ answer = Failure("DocNotFound")
    BY <1>3, <2>2, <2>4 DEF Abs!AbsMissing
  <2>5. CASE \E d \in Docs : \E text :
               /\ docs[d] # NoDoc /\ IsExcerpt(text, docs[d].raw_text)
               /\ answer = Answer("ok", {}, text)
    <3>0. PICK d \in Docs : \E text :
               /\ docs[d] # NoDoc /\ IsExcerpt(text, docs[d].raw_text)
               /\ answer = Answer("ok", {}, text)
      BY <2>5
    <3>1. PICK text : /\ docs[d] # NoDoc /\ IsExcerpt(text, docs[d].raw_text)
                      /\ answer = Answer("ok", {}, text)
      BY <3>0
    <3>2. AbsBody[d] = docs[d].raw_text /\ AbsBody[d] # NoDoc
      BY <1>2, <3>1
    <3>3. PICK first \in 1..(Len(AbsBody[d]) + 1), last \in 0..Len(AbsBody[d]) :
            text = SubSeq(AbsBody[d], first, last)
      BY <3>1, <3>2, Zenon DEF IsExcerpt
    <3>4. reply' = [reply EXCEPT ![c] = Abs!Answer("ok", {}, SubSeq(AbsBody[d], first, last))]
      BY <2>2, <3>1, <3>3, Zenon
    <3>5. Abs!AbsRead(c, d)
      BY <2>2, <3>2, <3>4, Zenon DEF Abs!AbsRead
    <3>6. QED
      BY <3>5
  <2>6. QED
    BY <2>1, <2>3, <2>4, <2>5 DEF ReadAnswer
<1>14. QED
  BY <1>5, <1>6, <1>7, <1>8, <1>9, <1>10, <1>11, <1>12, <1>13 DEF Next, Read, Abs!AbsNext

\* Every behaviour of the store, its locks and generations hidden, is a
\* behaviour of the atomic store.
THEOREM StoreRefinesAbs == Spec => RefinesAbs
<1>1. Init => Abs!AbsInit
  BY SameText DEF Init, Abs!AbsInit, AbsBody, AbsHandles
<1>2. StoreInv /\ StoreInv' /\ [Next]_vars => [Abs!AbsNext]_(Abs!absVars)
  <2>1. CASE Next
    BY <2>1, StepImplementsAbs
  <2>2. CASE UNCHANGED vars
    BY <2>2 DEF vars, Abs!absVars, AbsBody, AbsHandles
  <2>3. QED
    BY <2>1, <2>2
<1>3. QED
  BY <1>1, <1>2, StoreInvariant, PTL DEF Spec, RefinesAbs, Abs!AbsSpec

=============================================================================
