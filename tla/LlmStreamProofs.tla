--------------------------- MODULE LlmStreamProofs --------------------------
(***************************************************************************)
(* Proofs about LlmStream: for every server, every way the network cuts    *)
(* what it says and every number of retries, a reply is what the server    *)
(* said.                                                                   *)
(***************************************************************************)
EXTENDS LlmStream, SequenceTheorems, WellFoundedInduction, NaturalsInduction, TLAPS

---------------------------------------------------------------------------
(* Induction and recursion over the prefixes of a sequence.                *)

(* A set with 0 and every successor holds the naturals.                    *)
LEMMA SetInduction ==
  ASSUME NEW S, 0 \in S, \A n \in Nat : n \in S => n + 1 \in S
  PROVE  Nat \subseteq S
<1> DEFINE R == OpToRel(<, Nat)
           T == Nat \ S
<1>1. \A x, y \in Nat : x < y => <<x, y>> \in R
  BY DEF OpToRel
<1>2. ASSUME T # {} PROVE FALSE
  <2>1. IsWellFoundedOn(R, Nat)
    BY NatLessThanWellFounded
  <2> HIDE DEF R
  <2>2. PICK x \in T : \A y \in T : ~ (<<y, x>> \in R)
    BY <1>2, <2>1, WFMin
  <2>3. x # 0 /\ x - 1 \in Nat /\ x - 1 < x
    OBVIOUS
  <2>4. x - 1 \notin T
    BY <1>1, <2>2, <2>3
  <2>5. (x - 1) + 1 \in S
    BY <2>3, <2>4
  <2> QED BY <2>5, <2>2
<1> QED BY <1>2

(* A recursion over 1..n has a solution, and it has the type of its steps. *)
Solves(f, n, D, base, step) ==
  /\ f \in [0..n -> D]
  /\ f[0] = base
  /\ \A i \in 1..n : f[i] = step[i][f[i - 1]]

LEMMA PrefixRecursion ==
  ASSUME NEW D, NEW base \in D, NEW n \in Nat, NEW step \in [1..n -> [D -> D]]
  PROVE  \E f : Solves(f, n, D, base, step)
<1> DEFINE S == {m \in Nat : m <= n => \E f : Solves(f, m, D, base, step)}
<1>1. 0 \in S
  <2>1. Solves([i \in 0..0 |-> base], 0, D, base, step)
    BY DEF Solves
  <2> QED BY <2>1
<1>2. ASSUME NEW m \in Nat, m \in S PROVE m + 1 \in S
  <2>1. SUFFICES ASSUME m + 1 <= n PROVE \E f : Solves(f, m + 1, D, base, step)
    OBVIOUS
  <2>2. PICK f : Solves(f, m, D, base, step)
    BY <1>2, <2>1
  <2>3. f[m] \in D /\ step[m + 1][f[m]] \in D
    BY <2>1, <2>2 DEF Solves
  <2> DEFINE g == [i \in 0..(m + 1) |-> IF i <= m THEN f[i] ELSE step[m + 1][f[m]]]
  <2>4. g \in [0..(m + 1) -> D] /\ g[0] = base
    BY <2>2, <2>3 DEF Solves
  <2>5. ASSUME NEW i \in 1..(m + 1) PROVE g[i] = step[i][g[i - 1]]
    <3>1. g[i - 1] = f[i - 1]
      OBVIOUS
    <3>2. CASE i = m + 1
      BY <3>1, <3>2
    <3>3. CASE i \in 1..m
      BY <2>2, <3>1, <3>3 DEF Solves
    <3> QED BY <3>2, <3>3
  <2> HIDE DEF g
  <2> QED BY <2>4, <2>5 DEF Solves
<1>3. n \in S
  <2> HIDE DEF S
  <2> QED BY <1>1, <1>2, SetInduction
<1> QED BY <1>3

---------------------------------------------------------------------------
(* FlattenSeq: f[n] is the first n sequences put together.                 *)
PrefixFold(f, ss, X) ==
  /\ f \in [0..Len(ss) -> Seq(X)]
  /\ f[0] = <<>>
  /\ \A n \in 1..Len(ss) : f[n] = f[n - 1] \o ss[n]

LEMMA PrefixesExist ==
  ASSUME NEW X, NEW ss \in Seq(Seq(X))
  PROVE  \E f : PrefixFold(f, ss, X)
<1> DEFINE step == [n \in 1..Len(ss) |-> [s \in Seq(X) |-> s \o ss[n]]]
<1>1. Len(ss) \in Nat /\ \A n \in 1..Len(ss) : ss[n] \in Seq(X)
  OBVIOUS
<1>2. step \in [1..Len(ss) -> [Seq(X) -> Seq(X)]]
  BY <1>1, ConcatProperties
<1>3. \A n \in 1..Len(ss) : \A s \in Seq(X) : step[n][s] = s \o ss[n]
  OBVIOUS
<1>4. <<>> \in Seq(X)
  OBVIOUS
<1> HIDE DEF step
<1>5. PICK f : Solves(f, Len(ss), Seq(X), <<>>, step)
  BY <1>1, <1>2, <1>4, PrefixRecursion
<1>6. \A n \in 1..Len(ss) : n - 1 \in 0..Len(ss)
  BY <1>1
<1>7. PrefixFold(f, ss, X)
  BY <1>3, <1>5, <1>6 DEF Solves, PrefixFold
<1> QED BY <1>7

FlattenStep(ss, F, i) == IF i = 1 THEN ss[i] ELSE F[i - 1] \o ss[i]

LEMMA FlattenIsLastPrefix ==
  ASSUME NEW X, NEW ss \in Seq(Seq(X)), NEW f, PrefixFold(f, ss, X)
  PROVE  FlattenSeq(ss) = f[Len(ss)] /\ FlattenSeq(ss) \in Seq(X)
<1> DEFINE n == Len(ss)
<1>1. n \in Nat /\ \A i \in 1..n : ss[i] \in Seq(X)
  OBVIOUS
<1>2. f \in [0..n -> Seq(X)] /\ f[0] = <<>> /\ \A i \in 1..n : f[i] = f[i - 1] \o ss[i]
  BY DEF PrefixFold
<1>3. CASE n = 0
  <2>1. ss = <<>>
    BY <1>3
  <2>2. FlattenSeq(ss) = ss
    BY <1>3 DEF FlattenSeq
  <2> QED BY <1>2, <1>3, <2>1, <2>2
<1>4. CASE n # 0
  <2>1. f[1] = ss[1]
    <3>0. 1 \in 1..n /\ 1 - 1 = 0
      BY <1>1, <1>4
    <3>1. f[1] = f[0] \o ss[1] /\ ss[1] \in Seq(X)
      BY <1>1, <1>2, <3>0
    <3> QED BY <1>2, <3>1, ConcatEmptySeq
  <2>2. \E F : F = [i \in 1..n |-> FlattenStep(ss, F, i)]
    <3> DEFINE F == [i \in 1..n |-> f[i]]
    <3>1. ASSUME NEW i \in 1..n PROVE F[i] = FlattenStep(ss, F, i)
      <4>1. CASE i = 1
        BY <2>1, <4>1 DEF FlattenStep
      <4>2. CASE i # 1
        <5>1. i - 1 \in 1..n
          BY <1>1, <4>2
        <5> QED BY <1>2, <4>2, <5>1 DEF FlattenStep
      <4> QED BY <4>1, <4>2
    <3> QED BY <3>1
  <2>3. PICK F : F = [i \in 1..n |-> FlattenStep(ss, F, i)] /\ FlattenSeq(ss) = F[n]
    BY <1>4, <2>2 DEF FlattenSeq, FlattenStep
  <2>4. \A i \in 1..n : F[i] = FlattenStep(ss, F, i)
    BY <2>3
  <2> DEFINE S == {m \in Nat : m + 1 <= n => F[m + 1] = f[m + 1]}
  <2>5. 0 \in S
    <3>1. 1 \in 1..n
      BY <1>1, <1>4
    <3> QED BY <2>1, <2>4, <3>1 DEF FlattenStep
  <2>6. ASSUME NEW m \in Nat, m \in S PROVE m + 1 \in S
    <3>1. SUFFICES ASSUME (m + 1) + 1 <= n PROVE F[(m + 1) + 1] = f[(m + 1) + 1]
      OBVIOUS
    <3>2. /\ (m + 1) + 1 \in 1..n /\ m + 1 <= n
          /\ ((m + 1) + 1) - 1 = m + 1 /\ (m + 1) + 1 # 1
      BY <1>1, <3>1
    <3>3. F[m + 1] = f[m + 1]
      BY <2>6, <3>2
    <3>4. F[(m + 1) + 1] = F[m + 1] \o ss[(m + 1) + 1]
      BY <2>4, <3>2 DEF FlattenStep
    <3>5. f[(m + 1) + 1] = f[m + 1] \o ss[(m + 1) + 1]
      BY <1>2, <3>2
    <3> QED BY <3>3, <3>4, <3>5
  <2>7. n - 1 \in S
    <3>1. n - 1 \in Nat
      BY <1>1, <1>4
    <3> HIDE DEF S
    <3> QED BY <2>5, <2>6, <3>1, SetInduction
  <2>8. F[n] = f[n]
    BY <1>1, <1>4, <2>7
  <2> QED BY <1>1, <1>2, <2>3, <2>8
<1> QED BY <1>3, <1>4

LEMMA FlattenType ==
  ASSUME NEW X, NEW ss \in Seq(Seq(X))
  PROVE  FlattenSeq(ss) \in Seq(X)
BY PrefixesExist, FlattenIsLastPrefix

LEMMA FlattenConcat ==
  ASSUME NEW X, NEW a \in Seq(Seq(X)), NEW b \in Seq(Seq(X))
  PROVE  FlattenSeq(a \o b) = FlattenSeq(a) \o FlattenSeq(b)
<1> DEFINE c == a \o b
           p == Len(a)
           q == Len(b)
<1>1. /\ c \in Seq(Seq(X)) /\ p \in Nat /\ q \in Nat /\ Len(c) = p + q
      /\ \A i \in 1..p : c[i] = a[i]
      /\ \A i \in 1..q : c[p + i] = b[i]
      /\ \A i \in 1..q : b[i] \in Seq(X)
  OBVIOUS
<1> HIDE DEF c
<1>2. PICK f : PrefixFold(f, c, X)
  BY <1>1, PrefixesExist
<1>3. PICK g : PrefixFold(g, b, X)
  BY PrefixesExist
<1>4. /\ f \in [0..(p + q) -> Seq(X)] /\ f[0] = <<>>
      /\ \A i \in 1..(p + q) : f[i] = f[i - 1] \o c[i]
  BY <1>1, <1>2 DEF PrefixFold
<1>5. /\ g \in [0..q -> Seq(X)] /\ g[0] = <<>>
      /\ \A i \in 1..q : g[i] = g[i - 1] \o b[i]
  BY <1>3 DEF PrefixFold
<1>6. FlattenSeq(a) = f[p]
  <2> DEFINE h == [i \in 0..p |-> f[i]]
  <2>1. PrefixFold(h, a, X)
    <3>1. h \in [0..p -> Seq(X)] /\ h[0] = <<>>
      BY <1>1, <1>4
    <3>2. ASSUME NEW i \in 1..p PROVE h[i] = h[i - 1] \o a[i]
      <4>1. i \in 0..p /\ i - 1 \in 0..p /\ i \in 1..(p + q)
        BY <1>1
      <4>2. h[i] = f[i] /\ h[i - 1] = f[i - 1]
        BY <4>1
      <4>3. f[i] = f[i - 1] \o c[i] /\ c[i] = a[i]
        BY <1>1, <1>4, <4>1
      <4> HIDE DEF h
      <4> QED BY <4>2, <4>3
    <3> QED BY <3>1, <3>2 DEF PrefixFold
  <2>2. h[p] = f[p]
    BY <1>1
  <2> HIDE DEF h
  <2> QED BY <2>1, <2>2, FlattenIsLastPrefix
<1> DEFINE P(m) == m <= q => f[p + m] = f[p] \o g[m]
           S == {m \in Nat : P(m)}
<1>7. P(0)
  <2>1. f[p] \in Seq(X) /\ p + 0 = p
    BY <1>1, <1>4
  <2>2. f[p] \o <<>> = f[p]
    BY <2>1, ConcatEmptySeq
  <2> QED BY <1>5, <2>1, <2>2
<1>8. ASSUME NEW m \in Nat, P(m) PROVE P(m + 1)
  <2>1. SUFFICES ASSUME m + 1 <= q PROVE f[p + (m + 1)] = f[p] \o g[m + 1]
    BY Zenon
  <2> HIDE DEF p, q
  <2>2. /\ m + 1 \in 1..q /\ (m + 1) - 1 = m /\ m \in 0..q /\ p + (m + 1) \in 1..(p + q)
        /\ (p + (m + 1)) - 1 = p + m /\ p \in 0..(p + q)
    BY <1>1, <2>1
  <2>3. f[p + m] = f[p] \o g[m]
    <3>1. m <= q
      BY <1>1, <2>1
    <3> QED BY <1>8, <3>1
  <2>4. f[p + (m + 1)] = f[p + m] \o b[m + 1]
    BY <1>1, <1>4, <2>2
  <2>5. g[m + 1] = g[m] \o b[m + 1]
    BY <1>5, <2>2
  <2>6. f[p] \in Seq(X) /\ g[m] \in Seq(X) /\ b[m + 1] \in Seq(X)
    BY <1>1, <1>4, <1>5, <2>2
  <2>7. (f[p] \o g[m]) \o b[m + 1] = f[p] \o (g[m] \o b[m + 1])
    <3>1. \A s, t, u \in Seq(X) : (s \o t) \o u = s \o (t \o u)
      BY ConcatAssociative, SMTT(30)
    <3> QED BY <2>6, <3>1, Zenon
  <2> QED BY <2>3, <2>4, <2>5, <2>7
<1>9. P(q)
  <2> HIDE DEF P
  <2>1. 0 \in S /\ \A m \in Nat : m \in S => m + 1 \in S
    BY <1>7, <1>8
  <2>2. Nat \subseteq S
    <3> HIDE DEF S
    <3> QED BY <2>1, SetInduction
  <2> QED BY <1>1, <2>2
<1>10. f[p + q] = f[p] \o g[q]
  <2>1. q <= q
    BY <1>1
  <2> QED BY <1>9, <2>1, Zenon
<1>11. FlattenSeq(b) = g[q]
  BY <1>3, FlattenIsLastPrefix
<1>12. FlattenSeq(c) = f[p + q]
  BY <1>1, <1>2, FlattenIsLastPrefix
<1> QED BY <1>6, <1>10, <1>11, <1>12 DEF c

LEMMA FlattenOne ==
  ASSUME NEW X, NEW s \in Seq(X)
  PROVE  FlattenSeq(<<s>>) = s
<1> DEFINE ss == <<s>>
           f == [i \in 0..1 |-> IF i = 0 THEN <<>> ELSE s]
<1>1. ss \in Seq(Seq(X)) /\ Len(ss) = 1 /\ ss[1] = s
  OBVIOUS
<1>2. f[0] = <<>> /\ f[1] = s /\ f \in [0..1 -> Seq(X)]
  OBVIOUS
<1>3. <<>> \o s = s
  BY ConcatEmptySeq
<1> HIDE DEF ss, f
<1>4. PrefixFold(f, ss, X)
  BY <1>1, <1>2, <1>3 DEF PrefixFold
<1> QED BY <1>1, <1>2, <1>4, FlattenIsLastPrefix DEF ss

LEMMA FlattenAppend ==
  ASSUME NEW X, NEW ss \in Seq(Seq(X)), NEW t \in Seq(X)
  PROVE  FlattenSeq(Append(ss, t)) = FlattenSeq(ss) \o t
<1>1. Append(ss, t) = ss \o <<t>> /\ <<t>> \in Seq(Seq(X))
  BY AppendIsConcat
<1>2. FlattenSeq(<<t>>) = t
  BY FlattenOne
<1> QED BY <1>1, <1>2, FlattenConcat

(* What holds of the parts and is kept by putting two together holds of    *)
(* the whole.                                                              *)
LEMMA FlattenClosed ==
  ASSUME NEW X, NEW T \in SUBSET Seq(X), <<>> \in T, \A a, b \in T : a \o b \in T,
         NEW ss \in Seq(T)
  PROVE  FlattenSeq(ss) \in T
<1> DEFINE n == Len(ss)
<1>1. ss \in Seq(Seq(X)) /\ n \in Nat /\ \A i \in 1..n : ss[i] \in T
  BY SeqMonotonic, ElementOfSeq
<1>2. PICK f : PrefixFold(f, ss, X)
  BY <1>1, PrefixesExist
<1>3. f[0] = <<>> /\ \A i \in 1..n : f[i] = f[i - 1] \o ss[i]
  BY <1>2 DEF PrefixFold
<1> DEFINE P(m) == m <= n => f[m] \in T
           S == {m \in Nat : P(m)}
<1>4. P(0)
  BY <1>3
<1>5. ASSUME NEW m \in Nat, P(m) PROVE P(m + 1)
  <2>1. SUFFICES ASSUME m + 1 <= n PROVE f[m + 1] \in T
    BY Zenon
  <2> HIDE DEF n
  <2>2. m <= n /\ m + 1 \in 1..n /\ (m + 1) - 1 = m
    BY <1>1, <2>1
  <2>3. f[m + 1] = f[m] \o ss[m + 1] /\ ss[m + 1] \in T
    BY <1>1, <1>3, <2>2
  <2>4. f[m] \in T
    BY <1>5, <2>2
  <2> QED BY <2>3, <2>4
<1>6. P(n)
  <2> HIDE DEF P
  <2>1. 0 \in S /\ \A m \in Nat : m \in S => m + 1 \in S
    BY <1>4, <1>5
  <2>2. Nat \subseteq S
    <3> HIDE DEF S
    <3> QED BY <2>1, SetInduction
  <2> QED BY <1>1, <2>2
<1>7. f[n] \in T
  <2>1. n <= n
    BY <1>1
  <2> QED BY <1>6, <2>1, Zenon
<1> QED BY <1>1, <1>2, <1>7, FlattenIsLastPrefix

---------------------------------------------------------------------------
(* The bytes of a server.  A payload is followed by the end of its line.   *)
BytesOf(s) == {Byte(x, p) : x \in {"start", "middle", "end"}, p \in SaidIn(s)} \cup {LF, CR}

WholeLines(bytes) ==
  \A i \in DOMAIN bytes : bytes[i].piece = "middle" => i < Len(bytes) /\ bytes[i + 1].piece = "end"

LEMMA LinesConcat ==
  ASSUME NEW X, NEW a \in Seq(X), NEW b \in Seq(X), WholeLines(a), WholeLines(b)
  PROVE  WholeLines(a \o b)
<1> DEFINE c == a \o b
<1>1. /\ Len(a) \in Nat /\ Len(b) \in Nat /\ Len(c) = Len(a) + Len(b)
      /\ DOMAIN c = 1..(Len(a) + Len(b)) /\ DOMAIN a = 1..Len(a) /\ DOMAIN b = 1..Len(b)
      /\ \A i \in 1..(Len(a) + Len(b)) : c[i] = IF i <= Len(a) THEN a[i] ELSE b[i - Len(a)]
  OBVIOUS
<1> HIDE DEF c
<1>2. ASSUME NEW i \in DOMAIN c, c[i].piece = "middle"
      PROVE  i < Len(c) /\ c[i + 1].piece = "end"
  <2>1. CASE i <= Len(a)
    <3>1. i \in DOMAIN a /\ a[i].piece = "middle"
      BY <1>1, <1>2, <2>1
    <3>2. i < Len(a) /\ a[i + 1].piece = "end"
      BY <3>1 DEF WholeLines
    <3>3. i + 1 \in 1..(Len(a) + Len(b)) /\ i + 1 <= Len(a)
      BY <1>1, <3>1, <3>2
    <3> QED BY <1>1, <3>1, <3>2, <3>3
  <2>2. CASE ~(i <= Len(a))
    <3> DEFINE j == i - Len(a)
    <3>1. j \in DOMAIN b /\ b[j].piece = "middle"
      BY <1>1, <1>2, <2>2
    <3>2. j < Len(b) /\ b[j + 1].piece = "end"
      BY <3>1 DEF WholeLines
    <3>3. /\ i + 1 \in 1..(Len(a) + Len(b)) /\ ~(i + 1 <= Len(a))
          /\ (i + 1) - Len(a) = j + 1
      BY <1>1, <1>2, <2>2, <3>2
    <3> QED BY <1>1, <1>2, <3>2, <3>3
  <2> QED BY <2>1, <2>2
<1> QED BY <1>2 DEF WholeLines, c

LEMMA EncodedWhole ==
  ASSUME NEW s \in Scripts
  PROVE  Encoded(s) \in Seq(BytesOf(s)) /\ WholeLines(Encoded(s))
<1> DEFINE B == BytesOf(s)
           T == {e \in Seq(B) : WholeLines(e)}
           eol == IF s.crlf THEN <<CR, LF>> ELSE <<LF>>
           block(b) == FlattenSeq([k \in DOMAIN b |-> EncodedLine(b[k], eol)]) \o eol
<1>1. T \in SUBSET Seq(B) /\ <<>> \in T
  BY DEF WholeLines
<1>2. \A a, b \in T : a \o b \in T
  BY LinesConcat
<1>3. eol \in T
  <2>1. LF \in B /\ CR \in B /\ LF.piece = "lf" /\ CR.piece = "cr"
    BY DEF BytesOf, LF, CR, Byte
  <2>2. <<LF>> \in T /\ <<CR, LF>> \in T
    BY <2>1 DEF WholeLines
  <2> QED BY <2>2
<1> HIDE DEF eol
<1>4. ASSUME NEW p \in SaidIn(s) PROVE EncodedLine(p, eol) \in T
  <2> DEFINE line == [k \in 1..3 |-> Byte(<<"start", "middle", "end">>[k], p)]
  <2>1. line[1] = Byte("start", p) /\ line[2] = Byte("middle", p) /\ line[3] = Byte("end", p)
    OBVIOUS
  <2>2. /\ Byte("start", p) \in B /\ Byte("middle", p) \in B /\ Byte("end", p) \in B
    BY DEF BytesOf
  <2>3. line \in Seq(B) /\ DOMAIN line = 1..3 /\ Len(line) = 3
    <3>1. \A k \in 1..3 : line[k] \in B
      BY <2>1, <2>2
    <3> QED BY <3>1
  <2>4. line[1].piece = "start" /\ line[2].piece = "middle" /\ line[3].piece = "end"
    BY <2>1 DEF Byte
  <2>5. line \in T
    <3> HIDE DEF line
    <3>1. ASSUME NEW i \in DOMAIN line, line[i].piece = "middle"
          PROVE  i < Len(line) /\ line[i + 1].piece = "end"
      <4>1. i \in {1, 2, 3}
        BY <2>3
      <4>2. i = 2
        BY <2>4, <3>1, <4>1
      <4> QED BY <2>3, <2>4, <4>2
    <3>2. WholeLines(line)
      BY <3>1 DEF WholeLines
    <3> HIDE DEF B
    <3> QED BY <2>3, <3>2
  <2>6. line \o eol \in T
    <3> HIDE DEF line, T
    <3> QED BY <1>2, <1>3, <2>5
  <2> QED BY <2>6 DEF EncodedLine
<1>5. s.blocks \in Seq(Seq(SaidIn(s)))
  BY StreamAssumption
<1> HIDE DEF T
<1>6. ASSUME NEW b \in Seq(SaidIn(s)) PROVE block(b) \in T
  <2> DEFINE ls == [k \in DOMAIN b |-> EncodedLine(b[k], eol)]
  <2>1. ls \in Seq(T)
    <3>1. DOMAIN b = 1..Len(b) /\ Len(b) \in Nat /\ \A k \in 1..Len(b) : b[k] \in SaidIn(s)
      OBVIOUS
    <3>2. \A k \in 1..Len(b) : EncodedLine(b[k], eol) \in T
      BY <1>4, <3>1
    <3> QED BY <3>1, <3>2
  <2> HIDE DEF ls
  <2>2. FlattenSeq(ls) \in T
    BY <1>1, <1>2, <2>1, FlattenClosed
  <2> QED BY <1>2, <1>3, <2>2 DEF ls
<1> DEFINE bs == [k \in DOMAIN s.blocks |-> block(s.blocks[k])]
<1>7. bs \in Seq(T)
  <2>1. /\ DOMAIN s.blocks = 1..Len(s.blocks) /\ Len(s.blocks) \in Nat
        /\ \A k \in 1..Len(s.blocks) : s.blocks[k] \in Seq(SaidIn(s))
    BY <1>5
  <2> HIDE DEF block
  <2>2. \A k \in 1..Len(s.blocks) : block(s.blocks[k]) \in T
    BY <1>6, <2>1
  <2> QED BY <2>1, <2>2
<1>8. Encoded(s) = FlattenSeq(bs)
  BY DEF Encoded, eol
<1>9. FlattenSeq(bs) \in T
  <2> HIDE DEF bs
  <2> QED BY <1>1, <1>2, <1>7, FlattenClosed
<1> QED BY <1>8, <1>9 DEF T

---------------------------------------------------------------------------
(* Sequences of sequences made from a sequence, element by element.        *)
Mapped(F, s) == FlattenSeq([k \in DOMAIN s |-> F[s[k]]])

LEMMA ConcatIs ==
  ASSUME NEW Z
  PROVE  \A a, b, c \in Seq(Z) :
           /\ Len(c) = Len(a) + Len(b)
           /\ \A i \in 1..Len(a) : c[i] = a[i]
           /\ \A i \in 1..Len(b) : c[Len(a) + i] = b[i]
           => c = a \o b
<1> SUFFICES ASSUME NEW a \in Seq(Z), NEW b \in Seq(Z), NEW c \in Seq(Z),
                    Len(c) = Len(a) + Len(b),
                    \A i \in 1..Len(a) : c[i] = a[i],
                    \A i \in 1..Len(b) : c[Len(a) + i] = b[i]
             PROVE  c = a \o b
  OBVIOUS
<1> DEFINE d == a \o b
<1>1. /\ d \in Seq(Z) /\ Len(d) = Len(a) + Len(b) /\ Len(a) \in Nat /\ Len(b) \in Nat
      /\ \A i \in 1..(Len(a) + Len(b)) : d[i] = IF i <= Len(a) THEN a[i] ELSE b[i - Len(a)]
  BY ConcatProperties
<1> HIDE DEF d
<1>2. ASSUME NEW i \in 1..Len(c) PROVE c[i] = d[i]
  <2>1. CASE i <= Len(a)
    BY <1>1, <2>1
  <2>2. CASE ~(i <= Len(a))
    <3>1. i - Len(a) \in 1..Len(b) /\ Len(a) + (i - Len(a)) = i
      BY <1>1, <2>2
    <3>2. c[Len(a) + (i - Len(a))] = b[i - Len(a)]
      BY <3>1
    <3> QED BY <1>1, <2>2, <3>1, <3>2
  <2> QED BY <2>1, <2>2
<1>3. Len(c) = Len(d)
  BY <1>1
<1>4. c = d
  BY <1>1, <1>2, <1>3, SeqEqual
<1> QED BY <1>4 DEF d

LEMMA MappedType ==
  ASSUME NEW X, NEW Y, NEW F \in [X -> Seq(Y)], NEW s \in Seq(X)
  PROVE  /\ [k \in DOMAIN s |-> F[s[k]]] \in Seq(Seq(Y))
         /\ Len([k \in DOMAIN s |-> F[s[k]]]) = Len(s)
         /\ Mapped(F, s) \in Seq(Y)
<1> DEFINE a == [k \in DOMAIN s |-> F[s[k]]]
<1>1. Len(s) \in Nat /\ DOMAIN s = 1..Len(s) /\ \A k \in 1..Len(s) : s[k] \in X
  OBVIOUS
<1>2. \A k \in 1..Len(s) : F[s[k]] \in Seq(Y)
  BY <1>1
<1>3. a \in Seq(Seq(Y)) /\ Len(a) = Len(s)
  BY <1>1, <1>2
<1> HIDE DEF a
<1>4. FlattenSeq(a) \in Seq(Y)
  BY <1>3, FlattenType
<1> QED BY <1>3, <1>4 DEF Mapped, a

LEMMA MappedConcat ==
  ASSUME NEW X, NEW Y, NEW F \in [X -> Seq(Y)], NEW s \in Seq(X), NEW t \in Seq(X)
  PROVE  Mapped(F, s \o t) = Mapped(F, s) \o Mapped(F, t)
<1> DEFINE a == [k \in DOMAIN s |-> F[s[k]]]
           b == [k \in DOMAIN t |-> F[t[k]]]
           st == s \o t
           c == [k \in DOMAIN st |-> F[st[k]]]
           m == Len(s)
           n == Len(t)
<1>1. /\ Len(st) = m + n /\ st \in Seq(X)
      /\ DOMAIN s = 1..m /\ DOMAIN t = 1..n /\ DOMAIN st = 1..(m + n)
      /\ \A k \in 1..(m + n) : st[k] = IF k <= m THEN s[k] ELSE t[k - m]
  BY ConcatProperties
<1>0. m \in Nat /\ n \in Nat
  OBVIOUS
<1> HIDE DEF st
<1>2. /\ a \in Seq(Seq(Y)) /\ b \in Seq(Seq(Y)) /\ c \in Seq(Seq(Y))
      /\ Len(a) = m /\ Len(b) = n /\ Len(c) = m + n
  BY <1>1, MappedType
<1>3. /\ \A k \in 1..m : a[k] = F[s[k]]
      /\ \A k \in 1..n : b[k] = F[t[k]]
      /\ \A k \in 1..(m + n) : c[k] = F[st[k]]
  BY <1>1
<1> HIDE DEF a, b, c, m, n
<1>5. ASSUME NEW i \in 1..m PROVE c[i] = a[i]
  <2>1. i \in 1..(m + n) /\ i <= m
    BY <1>0
  <2>2. c[i] = F[st[i]] /\ st[i] = s[i] /\ a[i] = F[s[i]]
    BY <1>1, <1>3, <2>1
  <2> QED BY <2>2
<1>6. ASSUME NEW i \in 1..n PROVE c[m + i] = b[i]
  <2> DEFINE j == m + i
  <2>1. j \in 1..(m + n) /\ ~(j <= m) /\ j - m = i
    BY <1>0
  <2> HIDE DEF j
  <2>2. c[j] = F[st[j]] /\ st[j] = t[i] /\ b[i] = F[t[i]]
    BY <1>1, <1>3, <2>1
  <2> QED BY <2>2 DEF j
<1>7. c = a \o b
  <2>1. \A i \in 1..Len(a) : c[i] = a[i]
    BY <1>2, <1>5
  <2>2. \A i \in 1..Len(b) : c[Len(a) + i] = b[i]
    BY <1>2, <1>6
  <2>3. Len(c) = Len(a) + Len(b)
    BY <1>2
  <2>4. a \in Seq(Seq(Y)) /\ b \in Seq(Seq(Y)) /\ c \in Seq(Seq(Y))
    BY <1>2
  <2> DEFINE Z == Seq(Y)
  <2> HIDE DEF Z
  <2>5. a \in Seq(Z) /\ b \in Seq(Z) /\ c \in Seq(Z)
    BY <2>4 DEF Z
  <2>6. \A u, v, w \in Seq(Z) :
          /\ Len(w) = Len(u) + Len(v)
          /\ \A i \in 1..Len(u) : w[i] = u[i]
          /\ \A i \in 1..Len(v) : w[Len(u) + i] = v[i]
          => w = u \o v
    BY ConcatIs, Zenon
  <2> QED BY <2>1, <2>2, <2>3, <2>5, <2>6, Zenon
<1>8. FlattenSeq(a \o b) = FlattenSeq(a) \o FlattenSeq(b)
  BY <1>2, FlattenConcat
<1> QED BY <1>7, <1>8 DEF Mapped, a, b, c, st

LEMMA MappedAppend ==
  ASSUME NEW X, NEW Y, NEW F \in [X -> Seq(Y)], NEW s \in Seq(X), NEW x \in X
  PROVE  Mapped(F, Append(s, x)) = Mapped(F, s) \o F[x]
<1>1. Append(s, x) = s \o <<x>> /\ <<x>> \in Seq(X) /\ F[x] \in Seq(Y)
  BY AppendIsConcat
<1>0. Mapped(F, s \o <<x>>) = Mapped(F, s) \o Mapped(F, <<x>>)
  <2> DEFINE u == <<x>>
  <2> HIDE DEF u
  <2>1. u \in Seq(X)
    BY <1>1 DEF u
  <2>2. Mapped(F, s \o u) = Mapped(F, s) \o Mapped(F, u)
    BY <2>1, MappedConcat
  <2> QED BY <2>2 DEF u
<1>2. Mapped(F, <<x>>) = F[x]
  <2> DEFINE m == [k \in DOMAIN <<x>> |-> F[<<x>>[k]]]
  <2>1. m = <<F[x]>>
    OBVIOUS
  <2> QED BY <1>1, <2>1, FlattenOne DEF Mapped
<1> QED BY <1>0, <1>1, <1>2

---------------------------------------------------------------------------
(* What the bytes say.                                                     *)
PayloadsOf(s) == SaidIn(s) \cup {Cut(p) : p \in SaidIn(s)}

LEMMA PayloadAtType ==
  ASSUME NEW s \in Scripts, NEW e \in Seq(BytesOf(s)), NEW i \in DOMAIN e
  PROVE  PayloadAt(e, i) \in Seq(PayloadsOf(s))
<1>1. CASE e[i].piece # "middle"
  BY <1>1 DEF PayloadAt
<1>2. CASE e[i].piece = "middle"
  <2>1. e[i] \in BytesOf(s)
    OBVIOUS
  <2>2. PICK x \in {"start", "middle", "end"}, p \in SaidIn(s) : e[i] = Byte(x, p)
    BY <1>2, <2>1 DEF BytesOf, LF, CR, Byte
  <2>3. e[i].payload = p
    BY <2>2 DEF Byte
  <2>4. (IF i < Len(e) THEN e[i].payload ELSE Cut(e[i].payload)) \in PayloadsOf(s)
    BY <2>3 DEF PayloadsOf
  <2> QED BY <1>2, <2>4 DEF PayloadAt
<1> QED BY <1>1, <1>2

LEMMA PayloadsType ==
  ASSUME NEW s \in Scripts, NEW e \in Seq(BytesOf(s))
  PROVE  Payloads(e) \in Seq(PayloadsOf(s))
<1> DEFINE parts == [i \in DOMAIN e |-> PayloadAt(e, i)]
<1>1. parts \in Seq(Seq(PayloadsOf(s)))
  <2>1. DOMAIN e = 1..Len(e) /\ Len(e) \in Nat
    OBVIOUS
  <2>2. \A i \in 1..Len(e) : PayloadAt(e, i) \in Seq(PayloadsOf(s))
    BY <2>1, PayloadAtType
  <2> QED BY <2>1, <2>2
<1> HIDE DEF parts
<1>2. FlattenSeq(parts) \in Seq(PayloadsOf(s))
  BY <1>1, FlattenType
<1> QED BY <1>2 DEF Payloads, parts

(* Bytes may be read in two parts, unless a line is cut between them.      *)
LEMMA PayloadsConcat ==
  ASSUME NEW s \in Scripts, NEW x \in Seq(BytesOf(s)), NEW y \in Seq(BytesOf(s)),
         x = <<>> \/ x[Len(x)].piece # "middle" \/ y = <<>>
  PROVE  Payloads(x \o y) = Payloads(x) \o Payloads(y)
<1> DEFINE Z == Seq(PayloadsOf(s))
           xy == x \o y
           m == Len(x)
           n == Len(y)
           a == [i \in DOMAIN x |-> PayloadAt(x, i)]
           b == [i \in DOMAIN y |-> PayloadAt(y, i)]
           c == [i \in DOMAIN xy |-> PayloadAt(xy, i)]
<1>0. m \in Nat /\ n \in Nat /\ (x = <<>> => m = 0) /\ (y = <<>> => n = 0)
  OBVIOUS
<1>1. /\ xy \in Seq(BytesOf(s)) /\ Len(xy) = m + n
      /\ DOMAIN x = 1..m /\ DOMAIN y = 1..n /\ DOMAIN xy = 1..(m + n)
      /\ \A i \in 1..(m + n) : xy[i] = IF i <= m THEN x[i] ELSE y[i - m]
  BY ConcatProperties
<1> HIDE DEF xy
<1>2. /\ \A i \in 1..m : PayloadAt(x, i) \in Z
      /\ \A i \in 1..n : PayloadAt(y, i) \in Z
      /\ \A i \in 1..(m + n) : PayloadAt(xy, i) \in Z
  BY <1>1, PayloadAtType
<1> HIDE DEF Z, m, n
<1>3. /\ a \in Seq(Z) /\ Len(a) = m /\ \A i \in 1..m : a[i] = PayloadAt(x, i)
      /\ b \in Seq(Z) /\ Len(b) = n /\ \A i \in 1..n : b[i] = PayloadAt(y, i)
      /\ c \in Seq(Z) /\ Len(c) = m + n
      /\ \A i \in 1..(m + n) : c[i] = PayloadAt(xy, i)
  BY <1>0, <1>1, <1>2
<1> HIDE DEF a, b, c
<1>4. ASSUME NEW i \in 1..m PROVE c[i] = a[i]
  <2>1. i \in 1..(m + n) /\ i <= m
    BY <1>0
  <2>2. xy[i] = x[i] /\ a[i] = PayloadAt(x, i) /\ c[i] = PayloadAt(xy, i)
    BY <1>1, <1>3, <2>1
  <2>3. CASE i < m
    <3>1. i < Len(xy) /\ i < Len(x)
      BY <1>0, <1>1, <2>3 DEF m
    <3> QED BY <2>2, <3>1 DEF PayloadAt
  <2>4. CASE i = m /\ x[Len(x)].piece # "middle"
    BY <2>2, <2>4 DEF PayloadAt, m
  <2>5. CASE i = m /\ y = <<>>
    <3>1. Len(xy) = Len(x)
      BY <1>0, <1>1, <2>5 DEF m
    <3> QED BY <2>2, <3>1 DEF PayloadAt
  <2>6. x # <<>> /\ (i < m \/ i = m)
    BY <1>0, <2>1
  <2> QED BY <2>3, <2>4, <2>5, <2>6
<1>5. ASSUME NEW i \in 1..n PROVE c[m + i] = b[i]
  <2> DEFINE j == m + i
  <2>1. j \in 1..(m + n) /\ ~(j <= m) /\ j - m = i /\ (j < m + n <=> i < n)
    BY <1>0
  <2>2. j < Len(xy) <=> i < Len(y)
    BY <1>1, <2>1 DEF n
  <2> HIDE DEF j
  <2>3. xy[j] = y[i] /\ b[i] = PayloadAt(y, i) /\ c[j] = PayloadAt(xy, j)
    BY <1>1, <1>3, <2>1
  <2>4. c[j] = b[i]
    BY <2>2, <2>3 DEF PayloadAt
  <2> QED BY <2>4 DEF j
<1>6. c = a \o b
  <2>1. \A i \in 1..Len(a) : c[i] = a[i]
    BY <1>3, <1>4
  <2>2. \A i \in 1..Len(b) : c[Len(a) + i] = b[i]
    BY <1>3, <1>5
  <2>3. Len(c) = Len(a) + Len(b) /\ a \in Seq(Z) /\ b \in Seq(Z) /\ c \in Seq(Z)
    BY <1>3
  <2> QED BY <2>1, <2>2, <2>3, ConcatIs, Zenon
<1>7. FlattenSeq(a \o b) = FlattenSeq(a) \o FlattenSeq(b)
  BY <1>3, FlattenConcat DEF Z
<1> QED BY <1>6, <1>7 DEF Payloads, a, b, c, xy

LEMMA PayloadsNothing ==
  ASSUME NEW s \in Scripts, NEW e \in Seq(BytesOf(s)),
         \A i \in DOMAIN e : e[i].piece # "middle"
  PROVE  Payloads(e) = <<>>
<1> DEFINE parts == [i \in DOMAIN e |-> PayloadAt(e, i)]
           T == {<<>>}
<1>1. parts \in Seq(T)
  <2>1. DOMAIN e = 1..Len(e) /\ Len(e) \in Nat
    OBVIOUS
  <2>2. \A i \in 1..Len(e) : PayloadAt(e, i) \in T
    BY <2>1 DEF PayloadAt
  <2> QED BY <2>1, <2>2
<1>2. T \in SUBSET Seq(PayloadsOf(s)) /\ <<>> \in T
  OBVIOUS
<1>3. \A a, b \in T : a \o b \in T
  BY ConcatEmptySeq
<1> HIDE DEF parts, T
<1>4. FlattenSeq(parts) \in T
  BY <1>1, <1>2, <1>3, FlattenClosed
<1> QED BY <1>4 DEF Payloads, parts, T

---------------------------------------------------------------------------
(* The largest and the smallest of some positions.                         *)
LEMMA MinIn ==
  ASSUME NEW T \in SUBSET Nat, T # {}
  PROVE  Min(T) \in T /\ \A y \in T : Min(T) <= y
<1> DEFINE R == OpToRel(<, Nat)
<1>1. \A x, y \in Nat : x < y => <<x, y>> \in R
  BY DEF OpToRel
<1>2. IsWellFoundedOn(R, Nat)
  BY NatLessThanWellFounded
<1> HIDE DEF R
<1>3. PICK x \in T : \A y \in T : ~ (<<y, x>> \in R)
  BY <1>2, WFMin
<1>4. ASSUME NEW y \in T PROVE x <= y
  <2>1. x \in Nat /\ y \in Nat /\ ~ (<<y, x>> \in R)
    BY <1>3
  <2>2. ~(y < x)
    BY <1>1, <2>1, Zenon
  <2> QED BY <2>1, <2>2
<1> QED BY <1>4 DEF Min

LEMMA MaxIn ==
  ASSUME NEW n \in Nat, NEW T \in SUBSET (0..n), T # {}
  PROVE  Max(T) \in T /\ \A y \in T : Max(T) >= y
<1> DEFINE U == {n - i : i \in T}
<1>1. U \in SUBSET Nat /\ U # {}
  <2>1. \A i \in T : n - i \in Nat
    OBVIOUS
  <2> QED BY <2>1, Zenon
<1>2. PICK m \in U : \A y \in U : m <= y
  BY <1>1, MinIn
<1>3. PICK x \in T : m = n - x
  OBVIOUS
<1>4. \A y \in T : n - y \in U
  BY Zenon
<1>5. \A y \in T : n - x <= n - y
  BY <1>2, <1>3, <1>4
<1>6. \A y \in T : x >= y
  BY <1>5
<1> QED BY <1>6 DEF Max

---------------------------------------------------------------------------
(* The chunks payloads are read as.                                        *)
ChunksOf(s) == {StreamChunk(p) : p \in SaidIn(s)}

ChunkMap(s) ==
  [p \in PayloadsOf(s) |-> IF ParseOutcome(p) = "data" THEN <<StreamChunk(p)>> ELSE <<>>]

LEMMA CutPayload ==
  ASSUME NEW s \in Scripts, NEW p \in PayloadsOf(s), ParseOutcome(p) = "data"
  PROVE  p \in SaidIn(s)
<1>1. ASSUME NEW q \in SaidIn(s), p = Cut(q), q.kind \notin {"comment", "empty"} PROVE FALSE
  <2>1. p = [q EXCEPT !.kind = "broken"]
    BY <1>1 DEF Cut
  <2>2. "kind" \in DOMAIN q
    BY StreamAssumption
  <2>3. p.kind = "broken"
    BY <2>1, <2>2
  <2> QED BY <2>3 DEF ParseOutcome
<1>2. ASSUME NEW q \in SaidIn(s), p = Cut(q), q.kind \in {"comment", "empty"} PROVE p = q
  BY <1>2 DEF Cut
<1> QED BY <1>1, <1>2 DEF PayloadsOf

LEMMA ChunkMapType ==
  ASSUME NEW s \in Scripts
  PROVE  ChunkMap(s) \in [PayloadsOf(s) -> Seq(ChunksOf(s))]
<1>1. ASSUME NEW p \in PayloadsOf(s)
      PROVE  (IF ParseOutcome(p) = "data" THEN <<StreamChunk(p)>> ELSE <<>>) \in Seq(ChunksOf(s))
  <2>1. CASE ParseOutcome(p) = "data"
    <3>1. StreamChunk(p) \in ChunksOf(s)
      BY <2>1, CutPayload DEF ChunksOf
    <3> QED BY <2>1, <3>1
  <2> QED BY <2>1
<1> QED BY <1>1 DEF ChunkMap

LEMMA ChunksMapped ==
  ASSUME NEW s \in Scripts, NEW ps \in Seq(PayloadsOf(s))
  PROVE  Chunks(ps) = Mapped(ChunkMap(s), ps)
<1>1. \A k \in DOMAIN ps : ps[k] \in PayloadsOf(s)
  OBVIOUS
<1>2. \A k \in DOMAIN ps : ChunkMap(s)[ps[k]] =
        IF ParseOutcome(ps[k]) = "data" THEN <<StreamChunk(ps[k])>> ELSE <<>>
  BY <1>1 DEF ChunkMap
<1>3. [k \in DOMAIN ps |-> ChunkMap(s)[ps[k]]] =
      [k \in DOMAIN ps |-> IF ParseOutcome(ps[k]) = "data" THEN <<StreamChunk(ps[k])>> ELSE <<>>]
  BY <1>2, Zenon
<1> QED BY <1>3 DEF Chunks, Mapped

LEMMA ChunksType ==
  ASSUME NEW s \in Scripts, NEW ps \in Seq(PayloadsOf(s))
  PROVE  Chunks(ps) \in Seq(ChunksOf(s))
<1> DEFINE F == ChunkMap(s)
<1>1. F \in [PayloadsOf(s) -> Seq(ChunksOf(s))] /\ Chunks(ps) = Mapped(F, ps)
  BY ChunksMapped, ChunkMapType
<1> HIDE DEF F
<1>2. Mapped(F, ps) \in Seq(ChunksOf(s))
  BY <1>1, MappedType
<1> QED BY <1>1, <1>2

LEMMA ChunksAppend ==
  ASSUME NEW s \in Scripts, NEW ps \in Seq(PayloadsOf(s)), NEW p \in PayloadsOf(s)
  PROVE  Chunks(Append(ps, p)) =
           IF ParseOutcome(p) = "data" THEN Append(Chunks(ps), StreamChunk(p)) ELSE Chunks(ps)
<1> DEFINE F == ChunkMap(s)
           qs == Append(ps, p)
<1>1. F \in [PayloadsOf(s) -> Seq(ChunksOf(s))]
  BY ChunkMapType
<1>2. F[p] = IF ParseOutcome(p) = "data" THEN <<StreamChunk(p)>> ELSE <<>>
  BY DEF ChunkMap
<1>3. Chunks(ps) = Mapped(F, ps) /\ Chunks(ps) \in Seq(ChunksOf(s))
  BY ChunksMapped, ChunksType
<1>4. Chunks(qs) = Mapped(F, qs)
  <2>1. qs \in Seq(PayloadsOf(s))
    OBVIOUS
  <2> HIDE DEF qs
  <2> QED BY <2>1, ChunksMapped
<1> HIDE DEF F
<1>5. Mapped(F, qs) = Mapped(F, ps) \o F[p]
  BY <1>1, MappedAppend
<1>6. CASE ParseOutcome(p) = "data"
  <2>1. StreamChunk(p) \in ChunksOf(s)
    BY <1>6, CutPayload DEF ChunksOf
  <2>2. Append(Chunks(ps), StreamChunk(p)) = Chunks(ps) \o <<StreamChunk(p)>>
    BY <1>3, <2>1, AppendIsConcat
  <2> QED BY <1>2, <1>3, <1>4, <1>5, <1>6, <2>2
<1>7. CASE ParseOutcome(p) # "data"
  <2>1. Chunks(ps) \o <<>> = Chunks(ps)
    BY <1>3, ConcatEmptySeq
  <2> QED BY <1>2, <1>3, <1>4, <1>5, <1>7, <2>1
<1> QED BY <1>6, <1>7

---------------------------------------------------------------------------
(* The last that was given, and one more.                                  *)
LEMMA LastGivenAppend ==
  ASSUME NEW V, NEW seq \in Seq(V), NEW v \in V
  PROVE  LastGiven(Append(seq, v)) = Given(v, LastGiven(seq))
<1> DEFINE n == Len(seq)
           q == Append(seq, v)
           old == {i \in DOMAIN seq : seq[i] # None}
           new == {i \in DOMAIN q : q[i] # None}
<1>1. /\ n \in Nat /\ DOMAIN seq = 1..n /\ DOMAIN q = 1..(n + 1)
      /\ q[n + 1] = v /\ \A i \in 1..n : q[i] = seq[i]
  OBVIOUS
<1> HIDE DEF q
<1>2. CASE v = None
  <2>1. new = old
    <3>1. \A i : i \in 1..(n + 1) <=> (i \in 1..n \/ i = n + 1)
      BY <1>1
    <3> QED BY <1>1, <1>2, <3>1
  <2>2. CASE old = {}
    BY <1>2, <2>1, <2>2 DEF LastGiven, Given
  <2>3. CASE old # {}
    <3>1. old \in SUBSET (0..n)
      BY <1>1
    <3> HIDE DEF old
    <3>2. Max(old) \in old
      BY <1>1, <2>3, <3>1, MaxIn
    <3>3. q[Max(old)] = seq[Max(old)]
      BY <1>1, <3>2 DEF old
    <3>4. LastGiven(seq) = seq[Max(old)]
      BY <2>3 DEF LastGiven, old
    <3>5. LastGiven(q) = q[Max(old)]
      <4> HIDE DEF new
      <4>1. LastGiven(q) = IF new = {} THEN None ELSE q[Max(new)]
        BY DEF LastGiven, new
      <4> QED BY <2>1, <2>3, <4>1
    <3> QED BY <1>2, <3>3, <3>4, <3>5 DEF Given, q
  <2> QED BY <2>2, <2>3
<1>3. CASE v # None
  <2>1. new # {} /\ new \in SUBSET (0..(n + 1)) /\ n + 1 \in new /\ n + 1 \in Nat
    BY <1>1, <1>3
  <2> HIDE DEF new
  <2>2. Max(new) \in new /\ \A y \in new : Max(new) >= y
    BY <2>1, MaxIn
  <2>3. Max(new) \in 0..(n + 1) /\ Max(new) >= n + 1
    BY <2>1, <2>2
  <2>4. Max(new) = n + 1
    BY <1>1, <2>3
  <2>5. LastGiven(q) = v
    BY <1>1, <2>1, <2>4 DEF LastGiven, new
  <2> QED BY <1>3, <2>5 DEF Given, q
<1> QED BY <1>2, <1>3

LEMMA FieldAppend ==
  ASSUME NEW D, NEW seq \in Seq(D), NEW d \in D, NEW f
  PROVE  /\ Field(seq, f) \in Seq({x[f] : x \in D})
         /\ Field(Append(seq, d), f) = Append(Field(seq, f), d[f])
<1> DEFINE V == {x[f] : x \in D}
           n == Len(seq)
           q == Append(seq, d)
           a == Field(q, f)
           b == Append(Field(seq, f), d[f])
<1>1. /\ n \in Nat /\ DOMAIN seq = 1..n /\ DOMAIN q = 1..(n + 1) /\ q[n + 1] = d
      /\ \A i \in 1..n : q[i] = seq[i] /\ seq[i] \in D
  OBVIOUS
<1> HIDE DEF q
<1>2. Field(seq, f) \in Seq(V) /\ Len(Field(seq, f)) = n /\ d[f] \in V
  BY <1>1 DEF Field
<1>3. \A i \in 1..n : Field(seq, f)[i] = seq[i][f]
  BY <1>1 DEF Field
<1>4. a \in Seq(V) /\ Len(a) = n + 1 /\ \A i \in 1..(n + 1) : a[i] = q[i][f]
  <2>1. \A i \in 1..(n + 1) : q[i] \in D
    <3>1. \A i \in 1..(n + 1) : i \in 1..n \/ i = n + 1
      BY <1>1
    <3> QED BY <1>1, <3>1
  <2>2. \A i \in 1..(n + 1) : q[i][f] \in V
    BY <2>1
  <2> HIDE DEF V
  <2>3. n + 1 \in Nat
    BY <1>1
  <2> QED BY <1>1, <2>2, <2>3 DEF Field
<1> HIDE DEF V, a
<1>5. b \in Seq(V) /\ Len(b) = n + 1 /\ b[n + 1] = d[f] /\ \A i \in 1..n : b[i] = seq[i][f]
  BY <1>2, <1>3, AppendProperties
<1> HIDE DEF b
<1>6. ASSUME NEW i \in 1..(n + 1) PROVE a[i] = b[i]
  <2>1. CASE i \in 1..n
    BY <1>1, <1>4, <1>5, <2>1
  <2>2. CASE i = n + 1
    BY <1>1, <1>4, <1>5, <2>2
  <2>3. i \in 1..n \/ i = n + 1
    BY <1>1
  <2> QED BY <2>1, <2>2, <2>3
<1>7. a = b
  BY <1>4, <1>5, <1>6, SeqEqual
<1> QED BY <1>2, <1>7 DEF V, a, b, q

---------------------------------------------------------------------------
(* A call, fragment by fragment.                                           *)
DeltasOf(s) == UNION {Range(c.deltas) : c \in ChunksOf(s)}

LEMMA DeltasType ==
  ASSUME NEW s \in Scripts, NEW c \in ChunksOf(s)
  PROVE  /\ c.content \in Seq(TextFragments)
         /\ c.deltas \in Seq(DeltasOf(s))
         /\ \A d \in Range(c.deltas) : d.arguments \in Seq(TextFragments)
<1>1. PICK p \in SaidIn(s) : c = StreamChunk(p)
  BY DEF ChunksOf
<1>2. c.content = p.content /\ c.deltas = Deltas(p)
  BY <1>1 DEF StreamChunk
<1>3. c.content \in Seq(TextFragments)
  BY <1>2, StreamAssumption
<1>4. CASE p.tool_calls = None
  <2>1. c.deltas = <<>>
    BY <1>2, <1>4 DEF Deltas
  <2> QED BY <1>3, <2>1 DEF Range
<1>5. CASE p.tool_calls # None
  <2> DEFINE ts == p.tool_calls
             n == Len(ts)
  <2>1. /\ ts \in Seq(Range(ts))
        /\ \A d \in Range(ts) : /\ DOMAIN d = {"index", "id", "name", "arguments"}
                               /\ d.arguments \in Seq(TextFragments)
    BY <1>5, StreamAssumption
  <2>2. n \in Nat /\ DOMAIN ts = 1..n
    BY <2>1
  <2>3. \A i \in 1..n : ts[i] \in Range(ts)
    BY <2>2 DEF Range
  <2>4. c.deltas = [i \in 1..n |-> [ts[i] EXCEPT !.index = IF @ = None THEN i - 1 ELSE @]]
    BY <1>2, <1>5, <2>2 DEF Deltas
  <2> HIDE DEF ts, n
  <2>5. DOMAIN c.deltas = 1..n
    BY <2>4
  <2>6. \A i \in 1..n : c.deltas[i] \in Range(c.deltas)
    BY <2>5 DEF Range
  <2>7. Range(c.deltas) \subseteq DeltasOf(s)
    BY DEF DeltasOf
  <2>8. \A i \in 1..n : c.deltas[i] \in DeltasOf(s)
    BY <2>6, <2>7
  <2>9. c.deltas \in Seq(DeltasOf(s))
    <3> DEFINE e == c.deltas
    <3>1. e = [i \in 1..n |-> e[i]]
      BY <2>4
    <3>2. \A i \in 1..n : e[i] \in DeltasOf(s)
      BY <2>8
    <3> HIDE DEF e
    <3>3. e \in [1..n -> DeltasOf(s)]
      BY <3>1, <3>2
    <3>4. e \in Seq(DeltasOf(s))
      BY <2>2, <3>3
    <3> QED BY <3>4 DEF e
  <2>10. ASSUME NEW i \in 1..n PROVE c.deltas[i].arguments \in Seq(TextFragments)
    <3>1. c.deltas[i] = [ts[i] EXCEPT !.index = IF @ = None THEN i - 1 ELSE @]
      BY <2>4
    <3>2. ts[i] \in Range(ts)
      BY <2>3
    <3>3. "arguments" \in DOMAIN ts[i] /\ ts[i].arguments \in Seq(TextFragments)
      BY <2>1, <3>2
    <3>4. c.deltas[i].arguments = ts[i].arguments
      BY <3>1, <3>3
    <3> QED BY <3>3, <3>4
  <2>11. \A d \in Range(c.deltas) : \E i \in 1..n : d = c.deltas[i]
    BY <2>5 DEF Range
  <2> QED BY <1>3, <2>9, <2>10, <2>11
<1> QED BY <1>4, <1>5

LEMMA DeltaArguments ==
  ASSUME NEW s \in Scripts, NEW d \in DeltasOf(s)
  PROVE  d.arguments \in Seq(TextFragments)
BY DeltasType DEF DeltasOf

LEMMA FlattenField ==
  ASSUME NEW D, NEW Y, NEW f, NEW seq \in Seq(D), NEW d \in D,
         \A x \in D : x[f] \in Seq(Y)
  PROVE  FlattenSeq(Field(Append(seq, d), f)) = FlattenSeq(Field(seq, f)) \o d[f]
<1> DEFINE V == {x[f] : x \in D}
           a == Field(seq, f)
           e == d[f]
<1>1. a \in Seq(V) /\ Field(Append(seq, d), f) = Append(a, e)
  BY FieldAppend
<1>2. V \subseteq Seq(Y) /\ e \in Seq(Y)
  OBVIOUS
<1> HIDE DEF V, a, e
<1>3. a \in Seq(Seq(Y))
  BY <1>1, <1>2, SeqMonotonic
<1>4. FlattenSeq(Append(a, e)) = FlattenSeq(a) \o e
  BY <1>2, <1>3, FlattenAppend
<1> QED BY <1>1, <1>4 DEF a, e

LEMMA LastField ==
  ASSUME NEW D, NEW seq \in Seq(D), NEW d \in D, NEW f
  PROVE  LastGiven(Field(Append(seq, d), f)) = Given(d[f], LastGiven(Field(seq, f)))
<1> DEFINE V == {x[f] : x \in D}
<1>1. Field(seq, f) \in Seq(V) /\ Field(Append(seq, d), f) = Append(Field(seq, f), d[f]) /\ d[f] \in V
  BY FieldAppend
<1> HIDE DEF V
<1>2. LastGiven(Append(Field(seq, f), d[f])) = Given(d[f], LastGiven(Field(seq, f)))
  BY <1>1, LastGivenAppend
<1> QED BY <1>1, <1>2

LEMMA WholeCallAppend ==
  ASSUME NEW s \in Scripts, NEW frs \in Seq(DeltasOf(s)), NEW d \in DeltasOf(s)
  PROVE  WholeCall(Append(frs, d)) =
           [id |-> Given(d.id, WholeCall(frs).id),
            name |-> Given(d.name, WholeCall(frs).name),
            arguments |-> WholeCall(frs).arguments \o d.arguments]
<1> DEFINE D == DeltasOf(s)
<1>1. \A x \in D : x.arguments \in Seq(TextFragments)
  BY DeltaArguments
<1> HIDE DEF D
<1>2. frs \in Seq(D) /\ d \in D
  BY DEF D
<1>3. FlattenSeq(Field(Append(frs, d), "arguments")) = FlattenSeq(Field(frs, "arguments")) \o d.arguments
  BY <1>1, <1>2, FlattenField
<1>5. /\ LastGiven(Field(Append(frs, d), "id")) = Given(d.id, LastGiven(Field(frs, "id")))
      /\ LastGiven(Field(Append(frs, d), "name")) = Given(d.name, LastGiven(Field(frs, "name")))
  BY <1>2, LastField
<1> QED BY <1>3, <1>5 DEF WholeCall

(* The fragments of one call among others.                                 *)
Selected(ds, index) ==
  FlattenSeq([k \in DOMAIN ds |-> IF ds[k].index = index THEN <<ds[k]>> ELSE <<>>])

OfCall(D, index) == [d \in D |-> IF d.index = index THEN <<d>> ELSE <<>>]

LEMMA OfCallType ==
  ASSUME NEW D, NEW index
  PROVE  OfCall(D, index) \in [D -> Seq(D)]
BY DEF OfCall

LEMMA SelectedMapped ==
  ASSUME NEW D, NEW index, NEW ds \in Seq(D)
  PROVE  /\ Selected(ds, index) = Mapped(OfCall(D, index), ds)
         /\ Selected(ds, index) \in Seq(D)
<1> DEFINE F == OfCall(D, index)
<1>1. \A k \in DOMAIN ds : F[ds[k]] = IF ds[k].index = index THEN <<ds[k]>> ELSE <<>>
  <2>1. \A k \in DOMAIN ds : ds[k] \in D
    OBVIOUS
  <2> QED BY <2>1 DEF OfCall
<1>2. F \in [D -> Seq(D)]
  BY OfCallType
<1> HIDE DEF F
<1>3. [k \in DOMAIN ds |-> F[ds[k]]] =
      [k \in DOMAIN ds |-> IF ds[k].index = index THEN <<ds[k]>> ELSE <<>>]
  BY <1>1, Zenon
<1>4. Mapped(F, ds) \in Seq(D)
  BY <1>2, MappedType
<1>5. Selected(ds, index) = Mapped(F, ds)
  BY <1>3 DEF Selected, Mapped
<1> QED BY <1>4, <1>5 DEF F

LEMMA SelectedConcat ==
  ASSUME NEW D, NEW index, NEW a \in Seq(D), NEW b \in Seq(D)
  PROVE  Selected(a \o b, index) = Selected(a, index) \o Selected(b, index)
<1> DEFINE F == OfCall(D, index)
           c == a \o b
<1>1. c \in Seq(D)
  OBVIOUS
<1> HIDE DEF c
<1>2. Selected(c, index) = Mapped(F, c) /\ Selected(a, index) = Mapped(F, a) /\ Selected(b, index) = Mapped(F, b)
  BY <1>1, SelectedMapped
<1>3. F \in [D -> Seq(D)]
  BY OfCallType
<1> HIDE DEF F
<1>4. Mapped(F, a \o b) = Mapped(F, a) \o Mapped(F, b)
  BY <1>3, MappedConcat
<1> QED BY <1>2, <1>4 DEF c

LEMMA SelectedOne ==
  ASSUME NEW D, NEW index, NEW d \in D
  PROVE  Selected(<<d>>, index) = IF d.index = index THEN <<d>> ELSE <<>>
<1> DEFINE one == IF d.index = index THEN <<d>> ELSE <<>>
           m == [k \in DOMAIN <<d>> |-> IF <<d>>[k].index = index THEN <<<<d>>[k]>> ELSE <<>>]
<1>1. m = <<one>> /\ one \in Seq(D)
  OBVIOUS
<1> HIDE DEF one
<1>2. FlattenSeq(<<one>>) = one
  BY <1>1, FlattenOne
<1> QED BY <1>1, <1>2 DEF Selected, one

LEMMA FragmentsAppend ==
  ASSUME NEW s \in Scripts, NEW cs \in Seq(ChunksOf(s)), NEW c \in ChunksOf(s), NEW index
  PROVE  /\ Fragments(cs, index) \in Seq(DeltasOf(s))
         /\ Fragments(Append(cs, c), index) = Fragments(cs, index) \o Selected(c.deltas, index)
<1> DEFINE D == DeltasOf(s)
           all == FlattenSeq(Field(cs, "deltas"))
<1>1. \A x \in ChunksOf(s) : x.deltas \in Seq(D)
  BY DeltasType
<1>2. Field(cs, "deltas") \in Seq({x.deltas : x \in ChunksOf(s)})
  BY FieldAppend
<1> HIDE DEF D
<1>3. FlattenSeq(Field(Append(cs, c), "deltas")) = all \o c.deltas
  BY <1>1, FlattenField
<1>4. all \in Seq(D)
  <2> DEFINE V == {x.deltas : x \in ChunksOf(s)}
  <2>1. V \subseteq Seq(D)
    BY <1>1
  <2> HIDE DEF V
  <2>2. Field(cs, "deltas") \in Seq(V)
    BY <1>2 DEF V
  <2>3. Field(cs, "deltas") \in Seq(Seq(D))
    BY <2>1, <2>2, SeqMonotonic
  <2> QED BY <2>3, FlattenType
<1>5. Fragments(cs, index) = Selected(all, index)
  BY DEF Fragments, Selected
<1>6. Fragments(Append(cs, c), index) = Selected(all \o c.deltas, index)
  BY <1>3 DEF Fragments, Selected
<1> HIDE DEF all
<1>7. c.deltas \in Seq(D)
  BY <1>1
<1> DEFINE ds == c.deltas
<1> HIDE DEF ds
<1>8. ds \in Seq(D)
  BY <1>7 DEF ds
<1>9. Selected(all \o ds, index) = Selected(all, index) \o Selected(ds, index)
  BY <1>4, <1>8, SelectedConcat
<1>10. Selected(all, index) \in Seq(D)
  BY <1>4, SelectedMapped
<1> QED BY <1>5, <1>6, <1>9, <1>10 DEF D, ds

---------------------------------------------------------------------------
(* The loop over the fragments of a chunk.                                 *)
IngestStep(calls, deltas, after, n) ==
  IF n = 0 THEN calls ELSE IngestDelta(after[n - 1], deltas[n])

LEMMA IngestExists ==
  ASSUME NEW calls, NEW deltas, NEW n \in Nat
  PROVE  \E after : after = [i \in 0..n |-> IngestStep(calls, deltas, after, i)]
<1> DEFINE Good(f, m) == f = [i \in 0..m |-> IngestStep(calls, deltas, f, i)]
           S == {m \in Nat : \E f : Good(f, m)}
<1>1. 0 \in S
  <2> DEFINE f == [i \in 0..0 |-> calls]
  <2>1. \A i \in 0..0 : IngestStep(calls, deltas, f, i) = calls
    BY DEF IngestStep
  <2>2. f = [i \in 0..0 |-> IngestStep(calls, deltas, f, i)]
    <3> HIDE DEF f
    <3>1. f = [i \in 0..0 |-> calls]
      BY DEF f
    <3> QED BY <2>1, <3>1, Zenon
  <2> QED BY <2>2
<1>2. ASSUME NEW m \in Nat, m \in S PROVE m + 1 \in S
  <2>1. PICK f : f = [i \in 0..m |-> IngestStep(calls, deltas, f, i)]
    BY <1>2
  <2> DEFINE last == IngestDelta(f[m], deltas[m + 1])
             g == [i \in 0..(m + 1) |-> IF i = m + 1 THEN last ELSE f[i]]
  <2>2. \A i \in 0..m : f[i] = IngestStep(calls, deltas, f, i)
    BY <2>1
  <2> HIDE DEF last
  <2>3. ASSUME NEW i \in 0..(m + 1)
        PROVE  (IF i = m + 1 THEN last ELSE f[i]) = IngestStep(calls, deltas, g, i)
    <3>1. CASE i = m + 1
      <4>1. i # 0 /\ i - 1 = m /\ g[m] = f[m]
        BY <3>1
      <4> HIDE DEF g
      <4>2. IngestStep(calls, deltas, g, i) = IngestDelta(g[i - 1], deltas[i])
        BY <4>1 DEF IngestStep
      <4> QED BY <3>1, <4>1, <4>2 DEF last
    <3>2. CASE i # m + 1 /\ i # 0
      <4>1. i \in 0..m /\ i - 1 \in 0..(m + 1) /\ i - 1 # m + 1
        BY <3>2
      <4>2. g[i - 1] = f[i - 1]
        BY <4>1
      <4> HIDE DEF g
      <4> QED BY <2>2, <3>2, <4>1, <4>2 DEF IngestStep
    <3>3. CASE i = 0
      <4>1. i \in 0..m /\ i # m + 1
        BY <3>3
      <4> HIDE DEF g
      <4> QED BY <2>2, <3>3, <4>1 DEF IngestStep
    <3> QED BY <3>1, <3>2, <3>3
  <2>4. g = [i \in 0..(m + 1) |-> IngestStep(calls, deltas, g, i)]
    <3> HIDE DEF g
    <3>1. g = [i \in 0..(m + 1) |-> IF i = m + 1 THEN last ELSE f[i]]
      BY DEF g
    <3> QED BY <2>3, <3>1, Zenon
  <2> HIDE DEF g
  <2>5. \E h : Good(h, m + 1)
    BY <2>4
  <2> QED BY <2>5
<1>3. n \in S
  <2> HIDE DEF S
  <2> QED BY <1>1, <1>2, SetInduction
<1> QED BY <1>3

LEMMA IngestDeltasIs ==
  ASSUME NEW calls, NEW deltas, Len(deltas) \in Nat
  PROVE  \E after : /\ after = [i \in 0..Len(deltas) |-> IngestStep(calls, deltas, after, i)]
                    /\ IngestDeltas(calls, deltas) = after[Len(deltas)]
<1>1. \E after : after = [i \in 0..Len(deltas) |-> IngestStep(calls, deltas, after, i)]
  BY IngestExists
<1> QED BY <1>1 DEF IngestDeltas, IngestStep

LEMMA DeltaSlot ==
  ASSUME NEW calls, NEW d, NEW index
  PROVE  Slot(IngestDelta(calls, d), index) =
           IF d.index = index
           THEN [id |-> Given(d.id, Slot(calls, index).id),
                 name |-> Given(d.name, Slot(calls, index).name),
                 arguments |-> Slot(calls, index).arguments \o d.arguments]
           ELSE Slot(calls, index)
<1> DEFINE given == [id |-> Given(d.id, Slot(calls, index).id),
                     name |-> Given(d.name, Slot(calls, index).name),
                     arguments |-> Slot(calls, index).arguments \o d.arguments]
           after == IngestDelta(calls, d)
<1>1. DOMAIN after = DOMAIN calls \cup {d.index}
  BY DEF IngestDelta
<1>2. CASE d.index = index
  <2>1. after[index] = given
    BY <1>2 DEF IngestDelta
  <2> QED BY <1>1, <1>2, <2>1 DEF Slot
<1>3. CASE d.index # index /\ index \in DOMAIN calls
  <2>1. after[index] = calls[index]
    BY <1>3 DEF IngestDelta
  <2> HIDE DEF after
  <2> QED BY <1>1, <1>3, <2>1 DEF Slot, after
<1>4. CASE d.index # index /\ index \notin DOMAIN calls
  <2> HIDE DEF after
  <2> QED BY <1>1, <1>4 DEF Slot, after
<1> QED BY <1>2, <1>3, <1>4

LEMMA IngestedSlot ==
  ASSUME NEW s \in Scripts, NEW ds \in Seq(DeltasOf(s)), NEW frs \in Seq(DeltasOf(s)),
         NEW calls, NEW index, Slot(calls, index) = WholeCall(frs)
  PROVE  Slot(IngestDeltas(calls, ds), index) = WholeCall(frs \o Selected(ds, index))
<1> DEFINE D == DeltasOf(s)
           n == Len(ds)
           upto(m) == frs \o Selected(SubSeq(ds, 1, m), index)
<1>1. n \in Nat /\ ds \in Seq(D) /\ frs \in Seq(D) /\ \A i \in 1..n : ds[i] \in D
  OBVIOUS
<1>2. PICK after : /\ after = [i \in 0..n |-> IngestStep(calls, ds, after, i)]
                   /\ IngestDeltas(calls, ds) = after[n]
  BY <1>1, IngestDeltasIs
<1>3. \A i \in 0..n : after[i] = IngestStep(calls, ds, after, i)
  BY <1>2
<1>4. after[0] = calls /\ \A i \in 1..n : after[i] = IngestDelta(after[i - 1], ds[i])
  <2>1. 0 \in 0..n /\ \A i \in 1..n : i \in 0..n /\ i # 0
    BY <1>1
  <2> QED BY <1>3, <2>1 DEF IngestStep
<1> DEFINE P(m) == m <= n => Slot(after[m], index) = WholeCall(upto(m))
           S == {m \in Nat : P(m)}
<1>5. P(0)
  <2>1. SubSeq(ds, 1, 0) = <<>>
    BY SubSeqEmpty
  <2>2. Selected(<<>>, index) = <<>>
    BY DEF Selected, FlattenSeq
  <2>3. frs \o <<>> = frs
    BY <1>1, ConcatEmptySeq
  <2> QED BY <1>4, <2>1, <2>2, <2>3
<1>6. ASSUME NEW m \in Nat, P(m) PROVE P(m + 1)
  <2>1. SUFFICES ASSUME m + 1 <= n PROVE Slot(after[m + 1], index) = WholeCall(upto(m + 1))
    BY Zenon
  <2> HIDE DEF n, D
  <2> DEFINE before == SubSeq(ds, 1, m)
             sel == Selected(before, index)
             d == ds[m + 1]
  <2>2. m <= n /\ m + 1 \in 1..n /\ (m + 1) - 1 = m /\ m \in 0..n
    BY <1>1, <2>1
  <2>3. Slot(after[m], index) = WholeCall(frs \o sel)
    BY <1>6, <2>2
  <2>4. d \in D /\ after[m + 1] = IngestDelta(after[m], d)
    BY <1>1, <1>4, <2>2
  <2>5. before \in Seq(D) /\ SubSeq(ds, 1, m + 1) = before \o <<d>>
    <3>1. 1 \in 1..n /\ m + 1 \in 1..n
      BY <1>1, <2>2
    <3>2. SubSeq(ds, 1, m + 1) = SubSeq(ds, 1, (m + 1) - 1) \o <<ds[m + 1]>>
      BY <1>1, <3>1, SubSeqRecursiveSecond DEF n
    <3>3. \A i \in 1..m : ds[i] \in D
      BY <1>1, <2>2
    <3>4. before \in Seq(D)
      BY <3>3, SubSeqProperties
    <3> QED BY <2>2, <3>2, <3>4
  <2> HIDE DEF before, d
  <2>6. <<d>> \in Seq(D)
    BY <2>4
  <2>7. /\ Selected(before \o <<d>>, index) = sel \o Selected(<<d>>, index)
        /\ sel \in Seq(D)
        /\ Selected(<<d>>, index) = IF d.index = index THEN <<d>> ELSE <<>>
    <3> DEFINE one == <<d>>
    <3> HIDE DEF one
    <3>1. one \in Seq(D)
      BY <2>6 DEF one
    <3>2. Selected(before \o one, index) = Selected(before, index) \o Selected(one, index)
      BY <2>5, <3>1, SelectedConcat
    <3>3. Selected(before, index) \in Seq(D)
      BY <2>5, SelectedMapped
    <3>4. Selected(one, index) = IF d.index = index THEN <<d>> ELSE <<>>
      BY <2>4, SelectedOne DEF one
    <3> QED BY <3>2, <3>3, <3>4 DEF one
  <2> HIDE DEF sel
  <2>8. frs \o sel \in Seq(D)
    BY <1>1, <2>7
  <2>9. upto(m + 1) = frs \o (sel \o Selected(<<d>>, index))
    BY <2>5, <2>7
  <2>10. CASE d.index = index
    <3>1. upto(m + 1) = frs \o (sel \o <<d>>)
      BY <2>7, <2>9, <2>10
    <3>2. frs \o (sel \o <<d>>) = (frs \o sel) \o <<d>>
      BY <1>1, <2>6, <2>7, ConcatAssociative
    <3>3. Append(frs \o sel, d) = (frs \o sel) \o <<d>>
      BY <2>4, <2>8, AppendIsConcat
    <3> DEFINE old == frs \o sel
    <3> HIDE DEF old
    <3>4. WholeCall(Append(old, d)) =
            [id |-> Given(d.id, WholeCall(old).id),
             name |-> Given(d.name, WholeCall(old).name),
             arguments |-> WholeCall(old).arguments \o d.arguments]
      BY <2>4, <2>8, WholeCallAppend DEF D, old
    <3>5. Slot(after[m + 1], index) =
            [id |-> Given(d.id, WholeCall(old).id),
             name |-> Given(d.name, WholeCall(old).name),
             arguments |-> WholeCall(old).arguments \o d.arguments]
      BY <2>3, <2>4, <2>10, DeltaSlot DEF old
    <3> QED BY <3>1, <3>2, <3>3, <3>4, <3>5 DEF old
  <2>11. CASE d.index # index
    <3>1. sel \o <<>> = sel
      BY <2>7, ConcatEmptySeq
    <3>2. upto(m + 1) = frs \o sel
      BY <2>7, <2>9, <2>11, <3>1
    <3>3. Slot(after[m + 1], index) = Slot(after[m], index)
      <4> DEFINE old == after[m]
      <4> HIDE DEF old
      <4>1. Slot(IngestDelta(old, d), index) = Slot(old, index)
        BY <2>11, DeltaSlot
      <4> QED BY <2>4, <4>1 DEF old
    <3> QED BY <2>3, <3>2, <3>3
  <2> QED BY <2>10, <2>11
<1>7. P(n)
  <2> HIDE DEF P
  <2>1. 0 \in S /\ \A m \in Nat : m \in S => m + 1 \in S
    BY <1>5, <1>6
  <2>2. Nat \subseteq S
    <3> HIDE DEF S
    <3> QED BY <2>1, SetInduction
  <2> QED BY <1>1, <2>2
<1>8. Slot(after[n], index) = WholeCall(upto(n))
  <2>1. n <= n
    BY <1>1
  <2> QED BY <1>7, <2>1, Zenon
<1>9. SubSeq(ds, 1, n) = ds
  BY <1>1, SubSeqFull
<1> QED BY <1>2, <1>8, <1>9

LEMMA OtherCalls ==
  ASSUME NEW cs, NEW tc
  PROVE  [WholeReply(cs) EXCEPT !.tool_calls = tc] =
           [content |-> FlattenSeq(Field(cs, "content")), tool_calls |-> tc,
            finish_reason |-> LastGiven(Field(cs, "finish_reason")),
            usage |-> LastGiven(Field(cs, "usage"))]
<1> DEFINE c == FlattenSeq(Field(cs, "content"))
           t == WholeReply(cs).tool_calls
           f == LastGiven(Field(cs, "finish_reason"))
           u == LastGiven(Field(cs, "usage"))
           whole == WholeReply(cs)
<1>1. whole = [content |-> c, tool_calls |-> t, finish_reason |-> f, usage |-> u]
  BY Zenon DEF WholeReply
<1> HIDE DEF c, t, f, u, whole
<1>2. [whole EXCEPT !.tool_calls = tc] =
        [content |-> c, tool_calls |-> tc, finish_reason |-> f, usage |-> u]
  BY <1>1
<1> QED BY <1>2 DEF c, f, u, whole

(* What is assembled is what the chunks say as a whole, one chunk later.   *)
LEMMA IngestAssembles ==
  ASSUME NEW s \in Scripts, NEW cs \in Seq(ChunksOf(s)), NEW c \in ChunksOf(s), NEW a,
         a = [WholeReply(cs) EXCEPT !.tool_calls = a.tool_calls],
         \A i \in 0..(MAX_PARALLEL_TOOL_CALLS - 1) :
           Slot(a.tool_calls, i) = WholeCall(Fragments(cs, i))
  PROVE  /\ Ingest(a, c) =
              [WholeReply(Append(cs, c)) EXCEPT !.tool_calls = Ingest(a, c).tool_calls]
         /\ \A i \in 0..(MAX_PARALLEL_TOOL_CALLS - 1) :
              Slot(Ingest(a, c).tool_calls, i) = WholeCall(Fragments(Append(cs, c), i))
<1> DEFINE b == Ingest(a, c)
           q == Append(cs, c)
<1>1. /\ a.content = FlattenSeq(Field(cs, "content"))
      /\ a.finish_reason = LastGiven(Field(cs, "finish_reason"))
      /\ a.usage = LastGiven(Field(cs, "usage"))
  <2> DEFINE tc == a.tool_calls
  <2>1. a = [WholeReply(cs) EXCEPT !.tool_calls = tc]
    OBVIOUS
  <2> HIDE DEF tc
  <2> QED BY <2>1 DEF WholeReply
<1>2. /\ b.content = a.content \o c.content
      /\ b.finish_reason = Given(c.finish_reason, a.finish_reason)
      /\ b.usage = Given(c.usage, a.usage)
      /\ b.tool_calls = IngestDeltas(a.tool_calls, c.deltas)
      /\ b = [content |-> b.content, tool_calls |-> b.tool_calls,
              finish_reason |-> b.finish_reason, usage |-> b.usage]
  BY DEF Ingest
<1> HIDE DEF b
<1>3. FlattenSeq(Field(q, "content")) = FlattenSeq(Field(cs, "content")) \o c.content
  <2>1. \A x \in ChunksOf(s) : x.content \in Seq(TextFragments)
    BY DeltasType
  <2> QED BY <2>1, FlattenField
<1>4. cs \in Seq(ChunksOf(s)) /\ c \in ChunksOf(s)
  OBVIOUS
<1>5. /\ LastGiven(Field(q, "finish_reason")) = Given(c.finish_reason, LastGiven(Field(cs, "finish_reason")))
      /\ LastGiven(Field(q, "usage")) = Given(c.usage, LastGiven(Field(cs, "usage")))
  BY <1>4, LastField
<1> HIDE DEF q
<1>6. b = [WholeReply(q) EXCEPT !.tool_calls = b.tool_calls]
  <2>1. /\ b.content = FlattenSeq(Field(q, "content"))
        /\ b.finish_reason = LastGiven(Field(q, "finish_reason"))
        /\ b.usage = LastGiven(Field(q, "usage"))
    BY <1>1, <1>2, <1>3, <1>5
  <2>2. b = [content |-> FlattenSeq(Field(q, "content")), tool_calls |-> b.tool_calls,
             finish_reason |-> LastGiven(Field(q, "finish_reason")),
             usage |-> LastGiven(Field(q, "usage"))]
    BY <1>2, <2>1, Zenon
  <2> DEFINE tc == b.tool_calls
  <2> HIDE DEF tc
  <2>3. [WholeReply(q) EXCEPT !.tool_calls = tc] =
          [content |-> FlattenSeq(Field(q, "content")), tool_calls |-> tc,
           finish_reason |-> LastGiven(Field(q, "finish_reason")),
           usage |-> LastGiven(Field(q, "usage"))]
    BY OtherCalls
  <2> QED BY <2>2, <2>3, Zenon DEF tc
<1>7. ASSUME NEW i \in 0..(MAX_PARALLEL_TOOL_CALLS - 1)
      PROVE  Slot(b.tool_calls, i) = WholeCall(Fragments(q, i))
  <2> DEFINE ds == c.deltas
             frs == Fragments(cs, i)
  <2>1. ds \in Seq(DeltasOf(s))
    BY DeltasType
  <2>2. frs \in Seq(DeltasOf(s)) /\ Fragments(q, i) = frs \o Selected(ds, i)
    BY FragmentsAppend DEF q
  <2>3. Slot(a.tool_calls, i) = WholeCall(frs)
    OBVIOUS
  <2> HIDE DEF ds, frs
  <2>4. Slot(IngestDeltas(a.tool_calls, ds), i) = WholeCall(frs \o Selected(ds, i))
    BY <2>1, <2>2, <2>3, IngestedSlot
  <2> QED BY <1>2, <2>2, <2>4 DEF ds
<1> QED BY <1>6, <1>7 DEF b, q

LEMMA NothingAssembled ==
  /\ NewAssembler = [WholeReply(<<>>) EXCEPT !.tool_calls = NewAssembler.tool_calls]
  /\ \A i \in 0..(MAX_PARALLEL_TOOL_CALLS - 1) :
       Slot(NewAssembler.tool_calls, i) = WholeCall(Fragments(<<>>, i))
<1>1. \A f : Field(<<>>, f) = <<>>
  BY DEF Field
<1>2. FlattenSeq(<<>>) = <<>>
  BY DEF FlattenSeq
<1>3. LastGiven(<<>>) = None
  BY DEF LastGiven
<1>4. NewAssembler = [WholeReply(<<>>) EXCEPT !.tool_calls = NewAssembler.tool_calls]
  <2> DEFINE none == [i \in {} |-> None]
  <2> HIDE DEF none
  <2>1. NewAssembler = [content |-> <<>>, tool_calls |-> none, finish_reason |-> None, usage |-> None]
    BY DEF NewAssembler, none
  <2>2. FlattenSeq(Field(<<>>, "content")) = <<>> /\ LastGiven(Field(<<>>, "finish_reason")) = None
        /\ LastGiven(Field(<<>>, "usage")) = None
    BY <1>1, <1>2, <1>3
  <2>3. [WholeReply(<<>>) EXCEPT !.tool_calls = none] =
          [content |-> <<>>, tool_calls |-> none, finish_reason |-> None, usage |-> None]
    BY <2>2, OtherCalls
  <2> QED BY <2>1, <2>3
<1>5. ASSUME NEW i PROVE Slot(NewAssembler.tool_calls, i) = WholeCall(Fragments(<<>>, i))
  <2>1. Slot(NewAssembler.tool_calls, i) = PartialToolCall
    BY DEF NewAssembler, Slot
  <2>2. Fragments(<<>>, i) = <<>>
    <3>1. FlattenSeq(Field(<<>>, "deltas")) = <<>>
      BY <1>1, <1>2
    <3> QED BY <1>2, <3>1 DEF Fragments
  <2>3. WholeCall(<<>>) = [id |-> None, name |-> None, arguments |-> <<>>]
    BY <1>1, <1>2, <1>3 DEF WholeCall
  <2> QED BY <2>1, <2>2, <2>3 DEF PartialToolCall
<1> QED BY <1>4, <1>5

LEMMA FinalizeIsWhole ==
  ASSUME NEW cs, NEW a,
         a = [WholeReply(cs) EXCEPT !.tool_calls = a.tool_calls],
         \A i \in 0..(MAX_PARALLEL_TOOL_CALLS - 1) :
           Slot(a.tool_calls, i) = WholeCall(Fragments(cs, i))
  PROVE  Finalize(a) = WholeReply(cs)
<1> DEFINE M == MAX_PARALLEL_TOOL_CALLS
           mine == [k \in 1..M |-> Slot(a.tool_calls, k - 1)]
           whole == [k \in 1..M |-> WholeCall(Fragments(cs, k - 1))]
<1>1. mine = whole
  <2>1. ASSUME NEW k \in 1..M PROVE Slot(a.tool_calls, k - 1) = WholeCall(Fragments(cs, k - 1))
    <3>1. k - 1 \in 0..(M - 1)
      BY AssemblerAssumption
    <3> QED BY <3>1
  <2> QED BY <2>1, Zenon
<1> DEFINE tc == a.tool_calls
           calls == InOrder(whole)
<1>2. Finalize(a) = [a EXCEPT !.tool_calls = InOrder(mine)]
  BY DEF Finalize
<1>3. WholeReply(cs).tool_calls = calls
  BY DEF WholeReply
<1>4. a = [WholeReply(cs) EXCEPT !.tool_calls = tc]
  OBVIOUS
<1> HIDE DEF calls, tc
<1>5. [a EXCEPT !.tool_calls = calls] = [WholeReply(cs) EXCEPT !.tool_calls = calls]
  BY <1>4 DEF WholeReply
<1>6. [WholeReply(cs) EXCEPT !.tool_calls = calls] = WholeReply(cs)
  BY <1>3 DEF WholeReply
<1> QED BY <1>1, <1>2, <1>5, <1>6 DEF calls

---------------------------------------------------------------------------
(* Where the bytes may be read in parts.                                   *)
LEMMA PartType ==
  ASSUME NEW X, NEW seq \in Seq(X), NEW i \in 1..(Len(seq) + 1), NEW k \in (i - 1)..Len(seq)
  PROVE  /\ SubSeq(seq, i, k) \in Seq(X)
         /\ Len(SubSeq(seq, i, k)) = k - i + 1
         /\ \A j \in 1..(k - i + 1) : SubSeq(seq, i, k)[j] = seq[i + j - 1]
<1>1. Len(seq) \in Nat /\ i \in Int /\ k \in Int
  OBVIOUS
<1>2. \A j \in i..k : seq[j] \in X
  BY <1>1
<1>3. (IF i <= k THEN k - i + 1 ELSE 0) = k - i + 1
  BY <1>1
<1> QED BY <1>1, <1>2, <1>3, SubSeqProperties

LEMMA RangeSplit ==
  ASSUME NEW s \in Scripts, NEW bytes \in Seq(BytesOf(s)),
         NEW i \in 1..(Len(bytes) + 1), NEW j \in (i - 1)..Len(bytes), NEW k \in j..Len(bytes),
         j = i - 1 \/ bytes[j].piece # "middle"
  PROVE  Payloads(SubSeq(bytes, i, k)) =
           Payloads(SubSeq(bytes, i, j)) \o Payloads(SubSeq(bytes, j + 1, k))
<1> DEFINE B == BytesOf(s)
           x == SubSeq(bytes, i, j)
           y == SubSeq(bytes, j + 1, k)
<1>0. bytes \in Seq(B)
  OBVIOUS
<1> HIDE DEF B
<1>1. Len(bytes) \in Nat /\ j + 1 \in 1..(Len(bytes) + 1) /\ k \in ((j + 1) - 1)..Len(bytes)
  BY <1>0
<1>2. x \in Seq(B) /\ Len(x) = j - i + 1 /\ \A l \in 1..(j - i + 1) : x[l] = bytes[i + l - 1]
  BY <1>0, PartType
<1>3. y \in Seq(B)
  BY <1>0, <1>1, PartType
<1>4. SubSeq(bytes, i, k) = x \o y
  BY <1>0, ConcatAdjacentSubSeq
<1> HIDE DEF x, y
<1>5. x = <<>> \/ x[Len(x)].piece # "middle" \/ y = <<>>
  <2>1. CASE j = i - 1
    <3>1. Len(x) = 0
      BY <1>2, <2>1
    <3> QED BY <1>2, <3>1
  <2>2. CASE j # i - 1
    <3>1. Len(x) \in 1..(j - i + 1) /\ i + Len(x) - 1 = j
      BY <1>1, <1>2, <2>2
    <3>2. x[Len(x)] = bytes[j]
      BY <1>2, <3>1
    <3> QED BY <2>2, <3>2
  <2> QED BY <2>1, <2>2
<1>6. Payloads(x \o y) = Payloads(x) \o Payloads(y)
  BY <1>2, <1>3, <1>5, PayloadsConcat DEF B
<1> QED BY <1>4, <1>6 DEF x, y

LEMMA InDelimiter ==
  ASSUME NEW X, NEW bytes \in Seq(X), NEW i \in 1..Len(bytes), NEW d \in {2, 4},
         i + d - 1 <= Len(bytes), SubSeq(bytes, i, i + d - 1) \in Delimiters
  PROVE  \A k \in i..(i + d - 1) : bytes[k] \in {LF, CR} /\ bytes[k].piece \notin {"middle", "end"}
<1> DEFINE q == SubSeq(bytes, i, i + d - 1)
<1>1. /\ Len(bytes) \in Nat /\ i \in 1..(Len(bytes) + 1)
      /\ i + d - 1 \in (i - 1)..Len(bytes) /\ (i + d - 1) - i + 1 = d
  OBVIOUS
<1>2. Len(q) = d /\ \A j \in 1..d : q[j] = bytes[i + j - 1]
  <2> DEFINE e == i + d - 1
  <2> HIDE DEF e
  <2>1. /\ Len(SubSeq(bytes, i, e)) = e - i + 1
        /\ \A j \in 1..(e - i + 1) : SubSeq(bytes, i, e)[j] = bytes[i + j - 1]
    BY <1>1, PartType DEF e
  <2>2. e - i + 1 = d
    BY <1>1 DEF e
  <2> QED BY <2>1, <2>2 DEF e
<1>3. \A p \in Delimiters : \A j \in 1..Len(p) : p[j] \in {LF, CR}
  <2>1. \A j \in 1..Len(<<LF, LF>>) : <<LF, LF>>[j] \in {LF, CR}
    OBVIOUS
  <2>2. \A j \in 1..Len(<<CR, LF, CR, LF>>) : <<CR, LF, CR, LF>>[j] \in {LF, CR}
    OBVIOUS
  <2> QED BY <2>1, <2>2 DEF Delimiters
<1> HIDE DEF q
<1>4. q \in Delimiters
  BY DEF q
<1>5. LF.piece = "lf" /\ CR.piece = "cr"
  BY DEF LF, CR, Byte
<1>6. ASSUME NEW k \in i..(i + d - 1) PROVE bytes[k] \in {LF, CR}
  <2>1. k - i + 1 \in 1..d /\ i + (k - i + 1) - 1 = k
    BY <1>1
  <2>2. q[k - i + 1] = bytes[k]
    BY <1>2, <2>1
  <2> QED BY <1>2, <1>3, <1>4, <2>1, <2>2
<1> QED BY <1>5, <1>6

LEMMA AfterEventByte ==
  ASSUME NEW X, NEW bytes \in Seq(X), NEW n \in 1..Len(bytes), AfterEvent(bytes, n)
  PROVE  bytes[n].piece # "middle"
<1>1. n # 0 /\ n \in Nat /\ Len(bytes) \in Nat
  OBVIOUS
<1>2. PICK d \in {2, 4} : d <= n /\ SubSeq(bytes, n - d + 1, n) \in Delimiters
  BY <1>1 DEF AfterEvent
<1> DEFINE i == n - d + 1
<1>3. i \in 1..Len(bytes) /\ i + d - 1 = n /\ n \in i..(i + d - 1) /\ i + d - 1 <= Len(bytes)
  BY <1>1, <1>2
<1>4. SubSeq(bytes, i, i + d - 1) \in Delimiters
  BY <1>2, <1>3
<1> HIDE DEF i
<1>5. \A k \in i..(i + d - 1) : bytes[k].piece \notin {"middle", "end"}
  BY <1>3, <1>4, InDelimiter
<1> QED BY <1>3, <1>5

---------------------------------------------------------------------------
(* BytesInv of a script, what is left of it and a buffer; the bytes that   *)
(* arrived, and those taken out of the buffer.                             *)
ArrivedLen(s, w) == Len(Encodings[s]) - Len(w)
TakenLen(s, w, b) == ArrivedLen(s, w) - Len(b)

BytesAre(s, w, b) ==
  /\ s \in Scripts
  /\ TakenLen(s, w, b) \in Nat /\ ArrivedLen(s, w) \in Nat
  /\ w = SubSeq(Encodings[s], ArrivedLen(s, w) + 1, Len(Encodings[s]))
  /\ b = SubSeq(Encodings[s], TakenLen(s, w, b) + 1, ArrivedLen(s, w))
  /\ AfterEvent(Encodings[s], TakenLen(s, w, b))

LEMMA EncodingsType ==
  ASSUME NEW s \in Scripts
  PROVE  /\ Encodings[s] \in Seq(BytesOf(s)) /\ WholeLines(Encodings[s])
         /\ Len(Encodings[s]) \in Nat
<1>1. Encodings[s] = Encoded(s)
  BY DEF Encodings
<1>2. Encoded(s) \in Seq(BytesOf(s)) /\ WholeLines(Encoded(s))
  BY EncodedWhole
<1> QED BY <1>1, <1>2

LEMMA PartOf ==
  ASSUME NEW X, NEW seq \in Seq(X), NEW i \in Nat, NEW k \in 0..Len(seq)
  PROVE  /\ SubSeq(seq, i + 1, k) \in Seq(X)
         /\ Len(SubSeq(seq, i + 1, k)) = IF i < k THEN k - i ELSE 0
         /\ \A j \in 1..Len(SubSeq(seq, i + 1, k)) : SubSeq(seq, i + 1, k)[j] = seq[i + j]
<1> DEFINE p == SubSeq(seq, i + 1, k)
           m == i + 1
<1>1. Len(seq) \in Nat /\ m \in Int /\ k \in Int /\ m >= 1
  OBVIOUS
<1>2. \A j \in m..k : seq[j] \in X
  BY <1>1
<1>3. /\ SubSeq(seq, m, k) \in Seq(X)
      /\ Len(SubSeq(seq, m, k)) = IF m <= k THEN k - m + 1 ELSE 0
      /\ \A j \in 1..(k - m + 1) : SubSeq(seq, m, k)[j] = seq[m + j - 1]
  <2> HIDE DEF m
  <2> QED BY <1>1, <1>2, SubSeqProperties
<1>4. p \in Seq(X) /\ Len(p) = IF m <= k THEN k - m + 1 ELSE 0
  BY <1>3
<1> HIDE DEF p
<1>5. Len(p) = IF i < k THEN k - i ELSE 0
  BY <1>1, <1>4
<1>6. ASSUME NEW j \in 1..Len(p) PROVE p[j] = seq[i + j]
  <2>1. j \in 1..(k - m + 1) /\ m + j - 1 = i + j
    BY <1>1, <1>5
  <2> QED BY <1>3, <2>1 DEF p
<1> QED BY <1>4, <1>5, <1>6 DEF p

LEMMA BytesFacts ==
  ASSUME NEW s, NEW w, NEW b, BytesAre(s, w, b)
  PROVE  /\ s \in Scripts
         /\ w \in Seq(BytesOf(s)) /\ b \in Seq(BytesOf(s))
         /\ Len(w) \in Nat /\ Len(b) \in Nat
         /\ ArrivedLen(s, w) \in 0..Len(Encodings[s])
         /\ TakenLen(s, w, b) \in 0..ArrivedLen(s, w)
         /\ \A i \in 1..Len(w) : w[i] = Encodings[s][ArrivedLen(s, w) + i]
         /\ \A i \in 1..Len(b) : b[i] = Encodings[s][TakenLen(s, w, b) + i]
<1> DEFINE B == BytesOf(s)
           bytes == Encodings[s]
           n == Len(bytes)
           a == ArrivedLen(s, w)
           t == TakenLen(s, w, b)
<1>1. s \in Scripts /\ bytes \in Seq(B) /\ n \in Nat
  BY EncodingsType DEF BytesAre
<1>2. t \in Nat /\ a \in Nat
  BY DEF BytesAre
<1>3. a = n - Len(w) /\ t = a - Len(b)
  BY DEF ArrivedLen, TakenLen
<1>4. w = SubSeq(bytes, a + 1, n) /\ b = SubSeq(bytes, t + 1, a)
  BY DEF BytesAre
<1> HIDE DEF B, bytes, a, t
<1>5. n \in 0..Len(bytes)
  BY <1>1
<1>6. w \in Seq(B) /\ \A i \in 1..Len(w) : w[i] = bytes[a + i]
  BY <1>1, <1>2, <1>4, <1>5, PartOf
<1>7. Len(w) \in Nat
  BY <1>6
<1> HIDE DEF n
<1>8. a \in 0..n
  BY <1>1, <1>2, <1>3, <1>7
<1>9. b \in Seq(B) /\ \A i \in 1..Len(b) : b[i] = bytes[t + i]
  BY <1>1, <1>2, <1>4, <1>8, PartOf DEF n
<1>10. Len(b) \in Nat
  BY <1>9
<1>11. t \in 0..a
  BY <1>2, <1>3, <1>10
<1> QED BY <1>1, <1>6, <1>7, <1>8, <1>9, <1>10, <1>11 DEF B, bytes, a, t, n

(* Parts of the bytes are what is left and the buffer.                     *)
LEMMA BytesAreParts ==
  ASSUME NEW s \in Scripts, NEW a \in 0..Len(Encodings[s]), NEW t \in 0..a,
         AfterEvent(Encodings[s], t)
  PROVE  \A w, b :
           /\ w = SubSeq(Encodings[s], a + 1, Len(Encodings[s]))
           /\ b = SubSeq(Encodings[s], t + 1, a)
           => BytesAre(s, w, b) /\ ArrivedLen(s, w) = a /\ TakenLen(s, w, b) = t
<1> SUFFICES ASSUME NEW w, NEW b,
                    w = SubSeq(Encodings[s], a + 1, Len(Encodings[s])),
                    b = SubSeq(Encodings[s], t + 1, a)
             PROVE  BytesAre(s, w, b) /\ ArrivedLen(s, w) = a /\ TakenLen(s, w, b) = t
  OBVIOUS
<1> DEFINE bytes == Encodings[s]
           n == Len(bytes)
<1>1. bytes \in Seq(BytesOf(s)) /\ n \in Nat
  BY EncodingsType
<1>2. a \in Nat /\ t \in Nat /\ a \in 0..n /\ n \in 0..n
  BY <1>1
<1> HIDE DEF bytes
<1>3. Len(w) = IF a < n THEN n - a ELSE 0
  BY <1>1, <1>2, PartOf DEF bytes
<1>4. Len(b) = IF t < a THEN a - t ELSE 0
  BY <1>1, <1>2, PartOf DEF bytes
<1> HIDE DEF n
<1>5. Len(w) = n - a /\ Len(b) = a - t
  BY <1>1, <1>2, <1>3, <1>4
<1>6. n - Len(w) = a /\ a - Len(b) = t
  BY <1>1, <1>2, <1>5
<1>7. ArrivedLen(s, w) = a
  BY <1>6 DEF ArrivedLen, n, bytes
<1>8. TakenLen(s, w, b) = t
  BY <1>6, <1>7 DEF TakenLen
<1> QED BY <1>2, <1>7, <1>8 DEF BytesAre

(* An answer begins.                                                       *)
LEMMA AnswerBytes ==
  ASSUME NEW s \in Scripts
  PROVE  /\ BytesAre(s, Encodings[s], <<>>)
         /\ ArrivedLen(s, Encodings[s]) = 0 /\ TakenLen(s, Encodings[s], <<>>) = 0
<1> DEFINE bytes == Encodings[s]
<1>1. bytes \in Seq(BytesOf(s)) /\ Len(bytes) \in Nat
  BY EncodingsType
<1>2. 0 \in 0..Len(bytes) /\ 0 \in 0..0
  BY <1>1
<1>3. bytes = SubSeq(bytes, 0 + 1, Len(bytes))
  BY <1>1, SubSeqFull
<1>4. <<>> = SubSeq(bytes, 0 + 1, 0)
  BY SubSeqEmpty
<1>5. AfterEvent(bytes, 0)
  BY DEF AfterEvent
<1>6. \A w, b :
        /\ w = SubSeq(bytes, 0 + 1, Len(bytes))
        /\ b = SubSeq(bytes, 0 + 1, 0)
        => BytesAre(s, w, b) /\ ArrivedLen(s, w) = 0 /\ TakenLen(s, w, b) = 0
  BY <1>2, <1>5, BytesAreParts, Zenon
<1> QED BY <1>3, <1>4, <1>6, Zenon

(* Bytes arrive.                                                           *)
LEMMA ArriveBytes ==
  ASSUME NEW s, NEW w, NEW b, BytesAre(s, w, b), NEW n \in 1..Len(w)
  PROVE  /\ BytesAre(s, SubSeq(w, n + 1, Len(w)), b \o SubSeq(w, 1, n))
         /\ TakenLen(s, SubSeq(w, n + 1, Len(w)), b \o SubSeq(w, 1, n)) = TakenLen(s, w, b)
<1> DEFINE bytes == Encodings[s]
           B == BytesOf(s)
           a == ArrivedLen(s, w)
           t == TakenLen(s, w, b)
           l == Len(bytes)
           m == Len(w)
           w2 == SubSeq(w, n + 1, m)
           x == SubSeq(w, 1, n)
           b2 == b \o x
<1>1. /\ s \in Scripts /\ w \in Seq(B) /\ b \in Seq(B) /\ m \in Nat
      /\ a \in 0..l /\ t \in 0..a /\ bytes \in Seq(B) /\ l \in Nat
  BY BytesFacts, EncodingsType
<1>2. a = l - m
  BY DEF ArrivedLen
<1>3. w = SubSeq(bytes, a + 1, l) /\ b = SubSeq(bytes, t + 1, a) /\ AfterEvent(bytes, t)
  BY DEF BytesAre
<1>4. \A i \in 1..m : w[i] = bytes[a + i]
  BY BytesFacts
<1> HIDE DEF B, a, t, m
<1>5. /\ n \in Nat /\ a \in Nat /\ a + n \in 0..l /\ n \in 0..m /\ m \in 0..m /\ 0 \in Nat
      /\ n \in 1..m /\ m = l - a /\ 0 + 1 = 1
  BY <1>1, <1>2 DEF m
<1> HIDE DEF bytes, l
<1>6. x = SubSeq(bytes, a + 1, a + n)
  <2> DEFINE y == SubSeq(bytes, a + 1, a + n)
  <2>1. /\ x \in Seq(B) /\ Len(x) = IF 0 < n THEN n - 0 ELSE 0
        /\ \A j \in 1..Len(x) : x[j] = w[0 + j]
    BY <1>1, <1>5, PartOf DEF m
  <2>2. /\ y \in Seq(B) /\ Len(y) = IF a < a + n THEN (a + n) - a ELSE 0
        /\ \A j \in 1..Len(y) : y[j] = bytes[a + j]
    BY <1>1, <1>5, PartOf DEF l
  <2> HIDE DEF x, y
  <2>3. Len(x) = n /\ Len(y) = n
    BY <1>5, <2>1, <2>2
  <2>4. ASSUME NEW j \in 1..Len(x) PROVE x[j] = y[j]
    <3>1. j \in 1..Len(y) /\ j \in 1..m /\ 0 + j = j
      BY <1>5, <2>3
    <3> QED BY <1>4, <2>1, <2>2, <3>1
  <2>5. x = y
    BY <2>1, <2>2, <2>3, <2>4, SeqEqual
  <2> QED BY <2>5 DEF y
<1>7. w2 = SubSeq(bytes, (a + n) + 1, l)
  <2> DEFINE y == SubSeq(bytes, (a + n) + 1, l)
  <2>1. /\ w2 \in Seq(B) /\ Len(w2) = IF n < m THEN m - n ELSE 0
        /\ \A j \in 1..Len(w2) : w2[j] = w[n + j]
    BY <1>1, <1>5, PartOf DEF m
  <2>2. a + n \in Nat /\ l \in 0..l
    BY <1>1, <1>5
  <2>3. /\ y \in Seq(B) /\ Len(y) = IF a + n < l THEN l - (a + n) ELSE 0
        /\ \A j \in 1..Len(y) : y[j] = bytes[(a + n) + j]
    BY <1>1, <2>2, PartOf DEF l
  <2> HIDE DEF w2, y
  <2>4. Len(w2) = m - n /\ Len(y) = m - n
    BY <1>1, <1>5, <2>1, <2>3
  <2>5. ASSUME NEW j \in 1..Len(w2) PROVE w2[j] = y[j]
    <3>1. j \in 1..Len(y) /\ n + j \in 1..m /\ a + (n + j) = (a + n) + j
      BY <1>1, <1>5, <2>4
    <3>2. w[n + j] = bytes[(a + n) + j]
      BY <1>4, <3>1
    <3> QED BY <2>1, <2>3, <3>1, <3>2
  <2>6. w2 = y
    BY <2>1, <2>3, <2>4, <2>5, SeqEqual
  <2> QED BY <2>6 DEF y
<1>8. b2 = SubSeq(bytes, t + 1, a + n)
  <2>1. /\ t + 1 \in 1..(l + 1) /\ a \in ((t + 1) - 1)..l /\ a + n \in a..l
    BY <1>1, <1>5
  <2>2. SubSeq(bytes, t + 1, a) \o SubSeq(bytes, a + 1, a + n) = SubSeq(bytes, t + 1, a + n)
    BY <1>1, <2>1, ConcatAdjacentSubSeq DEF l
  <2> QED BY <1>3, <1>6, <2>2
<1> HIDE DEF w2, x, b2
<1>9. t \in 0..(a + n)
  BY <1>1, <1>5
<1>10. BytesAre(s, w2, b2) /\ TakenLen(s, w2, b2) = t
  <2> DEFINE e == a + n
  <2>1. s \in Scripts /\ e \in 0..Len(Encodings[s]) /\ t \in 0..e /\ AfterEvent(Encodings[s], t)
    BY <1>1, <1>3, <1>5, <1>9 DEF bytes, l
  <2>2. w2 = SubSeq(Encodings[s], e + 1, Len(Encodings[s])) /\ b2 = SubSeq(Encodings[s], t + 1, e)
    BY <1>7, <1>8 DEF bytes, l
  <2> HIDE DEF e
  <2>3. \A w3, b3 :
          /\ w3 = SubSeq(Encodings[s], e + 1, Len(Encodings[s]))
          /\ b3 = SubSeq(Encodings[s], t + 1, e)
          => BytesAre(s, w3, b3) /\ ArrivedLen(s, w3) = e /\ TakenLen(s, w3, b3) = t
    BY <2>1, BytesAreParts, Zenon
  <2> QED BY <2>2, <2>3, Zenon
<1> QED BY <1>10 DEF w2, b2, x, t, m

(* An event is taken out of the buffer.                                    *)
LEMMA BoundaryIn ==
  ASSUME NEW X, NEW b \in Seq(X), Boundaries(b) # {}
  PROVE  Boundary(b) \in Boundaries(b)
<1> DEFINE T == {p[1] : p \in Boundaries(b)}
<1>1. \A p \in Boundaries(b) : p[1] \in Nat
  BY DEF Boundaries
<1>2. T \in SUBSET Nat /\ T # {}
  BY <1>1
<1> HIDE DEF T
<1>3. PICK m \in T : \A y \in T : m <= y
  BY <1>2, MinIn
<1>4. PICK p \in Boundaries(b) : m = p[1]
  BY DEF T
<1>5. \A other \in Boundaries(b) : other[1] \in T
  BY DEF T
<1>6. \A other \in Boundaries(b) : p[1] <= other[1]
  BY <1>3, <1>4, <1>5
<1> QED BY <1>6 DEF Boundary

LEMMA BoundaryFacts ==
  ASSUME NEW X, NEW b \in Seq(X), NEW p \in Boundaries(b)
  PROVE  /\ p[1] \in 1..Len(b) /\ p[2] \in {2, 4} /\ p[1] + p[2] - 1 <= Len(b)
         /\ \A k \in p[1]..(p[1] + p[2] - 1) : b[k].piece \notin {"middle", "end"}
         /\ SubSeq(b, p[1], p[1] + p[2] - 1) \in Delimiters
<1> DEFINE i == p[1]
           d == p[2]
<1>1. i \in 1..Len(b) /\ d \in {2, 4} /\ i + d - 1 <= Len(b) /\ SubSeq(b, i, i + d - 1) \in Delimiters
  BY DEF Boundaries
<1> HIDE DEF i, d
<1>2. \A k \in i..(i + d - 1) : b[k].piece \notin {"middle", "end"}
  BY <1>1, InDelimiter
<1> QED BY <1>1, <1>2 DEF i, d

LEMMA TakeBytes ==
  ASSUME NEW s, NEW w, NEW b, BytesAre(s, w, b), NEW p \in Boundaries(b)
  PROVE  /\ BytesAre(s, w, SubSeq(b, p[1] + p[2], Len(b)))
         /\ Payloads(SubSeq(Encodings[s], 1, TakenLen(s, w, SubSeq(b, p[1] + p[2], Len(b))))) =
              Payloads(SubSeq(Encodings[s], 1, TakenLen(s, w, b))) \o Payloads(SubSeq(b, 1, p[1] - 1))
<1> DEFINE bytes == Encodings[s]
           B == BytesOf(s)
           a == ArrivedLen(s, w)
           t == TakenLen(s, w, b)
           l == Len(bytes)
           n == Len(b)
           i == p[1]
           d == p[2]
           ev == SubSeq(b, 1, i - 1)
           rest == SubSeq(b, i + d, n)
           t2 == t + i + d - 1
<1>1. /\ s \in Scripts /\ b \in Seq(B) /\ n \in Nat
      /\ a \in 0..l /\ t \in 0..a /\ bytes \in Seq(B) /\ l \in Nat
      /\ WholeLines(bytes)
  BY BytesFacts, EncodingsType
<1>2. t = a - n
  BY DEF TakenLen
<1>3. w = SubSeq(bytes, a + 1, l) /\ b = SubSeq(bytes, t + 1, a) /\ AfterEvent(bytes, t)
  BY DEF BytesAre
<1>4. \A k \in 1..n : b[k] = bytes[t + k]
  BY BytesFacts
<1> HIDE DEF B, a, t, bytes
<1>5. /\ i \in 1..n /\ d \in {2, 4} /\ i + d - 1 <= n
      /\ \A k \in i..(i + d - 1) : b[k].piece \notin {"middle", "end"}
      /\ SubSeq(b, i, i + d - 1) \in Delimiters
  BY <1>1, BoundaryFacts
<1> HIDE DEF i, d, l, n
<1>6. /\ t \in Nat /\ a \in Nat /\ n = a - t /\ t2 \in t..a /\ t2 \in Nat /\ t2 >= 1
      /\ t2 - d + 1 = t + i /\ d <= t2 /\ t2 \in 0..a
  BY <1>1, <1>2, <1>5
<1>7. ASSUME NEW j \in 1..n, NEW k \in (j - 1)..n
      PROVE  SubSeq(b, j, k) = SubSeq(bytes, t + j, t + k)
  <2> DEFINE x == SubSeq(b, j, k)
             y == SubSeq(bytes, t + j, t + k)
             e == t + j
             f == t + k
  <2>1. /\ x \in Seq(B) /\ Len(x) = k - j + 1 /\ \A q \in 1..(k - j + 1) : x[q] = b[j + q - 1]
    <3>1. j \in 1..(n + 1) /\ k \in (j - 1)..n
      BY <1>1
    <3> QED BY <1>1, <3>1, PartType DEF n
  <2>2. /\ e \in 1..(l + 1) /\ f \in (e - 1)..l /\ f - e + 1 = k - j + 1
    BY <1>1, <1>6
  <2> HIDE DEF e, f
  <2>3. /\ SubSeq(bytes, e, f) \in Seq(B) /\ Len(SubSeq(bytes, e, f)) = f - e + 1
        /\ \A q \in 1..(f - e + 1) : SubSeq(bytes, e, f)[q] = bytes[e + q - 1]
    BY <1>1, <2>2, PartType DEF l
  <2>4. y = SubSeq(bytes, e, f)
    BY DEF e, f
  <2> HIDE DEF x, y
  <2>5. Len(x) = Len(y) /\ Len(x) = k - j + 1 /\ y \in Seq(B)
    BY <2>1, <2>2, <2>3, <2>4
  <2>6. ASSUME NEW q \in 1..Len(x) PROVE x[q] = y[q]
    <3>1. /\ q \in 1..(k - j + 1) /\ q \in 1..(f - e + 1) /\ j + q - 1 \in 1..n
          /\ t + (j + q - 1) = e + q - 1
      BY <1>1, <1>6, <2>2, <2>5 DEF e
    <3>2. x[q] = b[j + q - 1] /\ y[q] = bytes[e + q - 1]
      BY <2>1, <2>3, <2>4, <3>1
    <3>3. b[j + q - 1] = bytes[e + q - 1]
      BY <1>4, <3>1
    <3> QED BY <3>2, <3>3
  <2>7. x = y
    BY <2>1, <2>5, <2>6, SeqEqual
  <2> QED BY <2>7 DEF x, y
<1>8. AfterEvent(bytes, t2)
  <2>1. i + d - 1 \in (i - 1)..n /\ t + (i + d - 1) = t2
    BY <1>1, <1>5, <1>6
  <2>2. SubSeq(b, i, i + d - 1) = SubSeq(bytes, t + i, t + (i + d - 1))
    BY <1>5, <1>7, <2>1
  <2>3. SubSeq(bytes, t2 - d + 1, t2) \in Delimiters
    BY <1>5, <1>6, <2>1, <2>2
  <2> QED BY <1>5, <1>6, <2>3 DEF AfterEvent
<1>9. rest = SubSeq(bytes, t2 + 1, a)
  <2>1. CASE i + d - 1 = n
    <3>1. rest = <<>>
      <4>1. i + d \in Int /\ n \in Int /\ n < i + d
        BY <1>1, <1>5, <2>1
      <4> QED BY <4>1, SubSeqEmpty
    <3>2. SubSeq(bytes, t2 + 1, a) = <<>>
      <4>1. t2 + 1 \in Int /\ a \in Int /\ a < t2 + 1
        BY <1>1, <1>5, <1>6, <2>1
      <4> QED BY <4>1, SubSeqEmpty
    <3> QED BY <3>1, <3>2
  <2>2. CASE i + d - 1 # n
    <3>1. i + d \in 1..n /\ n \in ((i + d) - 1)..n /\ t + (i + d) = t2 + 1 /\ t + n = a
      BY <1>1, <1>5, <1>6, <2>2
    <3>2. SubSeq(b, i + d, n) = SubSeq(bytes, t + (i + d), t + n)
      BY <1>7, <3>1
    <3> QED BY <3>1, <3>2
  <2> QED BY <2>1, <2>2
<1>10. BytesAre(s, w, rest) /\ TakenLen(s, w, rest) = t2
  <2>1. \A w3, b3 :
          /\ w3 = SubSeq(Encodings[s], a + 1, Len(Encodings[s]))
          /\ b3 = SubSeq(Encodings[s], t2 + 1, a)
          => BytesAre(s, w3, b3) /\ ArrivedLen(s, w3) = a /\ TakenLen(s, w3, b3) = t2
    <3>1. s \in Scripts /\ a \in 0..Len(Encodings[s]) /\ t2 \in 0..a /\ AfterEvent(Encodings[s], t2)
      BY <1>1, <1>6, <1>8 DEF bytes, l
    <3> HIDE DEF t2
    <3> QED BY <3>1, BytesAreParts, Zenon
  <2>2. w = SubSeq(Encodings[s], a + 1, Len(Encodings[s])) /\ rest = SubSeq(Encodings[s], t2 + 1, a)
    BY <1>3, <1>9 DEF bytes, l
  <2> HIDE DEF rest, t2
  <2> QED BY <2>1, <2>2, Zenon
<1>11. bytes[t + i].piece \notin {"middle", "end"}
  BY <1>4, <1>5
<1>12. ev = SubSeq(bytes, t + 1, t + i - 1)
  <2>1. 1 \in 1..n /\ i - 1 \in (1 - 1)..n /\ t + (i - 1) = t + i - 1
    BY <1>1, <1>5, <1>6
  <2>2. SubSeq(b, 1, i - 1) = SubSeq(bytes, t + 1, t + (i - 1))
    BY <1>7, <2>1
  <2> QED BY <2>1, <2>2
<1> DEFINE first == Payloads(SubSeq(bytes, 1, t))
           mid == Payloads(SubSeq(bytes, t + 1, t + i - 1))
           last == Payloads(SubSeq(bytes, t + i, t2))
<1>13. Payloads(SubSeq(bytes, 1, t2)) = first \o Payloads(SubSeq(bytes, t + 1, t2))
  <2>1. t = 1 - 1 \/ bytes[t].piece # "middle"
    <3>1. CASE t = 0
      BY <3>1
    <3>2. CASE t # 0
      <4>1. t \in 1..l
        BY <1>1, <1>6, <3>2
      <4> QED BY <1>1, <1>3, <4>1, AfterEventByte DEF l
    <3> QED BY <3>1, <3>2
  <2>2. 1 \in 1..(l + 1) /\ t \in (1 - 1)..l /\ t2 \in t..l
    BY <1>1, <1>6
  <2> HIDE DEF t2
  <2> QED BY <1>1, <2>1, <2>2, RangeSplit DEF B, l
<1>14. Payloads(SubSeq(bytes, t + 1, t2)) = mid \o last
  <2> DEFINE e == t + 1
             j == t + i - 1
  <2>1. e \in 1..(l + 1) /\ j \in (e - 1)..l /\ t2 \in j..l /\ j + 1 = t + i
    BY <1>1, <1>5, <1>6
  <2>2. j = e - 1 \/ bytes[j].piece # "middle"
    <3>1. CASE j = t
      BY <1>6, <3>1
    <3>2. CASE j # t
      <4>1. j \in 1..l /\ j + 1 = t + i
        BY <1>1, <1>5, <1>6, <3>2
      <4>2. bytes[j].piece = "middle" => bytes[j + 1].piece = "end"
        BY <1>1, <4>1 DEF WholeLines, l
      <4> QED BY <1>11, <4>1, <4>2
    <3> QED BY <3>1, <3>2
  <2> HIDE DEF t2, e, j
  <2>3. Payloads(SubSeq(bytes, e, t2)) = Payloads(SubSeq(bytes, e, j)) \o Payloads(SubSeq(bytes, j + 1, t2))
    BY <1>1, <2>1, <2>2, RangeSplit DEF B, l
  <2> QED BY <2>1, <2>3 DEF e, j
<1>15. last = <<>>
  <2> DEFINE y == SubSeq(bytes, t + i, t2)
             e == t + i
  <2>1. e \in 1..(l + 1) /\ t2 \in (e - 1)..l /\ t2 - e + 1 = d
    BY <1>1, <1>5, <1>6
  <2>2. y \in Seq(B) /\ Len(y) = t2 - e + 1 /\ \A k \in 1..(t2 - e + 1) : y[k] = bytes[e + k - 1]
    <3> HIDE DEF t2, e
    <3>1. /\ SubSeq(bytes, e, t2) \in Seq(B) /\ Len(SubSeq(bytes, e, t2)) = t2 - e + 1
          /\ \A k \in 1..(t2 - e + 1) : SubSeq(bytes, e, t2)[k] = bytes[e + k - 1]
      BY <1>1, <2>1, PartType DEF l
    <3> QED BY <3>1 DEF e
  <2> HIDE DEF y
  <2>3. ASSUME NEW k \in DOMAIN y PROVE y[k].piece # "middle"
    <3>0. k \in 1..d /\ k \in 1..(t2 - e + 1)
      <4> HIDE DEF t2, e
      <4> QED BY <2>1, <2>2
    <3>1. /\ i + k - 1 \in i..(i + d - 1)
          /\ i + k - 1 \in 1..n /\ t + (i + k - 1) = e + k - 1
      BY <1>1, <1>5, <1>6, <3>0
    <3>2. y[k] = bytes[e + k - 1] /\ b[i + k - 1] = bytes[e + k - 1]
      BY <1>4, <2>2, <3>0, <3>1
    <3> QED BY <1>5, <3>1, <3>2
  <2>4. Payloads(y) = <<>>
    BY <1>1, <2>2, <2>3, PayloadsNothing DEF B
  <2> QED BY <2>4 DEF y
<1>16. mid \in Seq(PayloadsOf(s))
  <2> DEFINE y == SubSeq(bytes, t + 1, t + i - 1)
             e == t + 1
             j == t + i - 1
  <2>1. e \in 1..(l + 1) /\ j \in (e - 1)..l
    BY <1>1, <1>5, <1>6
  <2>2. y \in Seq(B)
    <3> HIDE DEF e, j
    <3>1. SubSeq(bytes, e, j) \in Seq(B)
      BY <1>1, <2>1, PartType DEF l
    <3> QED BY <3>1 DEF e, j
  <2> HIDE DEF y
  <2>3. Payloads(y) \in Seq(PayloadsOf(s))
    BY <1>1, <2>2, PayloadsType DEF B
  <2> QED BY <2>3 DEF y
<1> HIDE DEF first, mid, last
<1>17. Payloads(SubSeq(bytes, 1, t2)) = first \o mid
  <2>1. mid \o <<>> = mid
    BY <1>16, ConcatEmptySeq
  <2> QED BY <1>13, <1>14, <1>15, <2>1
<1> HIDE DEF t2, ev, rest
<1>18. Payloads(ev) = mid
  BY <1>12 DEF mid
<1>19. Payloads(SubSeq(bytes, 1, TakenLen(s, w, rest))) = first \o Payloads(ev)
  BY <1>10, <1>17, <1>18, Zenon
<1> QED BY <1>10, <1>19, Zenon DEF first, rest, ev, bytes, t, i, d, n

---------------------------------------------------------------------------
(* LinesInv of what the events say, the lines to come and what was heard.  *)
Done(said, ls) == SubSeq(said, 1, Len(said) - Len(ls))

LinesAre(said, ls, hs) ==
  /\ Len(ls) \in 0..Len(said)
  /\ ls = SubSeq(said, Len(Done(said, ls)) + 1, Len(said))
  /\ hs = Chunks(Done(said, ls))
  /\ \A k \in DOMAIN Done(said, ls) :
       Done(said, ls)[k].kind # "done" /\ ~Unreadable(Done(said, ls)[k])

LEMMA LinesFacts ==
  ASSUME NEW P, NEW said \in Seq(P), NEW ls, NEW hs, LinesAre(said, ls, hs)
  PROVE  /\ ls \in Seq(P) /\ Done(said, ls) \in Seq(P)
         /\ Len(Done(said, ls)) = Len(said) - Len(ls)
         /\ said = Done(said, ls) \o ls
         /\ \A k \in 1..Len(Done(said, ls)) : said[k] = Done(said, ls)[k]
         /\ \A k \in 1..Len(ls) : said[Len(Done(said, ls)) + k] = ls[k]
<1> DEFINE n == Len(said)
           l == Len(ls)
           m == n - l
           done == Done(said, ls)
<1>1. n \in Nat /\ l \in 0..n /\ m \in 0..n /\ n \in 0..n /\ 0 \in Nat /\ m \in Nat
  BY DEF LinesAre
<1>2. ls = SubSeq(said, Len(done) + 1, n)
  BY DEF LinesAre
<1>3. done = SubSeq(said, 0 + 1, m)
  BY DEF Done
<1> HIDE DEF n, l, m, done
<1>4. /\ done \in Seq(P) /\ Len(done) = IF 0 < m THEN m - 0 ELSE 0
      /\ \A j \in 1..Len(done) : done[j] = said[0 + j]
  BY <1>1, <1>3, PartOf DEF n
<1>5. Len(done) = m
  BY <1>1, <1>4
<1>6. \A j \in 1..Len(done) : done[j] = said[j]
  <2>1. \A j \in 1..Len(done) : 0 + j = j
    BY <1>1, <1>5
  <2> QED BY <1>4, <2>1
<1>7. ls \in Seq(P) /\ \A j \in 1..Len(ls) : ls[j] = said[m + j]
  BY <1>1, <1>2, <1>5, PartOf DEF n
<1>8. said = done \o ls
  <2>1. Len(said) = Len(done) + Len(ls)
    BY <1>1, <1>5 DEF n, m, l
  <2>2. \A i \in 1..Len(done) : said[i] = done[i]
    BY <1>6
  <2>3. \A i \in 1..Len(ls) : said[Len(done) + i] = ls[i]
    BY <1>5, <1>7
  <2>4. \A a, b, c \in Seq(P) :
           /\ Len(c) = Len(a) + Len(b)
           /\ \A i \in 1..Len(a) : c[i] = a[i]
           /\ \A i \in 1..Len(b) : c[Len(a) + i] = b[i]
           => c = a \o b
    BY ConcatIs, Zenon
  <2> QED BY <1>4, <1>7, <2>1, <2>2, <2>3, <2>4, Zenon
<1> QED BY <1>4, <1>5, <1>6, <1>7, <1>8 DEF done, m, n, l

LEMMA LinesNothing ==
  LinesAre(<<>>, <<>>, <<>>)
<1>1. Done(<<>>, <<>>) = <<>>
  <2>1. Len(<<>>) - Len(<<>>) \in Int /\ Len(<<>>) - Len(<<>>) < 1 /\ 1 \in Int
    OBVIOUS
  <2> QED BY <2>1, SubSeqEmpty DEF Done
<1>2. SubSeq(<<>>, Len(<<>>) + 1, Len(<<>>)) = <<>>
  <2>1. Len(<<>>) \in Int /\ Len(<<>>) < Len(<<>>) + 1 /\ Len(<<>>) + 1 \in Int
    OBVIOUS
  <2> QED BY <2>1, SubSeqEmpty
<1>3. Chunks(<<>>) = <<>>
  BY DEF Chunks, FlattenSeq
<1>4. Len(<<>>) \in 0..Len(<<>>)
  OBVIOUS
<1>5. \A k \in DOMAIN <<>> : FALSE
  OBVIOUS
<1> QED BY <1>1, <1>2, <1>3, <1>4, <1>5, Zenon DEF LinesAre

(* Every line of the events is processed, and another event has some.      *)
LEMMA LinesNew ==
  ASSUME NEW P, NEW said \in Seq(P), NEW new \in Seq(P), NEW hs, LinesAre(said, <<>>, hs)
  PROVE  LinesAre(said \o new, new, hs)
<1> DEFINE all == said \o new
           n == Len(said)
           l == Len(new)
<1>1. n \in Nat /\ l \in Nat /\ all \in Seq(P) /\ Len(all) = n + l
  BY ConcatProperties
<1>2. Done(said, <<>>) = said
  <2>1. n - Len(<<>>) = n
    BY <1>1
  <2>2. SubSeq(said, 1, n) = said
    BY SubSeqFull
  <2> QED BY <2>1, <2>2 DEF Done
<1>3. Done(all, new) = said
  <2>1. Len(all) - Len(new) = n
    BY <1>1
  <2>2. SubSeq(all, 1, n) = said
    <3> DEFINE x == SubSeq(all, 1, n)
    <3>1. 1 \in 1..(Len(all) + 1) /\ n \in (1 - 1)..Len(all) /\ n - 1 + 1 = n
      BY <1>1
    <3> HIDE DEF n
    <3>2. x \in Seq(P) /\ Len(x) = n - 1 + 1 /\ \A j \in 1..(n - 1 + 1) : x[j] = all[1 + j - 1]
      BY <1>1, <3>1, PartType
    <3> HIDE DEF x
    <3>3. ASSUME NEW j \in 1..Len(x) PROVE x[j] = said[j]
      <4>1. j \in 1..(n - 1 + 1) /\ 1 + j - 1 = j /\ j \in 1..n
        BY <1>1, <3>1, <3>2
      <4>2. all[j] = said[j]
        BY <4>1 DEF n
      <4> QED BY <3>2, <4>1, <4>2
    <3>4. Len(x) = Len(said)
      BY <3>1, <3>2 DEF n
    <3>5. x = said
      BY <3>2, <3>3, <3>4, SeqEqual
    <3> QED BY <3>5 DEF x
  <2> QED BY <2>1, <2>2 DEF Done
<1>4. new = SubSeq(all, n + 1, Len(all))
  <2> DEFINE x == SubSeq(all, n + 1, n + l)
  <2>1. n + l \in 0..Len(all) /\ n \in Nat
    BY <1>1
  <2> HIDE DEF n
  <2>2. /\ x \in Seq(P) /\ Len(x) = IF n < n + l THEN (n + l) - n ELSE 0
        /\ \A j \in 1..Len(x) : x[j] = all[n + j]
    BY <1>1, <2>1, PartOf
  <2> HIDE DEF x
  <2>3. Len(x) = l
    BY <1>1, <2>2
  <2>4. ASSUME NEW j \in 1..Len(x) PROVE x[j] = new[j]
    <3>1. j \in 1..l
      BY <2>3
    <3>2. all[n + j] = new[j]
      BY <3>1 DEF n
    <3> QED BY <2>2, <3>2
  <2>5. x = new
    BY <2>2, <2>3, <2>4, SeqEqual
  <2> QED BY <1>1, <2>5 DEF x
<1>5. Len(new) \in 0..Len(all)
  BY <1>1
<1> HIDE DEF all
<1> QED BY <1>2, <1>3, <1>4, <1>5, Zenon DEF LinesAre, all

LEMMA AppendIs ==
  ASSUME NEW P
  PROVE  \A q \in Seq(P), x \in P :
           /\ Append(q, x) \in Seq(P) /\ Len(Append(q, x)) = Len(q) + 1
           /\ Append(q, x)[Len(q) + 1] = x
           /\ \A k \in 1..Len(q) : Append(q, x)[k] = q[k]
OBVIOUS

LEMMA LinesNext ==
  ASSUME NEW s \in Scripts, NEW said \in Seq(PayloadsOf(s)), NEW ls, NEW hs,
         LinesAre(said, ls, hs), ls # <<>>,
         Head(ls).kind # "done", ~Unreadable(Head(ls))
  PROVE  /\ Head(ls) \in PayloadsOf(s) /\ hs \in Seq(ChunksOf(s))
         /\ LinesAre(said, Tail(ls),
              IF ParseOutcome(Head(ls)) = "data" THEN Append(hs, StreamChunk(Head(ls))) ELSE hs)
<1> DEFINE P == PayloadsOf(s)
           done == Done(said, ls)
           p == Head(ls)
           n == Len(said)
           m == Len(done)
           ds == Append(done, p)
           tl == Tail(ls)
<1>1. said \in Seq(P) /\ n \in Nat /\ Len(ls) \in 0..n
  BY DEF LinesAre
<1>2. /\ ls \in Seq(P) /\ done \in Seq(P) /\ m = n - Len(ls)
      /\ \A k \in 1..m : said[k] = done[k]
      /\ \A k \in 1..Len(ls) : said[m + k] = ls[k]
  BY LinesFacts
<1>3. hs = Chunks(done) /\ ls = SubSeq(said, m + 1, n)
  BY DEF LinesAre
<1>4. hs \in Seq(ChunksOf(s))
  BY <1>2, <1>3, ChunksType
<1>5. \A k \in DOMAIN done : done[k].kind # "done" /\ ~Unreadable(done[k])
  BY DEF LinesAre
<1> HIDE DEF P, done
<1>6. m \in Nat /\ Len(ls) \in Nat /\ DOMAIN done = 1..m
  BY <1>2
<1>7. /\ p \in P /\ tl \in Seq(P) /\ Len(tl) = Len(ls) - 1 /\ Len(ls) >= 1
      /\ \A k \in 1..Len(tl) : tl[k] = ls[k + 1]
      /\ p = ls[1]
  <2>1. p \in P /\ tl \in Seq(P) /\ Len(tl) = Len(ls) - 1 /\ \A k \in 1..Len(tl) : tl[k] = ls[k + 1]
    BY <1>2, HeadTailProperties
  <2>2. Len(ls) # 0
    BY <1>2, <1>6
  <2> QED BY <1>2, <1>6, <2>1, <2>2
<1> HIDE DEF p, tl
<1>8. /\ ds \in Seq(P) /\ Len(ds) = m + 1 /\ ds[m + 1] = p /\ \A k \in 1..m : ds[k] = done[k]
  <2>1. done \in Seq(P) /\ p \in P
    BY <1>2, <1>7
  <2>2. \A q \in Seq(P), x \in P :
          /\ Append(q, x) \in Seq(P) /\ Len(Append(q, x)) = Len(q) + 1
          /\ Append(q, x)[Len(q) + 1] = x
          /\ \A k \in 1..Len(q) : Append(q, x)[k] = q[k]
    BY AppendIs, ZenonT(30)
  <2> QED BY <2>1, <2>2, Zenon
<1> HIDE DEF ds
<1>9. Done(said, tl) = ds
  <2> DEFINE x == SubSeq(said, 1, m + 1)
  <2>1. n - Len(tl) = m + 1
    BY <1>1, <1>2, <1>6, <1>7
  <2>2. 1 \in 1..(n + 1) /\ m + 1 \in (1 - 1)..n /\ (m + 1) - 1 + 1 = m + 1
    BY <1>1, <1>2, <1>6, <1>7
  <2>3. x \in Seq(P) /\ Len(x) = m + 1 /\ \A j \in 1..(m + 1) : x[j] = said[j]
    <3> DEFINE e == m + 1
    <3> HIDE DEF e, m
    <3>1. /\ SubSeq(said, 1, e) \in Seq(P) /\ Len(SubSeq(said, 1, e)) = e - 1 + 1
          /\ \A j \in 1..(e - 1 + 1) : SubSeq(said, 1, e)[j] = said[1 + j - 1]
      BY <1>1, <2>2, PartType DEF e
    <3>2. e - 1 + 1 = e /\ \A j \in 1..e : 1 + j - 1 = j
      BY <1>6 DEF e
    <3>3. ASSUME NEW j \in 1..e PROVE SubSeq(said, 1, e)[j] = said[j]
      <4>1. j \in 1..(e - 1 + 1) /\ 1 + j - 1 = j
        BY <3>2
      <4> QED BY <3>1, <4>1
    <3> QED BY <3>1, <3>2, <3>3 DEF e
  <2> HIDE DEF x, m
  <2>4. ASSUME NEW j \in 1..Len(x) PROVE x[j] = ds[j]
    <3>1. CASE j \in 1..m
      <4>1. j \in 1..(m + 1)
        BY <1>6, <3>1
      <4> QED BY <1>2, <1>8, <2>3, <3>1, <4>1
    <3>2. CASE j = m + 1
      <4>1. 1 \in 1..Len(ls) /\ j \in 1..(m + 1)
        BY <1>6, <1>7, <3>2
      <4>2. said[m + 1] = ls[1]
        BY <1>2, <4>1
      <4> QED BY <1>7, <1>8, <2>3, <3>2, <4>1, <4>2
    <3> QED BY <1>6, <2>3, <3>1, <3>2
  <2>5. Len(x) = Len(ds)
    BY <1>8, <2>3
  <2>6. x = ds
    BY <1>8, <2>3, <2>4, <2>5, SeqEqual
  <2> QED BY <2>1, <2>6 DEF Done, x
<1>10. tl = SubSeq(said, (m + 1) + 1, n)
  <2> DEFINE x == SubSeq(said, (m + 1) + 1, n)
  <2>1. n \in 0..n /\ m + 1 \in Nat
    BY <1>1, <1>6
  <2>2. /\ x \in Seq(P) /\ Len(x) = IF m + 1 < n THEN n - (m + 1) ELSE 0
        /\ \A j \in 1..Len(x) : x[j] = said[(m + 1) + j]
    <3> DEFINE e == m + 1
    <3> HIDE DEF e
    <3>1. /\ SubSeq(said, e + 1, n) \in Seq(P) /\ Len(SubSeq(said, e + 1, n)) = IF e < n THEN n - e ELSE 0
          /\ \A j \in 1..Len(SubSeq(said, e + 1, n)) : SubSeq(said, e + 1, n)[j] = said[e + j]
      BY <1>1, <2>1, PartOf DEF e
    <3> QED BY <3>1 DEF e
  <2> HIDE DEF x, m
  <2>3. Len(x) = Len(tl)
    BY <1>1, <1>2, <1>6, <1>7, <2>2
  <2>4. ASSUME NEW j \in 1..Len(x) PROVE x[j] = tl[j]
    <3>1. j \in 1..Len(tl) /\ j + 1 \in 1..Len(ls) /\ (m + 1) + j = m + (j + 1)
      BY <1>6, <1>7, <2>3
    <3>2. said[m + (j + 1)] = ls[j + 1]
      BY <1>2, <3>1
    <3> QED BY <1>7, <2>2, <3>1, <3>2
  <2>5. x = tl
    BY <1>7, <2>2, <2>3, <2>4, SeqEqual
  <2> QED BY <2>5 DEF x
<1>11. Chunks(ds) = IF ParseOutcome(p) = "data" THEN Append(hs, StreamChunk(p)) ELSE hs
  BY <1>2, <1>3, <1>7, ChunksAppend DEF P, ds
<1>12. ASSUME NEW k \in DOMAIN ds PROVE ds[k].kind # "done" /\ ~Unreadable(ds[k])
  <2>1. DOMAIN ds = 1..(m + 1)
    BY <1>6, <1>8
  <2>2. CASE k \in 1..m
    BY <1>5, <1>6, <1>8, <2>2
  <2>3. CASE k = m + 1
    BY <1>8, <2>3 DEF p
  <2> QED BY <1>6, <2>1, <2>2, <2>3
<1>13. Len(tl) \in 0..n
  BY <1>1, <1>7
<1> DEFINE hs2 == IF ParseOutcome(p) = "data" THEN Append(hs, StreamChunk(p)) ELSE hs
<1> HIDE DEF hs2
<1>14. LinesAre(said, tl, hs2)
  <2>1. hs2 = Chunks(ds)
    BY <1>11 DEF hs2
  <2> QED BY <1>8, <1>9, <1>10, <1>12, <1>13, <2>1, Zenon DEF LinesAre
<1> QED BY <1>4, <1>7, <1>14 DEF hs2, p, tl, P

---------------------------------------------------------------------------
(* The invariant, of the state and of the next one.                        *)
EventsIn(s, w, b, c) ==
  SubSeq(Encodings[s], 1, IF c THEN ArrivedLen(s, w) ELSE TakenLen(s, w, b))

AssemblerIs(a, hs) ==
  /\ a = [WholeReply(hs) EXCEPT !.tool_calls = a.tool_calls]
  /\ \A i \in 0..(MAX_PARALLEL_TOOL_CALLS - 1) :
       Slot(a.tool_calls, i) = WholeCall(Fragments(hs, i))

LEMMA EventBytesAre ==
  ASSUME NEW s, NEW w, NEW b, NEW c, BytesAre(s, w, b)
  PROVE  LET arrived == SubSeq(Encodings[s], 1, Len(Encodings[s]) - Len(w))
         IN  SubSeq(arrived, 1, Len(arrived) - (IF c THEN 0 ELSE Len(b))) = EventsIn(s, w, b, c)
<1> DEFINE bytes == Encodings[s]
           B == BytesOf(s)
           a == ArrivedLen(s, w)
           t == TakenLen(s, w, b)
           arrived == SubSeq(bytes, 1, a)
           e == IF c THEN a ELSE t
           x == SubSeq(arrived, 1, e)
           y == SubSeq(bytes, 1, e)
<1>1. /\ bytes \in Seq(B) /\ a \in 0..Len(bytes) /\ t \in 0..a /\ Len(b) \in Nat
  BY BytesFacts, EncodingsType
<1>2. a = Len(bytes) - Len(w) /\ t = a - Len(b)
  BY DEF ArrivedLen, TakenLen
<1> HIDE DEF a, t, B, bytes
<1>3. e \in 0..a /\ Len(bytes) \in Nat
  BY <1>1
<1>4. a - (IF c THEN 0 ELSE Len(b)) = e
  BY <1>1, <1>2
<1> HIDE DEF e
<1>5. arrived \in Seq(B) /\ Len(arrived) = a /\ \A j \in 1..a : arrived[j] = bytes[j]
  <2>1. 1 \in 1..(Len(bytes) + 1) /\ a \in (1 - 1)..Len(bytes) /\ a - 1 + 1 = a
    BY <1>1, <1>3
  <2>2. /\ arrived \in Seq(B) /\ Len(arrived) = a - 1 + 1
        /\ \A j \in 1..(a - 1 + 1) : arrived[j] = bytes[1 + j - 1]
    BY <1>1, <2>1, PartType
  <2> HIDE DEF arrived
  <2>3. ASSUME NEW j \in 1..a PROVE arrived[j] = bytes[j]
    <3>1. j \in 1..(a - 1 + 1) /\ 1 + j - 1 = j
      BY <2>1
    <3> QED BY <2>2, <3>1
  <2> QED BY <2>1, <2>2, <2>3
<1> HIDE DEF arrived
<1>6. x = y
  <2>0. /\ 1 \in 1..(Len(bytes) + 1) /\ e \in (1 - 1)..Len(bytes)
        /\ 1 \in 1..(Len(arrived) + 1) /\ e \in (1 - 1)..Len(arrived)
    BY <1>1, <1>3, <1>5
  <2>1. /\ x \in Seq(B) /\ Len(x) = e - 1 + 1 /\ \A j \in 1..(e - 1 + 1) : x[j] = arrived[1 + j - 1]
    BY <1>5, <2>0, PartType
  <2>2. /\ y \in Seq(B) /\ Len(y) = e - 1 + 1 /\ \A j \in 1..(e - 1 + 1) : y[j] = bytes[1 + j - 1]
    BY <1>1, <2>0, PartType
  <2> HIDE DEF x, y
  <2>3. ASSUME NEW j \in 1..Len(x) PROVE x[j] = y[j]
    <3>1. j \in 1..(e - 1 + 1) /\ 1 + j - 1 = j /\ j \in 1..a
      BY <1>1, <1>3, <2>1
    <3> QED BY <1>5, <2>1, <2>2, <3>1
  <2>4. Len(x) = Len(y)
    BY <2>1, <2>2
  <2> QED BY <2>1, <2>2, <2>3, <2>4, SeqEqual
<1>7. SubSeq(arrived, 1, Len(arrived) - (IF c THEN 0 ELSE Len(b))) = y
  BY <1>4, <1>5, <1>6
<1>8. EventsIn(s, w, b, c) = y
  BY DEF EventsIn, e, a, t, bytes
<1>9. arrived = SubSeq(Encodings[s], 1, Len(Encodings[s]) - Len(w))
  BY <1>2 DEF arrived, bytes
<1> HIDE DEF y
<1> QED BY <1>7, <1>8, <1>9

LEMMA EventsType ==
  ASSUME NEW s, NEW w, NEW b, NEW c, BytesAre(s, w, b)
  PROVE  /\ EventsIn(s, w, b, c) \in Seq(BytesOf(s))
         /\ Payloads(EventsIn(s, w, b, c)) \in Seq(PayloadsOf(s))
<1> DEFINE bytes == Encodings[s]
           B == BytesOf(s)
           a == ArrivedLen(s, w)
           t == TakenLen(s, w, b)
           e == IF c THEN a ELSE t
<1>1. s \in Scripts /\ bytes \in Seq(B) /\ a \in 0..Len(bytes) /\ t \in 0..a
  BY BytesFacts, EncodingsType
<1>2. EventsIn(s, w, b, c) = SubSeq(bytes, 1, e)
  BY DEF EventsIn
<1> HIDE DEF bytes, B, a, t
<1>3. 1 \in 1..(Len(bytes) + 1) /\ e \in (1 - 1)..Len(bytes)
  BY <1>1
<1> HIDE DEF e
<1>4. SubSeq(bytes, 1, e) \in Seq(B)
  BY <1>1, <1>3, PartType
<1>5. Payloads(SubSeq(bytes, 1, e)) \in Seq(PayloadsOf(s))
  BY <1>1, <1>4, PayloadsType DEF B
<1> QED BY <1>2, <1>4, <1>5 DEF B

(* A call of the state's invariants what they say of its variables.        *)
LEMMA InvIs ==
  /\ BytesInv <=> BytesAre(script, wire, buffer)
  /\ BytesInv => (LinesInv <=> LinesAre(Payloads(EventsIn(script, wire, buffer, closed)), lines, heard))
  /\ AssemblerInv <=> AssemblerIs(assembler, heard)
<1>1. BytesInv <=> BytesAre(script, wire, buffer)
  BY DEF BytesInv, BytesAre, ArrivedLen, TakenLen
<1>2. ASSUME BytesInv
      PROVE  LinesInv <=> LinesAre(Payloads(EventsIn(script, wire, buffer, closed)), lines, heard)
  <2>1. EventBytes = EventsIn(script, wire, buffer, closed)
    BY <1>1, <1>2, EventBytesAre DEF EventBytes, Arrived
  <2> DEFINE said == Payloads(EventsIn(script, wire, buffer, closed))
  <2>2. Processed = Done(said, lines)
    BY <2>1 DEF Processed, Done
  <2> QED BY <2>1, <2>2 DEF LinesInv, LinesAre
<1>3. AssemblerInv <=> AssemblerIs(assembler, heard)
  BY DEF AssemblerInv, AssemblerIs
<1> QED BY <1>1, <1>2, <1>3

LEMMA InvIsNext ==
  /\ BytesInv' <=> BytesAre(script', wire', buffer')
  /\ BytesInv' => (LinesInv' <=> LinesAre(Payloads(EventsIn(script', wire', buffer', closed')), lines', heard'))
  /\ AssemblerInv' <=> AssemblerIs(assembler', heard')
<1>1. BytesInv' <=> BytesAre(script', wire', buffer')
  BY DEF BytesInv, BytesAre, ArrivedLen, TakenLen
<1>2. ASSUME BytesInv'
      PROVE  LinesInv' <=> LinesAre(Payloads(EventsIn(script', wire', buffer', closed')), lines', heard')
  <2>1. EventBytes' = EventsIn(script', wire', buffer', closed')
    BY <1>1, <1>2, EventBytesAre DEF EventBytes, Arrived
  <2> DEFINE said == Payloads(EventsIn(script', wire', buffer', closed'))
  <2>2. Processed' = Done(said, lines')
    BY <2>1 DEF Processed, Done
  <2> QED BY <2>1, <2>2 DEF LinesInv, LinesAre
<1>3. AssemblerInv' <=> AssemblerIs(assembler', heard')
  BY DEF AssemblerInv, AssemblerIs
<1> QED BY <1>1, <1>2, <1>3

---------------------------------------------------------------------------
(* The steps of an attempt.                                                *)
StateKept == UNCHANGED <<script, wire, buffer, lines, assembler, heard, closed>>

LEMMA KeptStep ==
  ASSUME BytesInv, LinesInv, AssemblerInv, StateKept
  PROVE  BytesInv' /\ LinesInv' /\ AssemblerInv'
<1>1. BytesAre(script', wire', buffer') /\ AssemblerIs(assembler', heard')
  BY InvIs DEF StateKept
<1>2. LinesAre(Payloads(EventsIn(script', wire', buffer', closed')), lines', heard')
  BY InvIs DEF StateKept
<1> QED BY <1>1, <1>2, InvIsNext

LEMMA AnswerStep ==
  ASSUME NEW s \in Scripts, Answer(s)
  PROVE  StreamInv'
<1> USE DEF Answer
<1>1. BytesAre(script', wire', buffer') /\ TakenLen(script', wire', buffer') = 0
  BY AnswerBytes
<1>2. EventsIn(script', wire', buffer', closed') = <<>>
  <2>1. SubSeq(Encodings[s], 1, 0) = <<>>
    BY SubSeqEmpty
  <2> QED BY <1>1, <2>1 DEF EventsIn
<1>3. Payloads(<<>>) = <<>>
  BY DEF Payloads, FlattenSeq
<1>4. LinesAre(Payloads(EventsIn(script', wire', buffer', closed')), lines', heard')
  BY <1>2, <1>3, LinesNothing
<1>5. AssemblerIs(assembler', heard')
  BY NothingAssembled DEF AssemblerIs
<1>6. PhaseInv'
  <2>1. Boundaries(<<>>) = {}
    BY DEF Boundaries
  <2>2. /\ pc' = "reading" /\ lines' = <<>> /\ closed' = FALSE /\ buffer' = <<>>
    OBVIOUS
  <2> QED BY <2>1, <2>2 DEF PhaseInv
<1> QED BY <1>1, <1>4, <1>5, <1>6, InvIsNext DEF StreamInv

LEMMA ArrivesStep ==
  ASSUME StreamInv, NEW n \in 1..Len(wire), Arrives(n)
  PROVE  StreamInv'
<1>1. /\ pc = "reading" /\ n <= Len(wire)
      /\ buffer' = buffer \o SubSeq(wire, 1, n) /\ wire' = SubSeq(wire, n + 1, Len(wire))
      /\ pc' = "parsing"
      /\ script' = script /\ lines' = lines /\ assembler' = assembler /\ heard' = heard
      /\ closed' = closed
  BY DEF Arrives
<1>2. BytesInv /\ LinesInv /\ PhaseInv /\ AssemblerInv
  BY <1>1 DEF StreamInv, InAttempt
<1>3. lines = <<>> /\ ~closed
  BY <1>1, <1>2 DEF PhaseInv
<1>4. BytesAre(script, wire, buffer)
  BY <1>2, InvIs
<1>5. BytesAre(script', wire', buffer') /\ TakenLen(script', wire', buffer') = TakenLen(script, wire, buffer)
  BY <1>1, <1>4, ArriveBytes
<1>6. EventsIn(script', wire', buffer', closed') = EventsIn(script, wire, buffer, closed)
  BY <1>1, <1>3, <1>5 DEF EventsIn
<1>7. LinesAre(Payloads(EventsIn(script', wire', buffer', closed')), lines', heard')
  BY <1>1, <1>2, <1>6, InvIs
<1>8. AssemblerIs(assembler', heard')
  BY <1>1, <1>2, InvIs
<1>9. PhaseInv'
  BY <1>1, <1>3 DEF PhaseInv
<1> QED BY <1>5, <1>7, <1>8, <1>9, InvIsNext DEF StreamInv

LEMMA ProcessStep ==
  ASSUME StreamInv, Process
  PROVE  StreamInv'
<1> DEFINE p == Boundary(buffer)
           P == PayloadsOf(script)
           rest == SubSeq(buffer, p[1] + p[2], Len(buffer))
           event == SubSeq(buffer, 1, p[1] - 1)
           said == Payloads(EventsIn(script, wire, buffer, closed))
           new == Payloads(event)
<1>1. /\ pc = "parsing" /\ Boundaries(buffer) # {}
      /\ buffer' = rest /\ lines' = new /\ pc' = "event"
      /\ script' = script /\ wire' = wire /\ assembler' = assembler /\ heard' = heard
      /\ closed' = closed
  BY DEF Process
<1>2. BytesInv /\ LinesInv /\ PhaseInv /\ AssemblerInv
  BY <1>1 DEF StreamInv, InAttempt
<1>3. lines = <<>> /\ ~closed
  BY <1>1, <1>2 DEF PhaseInv
<1>4. BytesAre(script, wire, buffer)
  BY <1>2, InvIs
<1>5. script \in Scripts /\ buffer \in Seq(BytesOf(script)) /\ Len(buffer) \in Nat
  BY <1>4, BytesFacts
<1>6. p \in Boundaries(buffer)
  BY <1>1, <1>5, BoundaryIn
<1> HIDE DEF p
<1>7. BytesAre(script, wire, rest) /\
      Payloads(SubSeq(Encodings[script], 1, TakenLen(script, wire, rest))) =
        Payloads(SubSeq(Encodings[script], 1, TakenLen(script, wire, buffer))) \o new
  BY <1>4, <1>6, TakeBytes
<1>8. Payloads(EventsIn(script', wire', buffer', closed')) = said \o new
  BY <1>1, <1>3, <1>7 DEF EventsIn
<1>9. said \in Seq(P)
  BY <1>4, EventsType
<1>10. new \in Seq(P)
  <2>1. /\ p[1] \in 1..Len(buffer)
    BY <1>5, <1>6, BoundaryFacts
  <2> DEFINE k == p[1] - 1
  <2>2. 1 \in 1..(Len(buffer) + 1) /\ k \in (1 - 1)..Len(buffer)
    BY <1>5, <2>1
  <2> HIDE DEF k
  <2>3. SubSeq(buffer, 1, k) \in Seq(BytesOf(script))
    BY <1>5, <2>2, PartType
  <2> DEFINE ev == SubSeq(buffer, 1, k)
  <2> HIDE DEF ev
  <2>4. Payloads(ev) \in Seq(P)
    BY <1>5, <2>3, PayloadsType DEF ev
  <2> QED BY <2>4 DEF ev, k
<1> HIDE DEF said, new, P
<1>11. LinesAre(said \o new, new, heard)
  <2>1. LinesAre(said, <<>>, heard)
    BY <1>2, <1>3, InvIs DEF said
  <2> QED BY <1>9, <1>10, <2>1, LinesNew
<1>12. LinesAre(Payloads(EventsIn(script', wire', buffer', closed')), lines', heard')
  BY <1>1, <1>8, <1>11
<1>13. AssemblerIs(assembler', heard')
  BY <1>1, <1>2, InvIs
<1>14. PhaseInv'
  BY <1>1 DEF PhaseInv
<1>15. BytesAre(script', wire', buffer')
  BY <1>1, <1>7
<1> QED BY <1>12, <1>13, <1>14, <1>15, InvIsNext DEF StreamInv

(* The body ends: what is left in the buffer is an event.                  *)
LEMMA EndStep ==
  ASSUME StreamInv, BodyEnds
  PROVE  StreamInv'
<1> DEFINE P == PayloadsOf(script)
           bytes == Encodings[script]
           a == ArrivedLen(script, wire)
           n == TakenLen(script, wire, buffer)
           said == Payloads(EventsIn(script, wire, buffer, closed))
           new == Payloads(buffer)
<1>1. /\ pc = "reading" /\ closed' = TRUE /\ lines' = new /\ pc' = "event"
      /\ script' = script /\ wire' = wire /\ buffer' = buffer
      /\ assembler' = assembler /\ heard' = heard
  BY DEF BodyEnds
<1>2. BytesInv /\ LinesInv /\ PhaseInv /\ AssemblerInv
  BY <1>1 DEF StreamInv, InAttempt
<1>3. lines = <<>> /\ ~closed
  BY <1>1, <1>2 DEF PhaseInv
<1>4. BytesAre(script, wire, buffer)
  BY <1>2, InvIs
<1>5. /\ script \in Scripts /\ buffer \in Seq(BytesOf(script)) /\ bytes \in Seq(BytesOf(script))
      /\ a \in 0..Len(bytes) /\ n \in 0..a /\ Len(bytes) \in Nat
  BY <1>4, BytesFacts, EncodingsType
<1>6. buffer = SubSeq(bytes, n + 1, a) /\ AfterEvent(bytes, n)
  BY <1>4 DEF BytesAre
<1>7. Payloads(EventsIn(script', wire', buffer', closed')) = said \o new
  <2>1. said = Payloads(SubSeq(bytes, 1, n))
    BY <1>3 DEF EventsIn
  <2>2. Payloads(EventsIn(script', wire', buffer', closed')) = Payloads(SubSeq(bytes, 1, a))
    BY <1>1 DEF EventsIn
  <2> HIDE DEF a, n, bytes, said
  <2>3. 1 \in 1..(Len(bytes) + 1) /\ n \in (1 - 1)..Len(bytes) /\ a \in n..Len(bytes)
    BY <1>5
  <2>4. n = 1 - 1 \/ bytes[n].piece # "middle"
    <3>1. CASE n = 0
      BY <3>1
    <3>2. CASE n # 0
      <4>1. n \in 1..Len(bytes)
        BY <1>5, <3>2
      <4> QED BY <1>5, <1>6, <4>1, AfterEventByte
    <3> QED BY <3>1, <3>2
  <2>5. Payloads(SubSeq(bytes, 1, a)) = Payloads(SubSeq(bytes, 1, n)) \o Payloads(SubSeq(bytes, n + 1, a))
    BY <1>5, <2>3, <2>4, RangeSplit
  <2> QED BY <1>6, <2>1, <2>2, <2>5
<1>8. said \in Seq(P)
  BY <1>4, EventsType
<1>9. new \in Seq(P)
  BY <1>5, PayloadsType
<1> HIDE DEF said, new, P
<1>10. LinesAre(said \o new, new, heard)
  <2>1. LinesAre(said, <<>>, heard)
    BY <1>2, <1>3, InvIs DEF said
  <2> QED BY <1>8, <1>9, <2>1, LinesNew
<1>11. LinesAre(Payloads(EventsIn(script', wire', buffer', closed')), lines', heard')
  BY <1>1, <1>7, <1>10
<1>12. AssemblerIs(assembler', heard')
  BY <1>1, <1>2, InvIs
<1>13. PhaseInv'
  BY <1>1 DEF PhaseInv
<1>14. BytesAre(script', wire', buffer')
  BY <1>1, <1>4
<1> QED BY <1>11, <1>12, <1>13, <1>14, InvIsNext DEF StreamInv

(* A line that says nothing, and one with a chunk.                         *)
LEMMA ReadLineStep ==
  ASSUME StreamInv, pc = "event", lines # <<>>, SkipLine \/ DataLine, UNCHANGED <<buffer, closed>>
  PROVE  StreamInv'
<1> DEFINE s == script
           p == Head(lines)
           said == Payloads(EventsIn(script, wire, buffer, closed))
<1>1. BytesInv /\ LinesInv /\ PhaseInv /\ AssemblerInv
  BY DEF StreamInv, InAttempt
<1>2. BytesAre(script, wire, buffer) /\ LinesAre(said, lines, heard) /\ AssemblerIs(assembler, heard)
  BY <1>1, InvIs
<1>3. s \in Scripts /\ said \in Seq(PayloadsOf(s))
  BY <1>2, BytesFacts, EventsType
<1>4. /\ pc' = "event" /\ script' = script /\ wire' = wire /\ buffer' = buffer /\ closed' = closed
      /\ lines' = Tail(lines)
  BY DEF SkipLine, DataLine
<1> HIDE DEF said
<1>5. p.kind # "done" /\ ~Unreadable(p)
  <2>1. CASE SkipLine
    BY <2>1 DEF SkipLine, ParseOutcome, Unreadable
  <2>2. CASE DataLine
    BY <2>2 DEF DataLine, ParseOutcome, Unreadable
  <2> QED BY <2>1, <2>2
<1>6. /\ p \in PayloadsOf(s) /\ heard \in Seq(ChunksOf(s))
      /\ LinesAre(said, Tail(lines),
           IF ParseOutcome(p) = "data" THEN Append(heard, StreamChunk(p)) ELSE heard)
  BY <1>2, <1>3, <1>5, LinesNext
<1>7. heard' = IF ParseOutcome(p) = "data" THEN Append(heard, StreamChunk(p)) ELSE heard
  BY DEF SkipLine, DataLine
<1>8. LinesAre(Payloads(EventsIn(script', wire', buffer', closed')), lines', heard')
  BY <1>4, <1>6, <1>7 DEF said
<1>9. AssemblerIs(assembler', heard')
  <2>1. CASE SkipLine
    BY <1>2, <2>1 DEF SkipLine
  <2>2. CASE DataLine
    <3>1. /\ ParseOutcome(p) = "data" /\ assembler' = Ingest(assembler, StreamChunk(p))
          /\ heard' = Append(heard, StreamChunk(p))
      BY <2>2 DEF DataLine
    <3>2. StreamChunk(p) \in ChunksOf(s)
      BY <1>3, <1>6, <3>1, CutPayload DEF ChunksOf
    <3> DEFINE c == StreamChunk(p)
    <3> HIDE DEF c
    <3>3. c \in ChunksOf(s)
      BY <3>2 DEF c
    <3>4. /\ assembler = [WholeReply(heard) EXCEPT !.tool_calls = assembler.tool_calls]
          /\ \A i \in 0..(MAX_PARALLEL_TOOL_CALLS - 1) :
               Slot(assembler.tool_calls, i) = WholeCall(Fragments(heard, i))
      BY <1>2 DEF AssemblerIs
    <3> HIDE DEF s, p
    <3>5. AssemblerIs(Ingest(assembler, c), Append(heard, c))
      BY <1>3, <1>6, <3>3, <3>4, IngestAssembles DEF AssemblerIs
    <3> QED BY <3>1, <3>5 DEF c
  <2> QED BY <2>1, <2>2
<1>10. PhaseInv'
  BY <1>4 DEF PhaseInv
<1>11. BytesAre(script', wire', buffer')
  BY <1>2, <1>4
<1> QED BY <1>8, <1>9, <1>10, <1>11, InvIsNext DEF StreamInv

(* The reply ends, at [DONE] or with the body, or with an error.           *)
LEMMA LastLineStep ==
  ASSUME StreamInv, pc = "event", lines # <<>>, DoneLine \/ UnreadableLine, UNCHANGED <<buffer, closed>>
  PROVE  StreamInv'
<1>1. BytesInv /\ LinesInv /\ PhaseInv /\ AssemblerInv
  BY DEF StreamInv, InAttempt
<1>2. StateKept
  BY DEF DoneLine, UnreadableLine, Returns, Fails, StateKept
<1>3. BytesInv' /\ LinesInv' /\ AssemblerInv'
  BY <1>1, <1>2, KeptStep
<1>4. lines' = lines /\ assembler' = assembler
  BY <1>2 DEF StateKept
<1>5. PhaseInv'
  <2>1. CASE DoneLine
    <3>1. Head(lines).kind = "done"
      BY <2>1 DEF DoneLine, ParseOutcome
    <3>2. pc' = "over" /\ result' = Reply("reply", Finalize(assembler))
      BY <2>1 DEF DoneLine, Returns
    <3>3. result'.kind = "reply" /\ result'.reply = Finalize(assembler')
      BY <1>4, <3>2 DEF Reply
    <3> QED BY <1>4, <3>1, <3>2, <3>3 DEF PhaseInv
  <2>2. CASE UnreadableLine
    <3>1. Unreadable(Head(lines))
      BY <2>2 DEF UnreadableLine
    <3>2. pc' = "over" /\ result' = Reply("Malformed", None)
      BY <2>2 DEF UnreadableLine, Fails, Transient
    <3>3. result'.kind = "Malformed"
      BY <3>2 DEF Reply
    <3> QED BY <1>4, <3>1, <3>2, <3>3 DEF PhaseInv
  <2> QED BY <2>1, <2>2
<1> QED BY <1>3, <1>5 DEF StreamInv

LEMMA OverStep ==
  ASSUME StreamInv, EventOver
  PROVE  StreamInv'
<1>1. pc = "event" /\ lines = <<>>
  BY DEF EventOver
<1>2. BytesInv /\ LinesInv /\ PhaseInv /\ AssemblerInv
  BY <1>1 DEF StreamInv, InAttempt
<1>3. StateKept
  BY DEF EventOver, Returns, StateKept
<1>4. BytesInv' /\ LinesInv' /\ AssemblerInv'
  BY <1>2, <1>3, KeptStep
<1>5. lines' = lines /\ assembler' = assembler /\ closed' = closed
  BY <1>3 DEF StateKept
<1>6. PhaseInv'
  <2>1. CASE closed
    <3>1. pc' = "over" /\ result' = Reply("reply", Finalize(assembler))
      BY <2>1 DEF EventOver, Returns
    <3>2. result'.kind = "reply" /\ result'.reply = Finalize(assembler')
      BY <1>5, <3>1 DEF Reply
    <3> QED BY <1>1, <1>5, <2>1, <3>1, <3>2 DEF PhaseInv
  <2>2. CASE ~closed
    <3>1. pc' = "parsing"
      BY <2>2 DEF EventOver
    <3> QED BY <1>1, <1>5, <2>2, <3>1 DEF PhaseInv
  <2> QED BY <2>1, <2>2
<1> QED BY <1>4, <1>6 DEF StreamInv

LEMMA AwaitStep ==
  ASSUME StreamInv, AwaitChunk
  PROVE  StreamInv'
<1>1. pc = "parsing" /\ Boundaries(buffer) = {} /\ pc' = "reading"
  BY DEF AwaitChunk
<1>2. BytesInv /\ LinesInv /\ PhaseInv /\ AssemblerInv
  BY <1>1 DEF StreamInv, InAttempt
<1>3. StateKept
  BY DEF AwaitChunk, StateKept
<1>4. BytesInv' /\ LinesInv' /\ AssemblerInv'
  BY <1>2, <1>3, KeptStep
<1>5. lines' = lines /\ buffer' = buffer /\ closed' = closed
  BY <1>3 DEF StateKept
<1>6. PhaseInv'
  BY <1>1, <1>2, <1>5 DEF PhaseInv
<1> QED BY <1>4, <1>6 DEF StreamInv

(* A call that begins, fails otherwise or waits is in no attempt.          *)
LEMMA OutsideStep ==
  ASSUME Call \/ Retry \/ (\E error \in SendErrors : SendFails(error)) \/
         (\E error \in {"Timeout", "Connection"} : ReadFails(error))
  PROVE  StreamInv'
<1>1. CASE Call
  BY <1>1 DEF Call, StreamInv, InAttempt
<1>2. CASE Retry
  BY <1>2 DEF Retry, StreamInv, InAttempt
<1>3. ASSUME NEW error \in SendErrors, Fails(error) PROVE StreamInv'
  <2>1. CASE pc' = "delay"
    BY <2>1 DEF StreamInv, InAttempt
  <2>2. CASE pc' # "delay"
    <3>1. pc' = "over" /\ result' = Reply(error, None)
      BY <1>3, <2>2 DEF Fails
    <3>2. result'.kind = error
      BY <3>1 DEF Reply
    <3>3. error \notin {"reply", "Malformed"}
      BY DEF SendErrors
    <3> QED BY <3>1, <3>2, <3>3 DEF StreamInv, InAttempt
  <2> QED BY <2>1, <2>2
<1>4. CASE \E error \in SendErrors : SendFails(error)
  BY <1>3, <1>4 DEF SendFails
<1>5. CASE \E error \in {"Timeout", "Connection"} : ReadFails(error)
  <2>1. {"Timeout", "Connection"} \subseteq SendErrors
    BY DEF SendErrors
  <2> QED BY <1>3, <1>5, <2>1 DEF ReadFails
<1> QED BY <1>1, <1>2, <1>4, <1>5

LEMMA StutterStep ==
  ASSUME StreamInv, UNCHANGED vars
  PROVE  StreamInv'
<1>1. StateKept /\ pc' = pc /\ result' = result
  BY DEF vars, StateKept
<1>2. CASE ~InAttempt
  BY <1>1, <1>2 DEF StreamInv, InAttempt
<1>3. CASE InAttempt
  <2>1. BytesInv /\ LinesInv /\ PhaseInv /\ AssemblerInv
    BY <1>3 DEF StreamInv
  <2>2. BytesInv' /\ LinesInv' /\ AssemblerInv'
    BY <1>1, <2>1, KeptStep
  <2>3. PhaseInv'
    BY <1>1, <2>1 DEF PhaseInv, StateKept
  <2> QED BY <2>2, <2>3 DEF StreamInv
<1> QED BY <1>2, <1>3

LEMMA NextStep ==
  ASSUME StreamInv, [Next]_vars
  PROVE  StreamInv'
<1>1. CASE UNCHANGED vars
  BY <1>1, StutterStep
<1>2. CASE Next
  <2>1. CASE Call
    BY <2>1, OutsideStep
  <2>2. CASE Continue
    <3>1. ASSUME NEW s \in Scripts, Answer(s) PROVE StreamInv'
      BY <3>1, AnswerStep
    <3>2. ASSUME NEW n \in 1..Len(wire), Arrives(n) PROVE StreamInv'
      BY <3>2, ArrivesStep
    <3>3. CASE Process
      BY <3>3, ProcessStep
    <3>4. CASE ProcessLine
      BY <3>4, ReadLineStep, LastLineStep DEF ProcessLine
    <3>5. CASE EventOver
      BY <3>5, OverStep
    <3>6. CASE AwaitChunk
      BY <3>6, AwaitStep
    <3>7. CASE BodyEnds
      BY <3>7, EndStep
    <3>8. CASE Retry \/ (\E error \in SendErrors : SendFails(error)) \/
               (\E error \in {"Timeout", "Connection"} : ReadFails(error))
      BY <3>8, OutsideStep
    <3> QED BY <2>2, <3>1, <3>2, <3>3, <3>4, <3>5, <3>6, <3>7, <3>8 DEF Continue
  <2> QED BY <1>2, <2>1, <2>2 DEF Next
<1> QED BY <1>1, <1>2

(* In every attempt, and at its end, the bytes taken out of the buffer are *)
(* whole events, the lines processed are what they say, and the assembler  *)
(* holds what the callback heard (complete_streaming).                     *)
THEOREM StreamHolds == Spec => []StreamInv
<1>1. Init => StreamInv
  <2>1. Init => pc = "over" /\ result.kind = "none"
    BY DEF Init, Reply
  <2> QED BY <2>1 DEF StreamInv, InAttempt
<1>2. StreamInv /\ [Next]_vars => StreamInv'
  BY NextStep
<1> QED BY <1>1, <1>2, PTL DEF Spec

---------------------------------------------------------------------------
(* What is said up to [DONE].                                              *)
LEMMA UpToDoneNone ==
  ASSUME NEW ps, \A k \in DOMAIN ps : ps[k].kind # "done"
  PROVE  UpToDone(ps) = ps
BY DEF UpToDone

LEMMA UpToDoneFirst ==
  ASSUME NEW P, NEW ps \in Seq(P), NEW m \in 0..(Len(ps) - 1), ps[m + 1].kind = "done",
         \A k \in 1..m : ps[k].kind # "done"
  PROVE  UpToDone(ps) = SubSeq(ps, 1, m)
<1> DEFINE T == {k \in DOMAIN ps : ps[k].kind = "done"}
<1>1. Len(ps) \in Nat /\ DOMAIN ps = 1..Len(ps) /\ m + 1 \in 1..Len(ps) /\ m \in Nat
  OBVIOUS
<1>2. m + 1 \in T /\ T \in SUBSET Nat
  BY <1>1
<1>3. \A k \in T : k \in 1..Len(ps) /\ k \notin 1..m
  BY <1>1
<1> HIDE DEF T
<1>4. Min(T) \in T /\ \A y \in T : Min(T) <= y
  BY <1>2, MinIn
<1>5. Min(T) = m + 1
  <2>1. Min(T) <= m + 1 /\ Min(T) \in 1..Len(ps) /\ Min(T) \notin 1..m
    BY <1>2, <1>3, <1>4
  <2> QED BY <1>1, <2>1
<1>6. UpToDone(ps) = SubSeq(ps, 1, Min(T) - 1)
  BY <1>2 DEF UpToDone, T
<1>7. Min(T) - 1 = m
  BY <1>1, <1>5
<1> QED BY <1>6, <1>7

LEMMA UpToDoneKeeps ==
  ASSUME NEW P, NEW ps \in Seq(P), NEW i \in 1..Len(ps), \A k \in 1..i : ps[k].kind # "done"
  PROVE  i \in DOMAIN UpToDone(ps) /\ UpToDone(ps)[i] = ps[i]
<1> DEFINE T == {k \in DOMAIN ps : ps[k].kind = "done"}
<1>1. Len(ps) \in Nat /\ DOMAIN ps = 1..Len(ps) /\ i \in Nat
  OBVIOUS
<1>2. CASE T = {}
  BY <1>1, <1>2 DEF UpToDone
<1>3. CASE T # {}
  <2>1. T \in SUBSET Nat
    BY <1>1
  <2>2. \A k \in T : k \in 1..Len(ps) /\ k \notin 1..i
    BY <1>1
  <2>3. UpToDone(ps) = SubSeq(ps, 1, Min(T) - 1)
    BY <1>3 DEF UpToDone
  <2> HIDE DEF T
  <2>4. Min(T) \in T
    BY <1>3, <2>1, MinIn
  <2> DEFINE e == Min(T) - 1
             x == SubSeq(ps, 1, e)
  <2>5. e \in i..Len(ps)
    <3>1. Min(T) \in 1..Len(ps) /\ Min(T) \notin 1..i
      BY <2>2, <2>4
    <3> QED BY <1>1, <3>1
  <2> HIDE DEF e
  <2>6. 1 \in 1..(Len(ps) + 1) /\ e \in (1 - 1)..Len(ps)
    BY <1>1, <2>5
  <2>7. x \in Seq(P) /\ Len(x) = e - 1 + 1 /\ \A j \in 1..(e - 1 + 1) : x[j] = ps[1 + j - 1]
    BY <2>6, PartType
  <2> HIDE DEF x
  <2>8. i \in 1..(e - 1 + 1) /\ 1 + i - 1 = i /\ i \in 1..Len(x)
    BY <1>1, <2>5, <2>7
  <2>9. i \in DOMAIN x /\ x[i] = ps[i]
    BY <2>7, <2>8
  <2> QED BY <2>3, <2>9 DEF x, e
<1> QED BY <1>2, <1>3

(* The lines processed and the next one, of all that has arrived.          *)
LEMMA FirstLine ==
  ASSUME NEW P, NEW said \in Seq(P), NEW ls, NEW hs, LinesAre(said, ls, hs), ls # <<>>,
         NEW more \in Seq(P)
  PROVE  /\ said \o more \in Seq(P)
         /\ Len(Done(said, ls)) \in 0..(Len(said \o more) - 1)
         /\ (said \o more)[Len(Done(said, ls)) + 1] = Head(ls)
         /\ \A k \in 1..Len(Done(said, ls)) :
              (said \o more)[k] = Done(said, ls)[k] /\ (said \o more)[k].kind # "done"
         /\ SubSeq(said \o more, 1, Len(Done(said, ls))) = Done(said, ls)
<1> DEFINE all == said \o more
           done == Done(said, ls)
           m == Len(done)
           n == Len(said)
<1>1. /\ ls \in Seq(P) /\ done \in Seq(P) /\ m = n - Len(ls)
      /\ \A k \in 1..m : said[k] = done[k]
      /\ \A k \in 1..Len(ls) : said[m + k] = ls[k]
  BY LinesFacts
<1>2. \A k \in DOMAIN done : done[k].kind # "done"
  BY DEF LinesAre
<1> HIDE DEF done
<1>3. m \in Nat /\ n \in Nat /\ Len(ls) \in Nat /\ DOMAIN done = 1..m /\ Len(more) \in Nat
  BY <1>1
<1>4. Len(ls) >= 1 /\ Head(ls) = ls[1]
  <2>1. Len(ls) # 0
    BY <1>1
  <2> QED BY <1>1, <1>3, <2>1
<1>5. all \in Seq(P) /\ Len(all) = n + Len(more) /\ \A k \in 1..n : all[k] = said[k]
  OBVIOUS
<1> HIDE DEF all, n, m
<1>6. m \in 0..(Len(all) - 1) /\ m + 1 \in 1..n /\ 1 \in 1..Len(ls)
  BY <1>1, <1>3, <1>4, <1>5
<1>7. all[m + 1] = Head(ls)
  BY <1>1, <1>4, <1>5, <1>6
<1>8. ASSUME NEW k \in 1..m PROVE all[k] = done[k] /\ all[k].kind # "done"
  <2>1. k \in 1..n
    BY <1>3, <1>6
  <2> QED BY <1>1, <1>2, <1>3, <1>5, <2>1
<1>9. SubSeq(all, 1, m) = done
  <2> DEFINE x == SubSeq(all, 1, m)
  <2>1. 1 \in 1..(Len(all) + 1) /\ m \in (1 - 1)..Len(all)
    BY <1>3, <1>5, <1>6
  <2>2. x \in Seq(P) /\ Len(x) = m - 1 + 1 /\ \A j \in 1..(m - 1 + 1) : x[j] = all[1 + j - 1]
    BY <1>5, <2>1, PartType
  <2> HIDE DEF x
  <2>3. Len(x) = m
    BY <1>3, <2>2
  <2>4. ASSUME NEW j \in 1..Len(x) PROVE x[j] = done[j]
    <3>1. j \in 1..(m - 1 + 1) /\ 1 + j - 1 = j /\ j \in 1..m
      BY <1>3, <2>3
    <3>2. all[j] = done[j]
      BY <1>8, <3>1
    <3> QED BY <2>2, <3>1, <3>2
  <2>5. Len(x) = Len(done)
    BY <2>3 DEF m
  <2>6. x = done
    BY <1>1, <2>2, <2>4, <2>5, SeqEqual
  <2> QED BY <2>6 DEF x
<1> QED BY <1>5, <1>6, <1>7, <1>8, <1>9 DEF all, done, m

(* What has arrived says what the events said, and more.                   *)
LEMMA ArrivedSays ==
  ASSUME NEW s, NEW w, NEW b, BytesAre(s, w, b),
         NEW e \in TakenLen(s, w, b)..ArrivedLen(s, w)
  PROVE  \E more \in Seq(PayloadsOf(s)) :
           Payloads(SubSeq(Encodings[s], 1, e)) =
             Payloads(SubSeq(Encodings[s], 1, TakenLen(s, w, b))) \o more
<1> DEFINE bytes == Encodings[s]
           B == BytesOf(s)
           a == ArrivedLen(s, w)
           t == TakenLen(s, w, b)
           l == Len(bytes)
<1>1. s \in Scripts /\ bytes \in Seq(B) /\ l \in Nat /\ a \in 0..l /\ t \in 0..a /\ e \in t..a
  BY BytesFacts, EncodingsType
<1>2. AfterEvent(bytes, t)
  BY DEF BytesAre
<1> HIDE DEF B, a, t, bytes
<1>3. 1 \in 1..(l + 1) /\ t \in (1 - 1)..l /\ e \in t..l /\ t + 1 \in 1..(l + 1) /\ e \in ((t + 1) - 1)..l
  BY <1>1
<1> HIDE DEF l
<1>4. t = 1 - 1 \/ bytes[t].piece # "middle"
  <2>1. CASE t = 0
    BY <2>1
  <2>2. CASE t # 0
    <3>1. t \in 1..l
      BY <1>1, <2>2
    <3> QED BY <1>1, <1>2, <3>1, AfterEventByte DEF l
  <2> QED BY <2>1, <2>2
<1> DEFINE y == SubSeq(bytes, t + 1, e)
<1>5. Payloads(SubSeq(bytes, 1, e)) = Payloads(SubSeq(bytes, 1, t)) \o Payloads(y)
  BY <1>1, <1>3, <1>4, RangeSplit DEF B, l
<1>6. y \in Seq(B)
  <2> DEFINE f == t + 1
  <2>1. f \in 1..(l + 1) /\ e \in (f - 1)..l
    BY <1>3
  <2> HIDE DEF f
  <2>2. SubSeq(bytes, f, e) \in Seq(B)
    BY <1>1, <2>1, PartType DEF l
  <2> QED BY <2>2 DEF f
<1> HIDE DEF y
<1>7. Payloads(y) \in Seq(PayloadsOf(s))
  BY <1>1, <1>6, PayloadsType DEF B
<1> QED BY <1>5, <1>7 DEF bytes, t

LEMMA ArrivedIs ==
  ASSUME BytesInv
  PROVE  /\ Arrived = SubSeq(Encodings[script], 1, ArrivedLen(script, wire))
         /\ Arrived \in Seq(BytesOf(script)) /\ Len(Arrived) = ArrivedLen(script, wire)
         /\ \A i \in 1..ArrivedLen(script, wire) : Arrived[i] = Encodings[script][i]
<1> DEFINE bytes == Encodings[script]
           B == BytesOf(script)
           a == ArrivedLen(script, wire)
           x == SubSeq(bytes, 1, a)
<1>1. BytesAre(script, wire, buffer)
  BY InvIs
<1>2. bytes \in Seq(B) /\ a \in 0..Len(bytes) /\ Len(bytes) \in Nat
  BY <1>1, BytesFacts, EncodingsType
<1>3. Arrived = x
  BY DEF Arrived, ArrivedLen
<1> HIDE DEF B, a, bytes
<1>4. 1 \in 1..(Len(bytes) + 1) /\ a \in (1 - 1)..Len(bytes)
  BY <1>2
<1>5. x \in Seq(B) /\ Len(x) = a - 1 + 1 /\ \A j \in 1..(a - 1 + 1) : x[j] = bytes[1 + j - 1]
  BY <1>2, <1>4, PartType
<1> HIDE DEF x
<1>6. Len(x) = a
  BY <1>2, <1>5
<1>7. ASSUME NEW j \in 1..a PROVE x[j] = bytes[j]
  <2>1. j \in 1..(a - 1 + 1) /\ 1 + j - 1 = j
    BY <1>2
  <2> QED BY <1>5, <2>1
<1> QED BY <1>3, <1>5, <1>6, <1>7 DEF x, B, a, bytes

LEMMA ProcessedIs ==
  ASSUME BytesInv
  PROVE  Processed = Done(Payloads(EventsIn(script, wire, buffer, closed)), lines)
<1>1. EventBytes = EventsIn(script, wire, buffer, closed)
  BY InvIs, EventBytesAre DEF EventBytes, Arrived
<1> QED BY <1>1 DEF Processed, Done

LEMMA MoreArrived ==
  ASSUME BytesInv
  PROVE  \E more \in Seq(PayloadsOf(script)) :
           /\ Payloads(Arrived) = Payloads(EventsIn(script, wire, buffer, closed)) \o more
           /\ closed => more = <<>>
<1> DEFINE said == Payloads(EventsIn(script, wire, buffer, closed))
           P == PayloadsOf(script)
           a == ArrivedLen(script, wire)
           t == TakenLen(script, wire, buffer)
<1>1. BytesAre(script, wire, buffer)
  BY InvIs
<1>2. said \in Seq(P)
  BY <1>1, EventsType
<1>3. Arrived = SubSeq(Encodings[script], 1, a)
  BY ArrivedIs
<1>4. CASE closed
  <2>1. said = Payloads(Arrived)
    BY <1>3, <1>4 DEF EventsIn
  <2> HIDE DEF said
  <2>2. said \o <<>> = said /\ <<>> \in Seq(P)
    BY <1>2, ConcatEmptySeq
  <2> QED BY <2>1, <2>2 DEF said, P
<1>5. CASE ~closed
  <2>1. a \in t..a
    <3>1. a \in 0..Len(Encodings[script]) /\ t \in 0..a /\ Len(Encodings[script]) \in Nat
      BY <1>1, BytesFacts, EncodingsType
    <3> HIDE DEF a, t
    <3> QED BY <3>1
  <2>2. said = Payloads(SubSeq(Encodings[script], 1, t))
    BY <1>5 DEF EventsIn
  <2>3. PICK more \in Seq(P) :
          Payloads(SubSeq(Encodings[script], 1, a)) = Payloads(SubSeq(Encodings[script], 1, t)) \o more
    BY <1>1, <2>1, ArrivedSays, SMTT(30)
  <2> HIDE DEF said, a, t
  <2> QED BY <1>3, <1>5, <2>2, <2>3 DEF said
<1> QED BY <1>4, <1>5

(* When a reply ends, it was up to [DONE] that was processed.              *)
LEMMA ReplySaid ==
  ASSUME BytesInv, LinesInv, IF lines = <<>> THEN closed ELSE Head(lines).kind = "done"
  PROVE  UpToDone(Payloads(Arrived)) = Processed
<1> DEFINE said == Payloads(EventsIn(script, wire, buffer, closed))
           P == PayloadsOf(script)
           done == Done(said, lines)
           m == Len(done)
<1>1. said \in Seq(P) /\ LinesAre(said, lines, heard)
  BY InvIs, EventsType
<1>2. PICK more \in Seq(P) : Payloads(Arrived) = said \o more /\ (closed => more = <<>>)
  BY MoreArrived
<1>3. Processed = done
  BY ProcessedIs
<1> HIDE DEF said, P
<1>4. /\ done \in Seq(P) /\ said = done \o lines
      /\ \A k \in DOMAIN done : done[k].kind # "done"
  <2>1. done \in Seq(P) /\ said = done \o lines
    BY <1>1, LinesFacts
  <2>2. \A k \in DOMAIN done : done[k].kind # "done"
    BY <1>1 DEF LinesAre
  <2> QED BY <2>1, <2>2
<1>5. CASE lines = <<>>
  <2> HIDE DEF done
  <2>1. said = done /\ said \o <<>> = said /\ more = <<>>
    BY <1>1, <1>2, <1>4, <1>5, ConcatEmptySeq
  <2>2. UpToDone(done) = done
    BY <1>4, UpToDoneNone
  <2> QED BY <1>2, <1>3, <2>1, <2>2
<1>6. CASE lines # <<>>
  <2> DEFINE all == said \o more
  <2>1. /\ all \in Seq(P) /\ m \in 0..(Len(all) - 1) /\ all[m + 1] = Head(lines)
        /\ \A k \in 1..m : all[k].kind # "done"
        /\ SubSeq(all, 1, m) = done
    BY <1>1, <1>6, FirstLine
  <2> HIDE DEF done, all, m
  <2>2. all[m + 1].kind = "done"
    BY <1>6, <2>1
  <2>3. UpToDone(all) = SubSeq(all, 1, m)
    BY <2>1, <2>2, UpToDoneFirst
  <2> QED BY <1>2, <1>3, <2>1, <2>3 DEF all
<1> QED BY <1>5, <1>6

(* The reply of a call is what the server said up to [DONE] or the end of  *)
(* the body, however it was cut, and the callback heard it once, in order  *)
(* (complete_streaming, process_event_block, StreamAssembler).             *)
THEOREM RepliesAreAssembled == Spec => []AssembledReply
<1>1. StreamInv => AssembledReply
  <2> SUFFICES ASSUME StreamInv, pc = "over", result.kind = "reply"
               PROVE  /\ \A k \in DOMAIN UpToDone(Payloads(Arrived)) :
                           ~Unreadable(UpToDone(Payloads(Arrived))[k])
                      /\ result.reply = WholeReply(Chunks(UpToDone(Payloads(Arrived))))
                      /\ heard = Chunks(UpToDone(Payloads(Arrived)))
    BY DEF AssembledReply
  <2>1. BytesInv /\ LinesInv /\ PhaseInv /\ AssemblerInv
    BY DEF StreamInv, InAttempt
  <2>2. (IF lines = <<>> THEN closed ELSE Head(lines).kind = "done") /\ result.reply = Finalize(assembler)
    BY <2>1 DEF PhaseInv
  <2>3. UpToDone(Payloads(Arrived)) = Processed
    BY <2>1, <2>2, ReplySaid
  <2>4. heard = Chunks(Processed) /\ \A k \in DOMAIN Processed : ~Unreadable(Processed[k])
    BY <2>1 DEF LinesInv
  <2>5. Finalize(assembler) = WholeReply(heard)
    BY <2>1, FinalizeIsWhole DEF AssemblerInv
  <2> QED BY <2>2, <2>3, <2>4, <2>5
<1> QED BY <1>1, StreamHolds, PTL

(* The line that is unreadable comes before any [DONE].                    *)
LEMMA UnreadableSaid ==
  ASSUME BytesInv, LinesInv, lines # <<>>, Unreadable(Head(lines)),
         NEW more \in Seq(PayloadsOf(script))
  PROVE  LET said == UpToDone(Payloads(EventsIn(script, wire, buffer, closed)) \o more)
         IN  \E k \in DOMAIN said : Unreadable(said[k])
<1> DEFINE events == Payloads(EventsIn(script, wire, buffer, closed))
           P == PayloadsOf(script)
           all == events \o more
           done == Done(events, lines)
           m == Len(done)
           i == m + 1
<1>1. events \in Seq(P) /\ LinesAre(events, lines, heard) /\ more \in Seq(P)
  BY InvIs, EventsType
<1> HIDE DEF events, P
<1>2. /\ all \in Seq(P) /\ m \in 0..(Len(all) - 1) /\ all[m + 1] = Head(lines)
      /\ \A k \in 1..m : all[k].kind # "done"
  BY <1>1, FirstLine
<1> HIDE DEF all, m
<1>3. m \in Nat /\ Len(all) \in Nat /\ i \in 1..Len(all)
  BY <1>2
<1>4. all[i].kind # "done"
  BY <1>2 DEF Unreadable, ParseOutcome
<1>5. ASSUME NEW k \in 1..i PROVE all[k].kind # "done"
  <2>1. k \in 1..m \/ k = i
    BY <1>3
  <2> QED BY <1>2, <1>4, <2>1
<1>6. Unreadable(all[i])
  BY <1>2
<1> HIDE DEF i
<1>7. i \in DOMAIN UpToDone(all) /\ UpToDone(all)[i] = all[i]
  BY <1>2, <1>3, <1>5, UpToDoneKeeps
<1> QED BY <1>6, <1>7 DEF all, events

(* Without the last byte, when that is within a payload, what has arrived  *)
(* still says what the events said, and more.                              *)
LEMMA FrontSays ==
  ASSUME BytesInv, Arrived # <<>>, Last(Arrived).piece = "middle", ~closed
  PROVE  \E more \in Seq(PayloadsOf(script)) :
           Payloads(Front(Arrived)) = Payloads(EventsIn(script, wire, buffer, closed)) \o more
<1> DEFINE bytes == Encodings[script]
           B == BytesOf(script)
           a == ArrivedLen(script, wire)
           t == TakenLen(script, wire, buffer)
           e == a - 1
           x == Front(Arrived)
           y == SubSeq(bytes, 1, e)
<1>1. BytesAre(script, wire, buffer)
  BY InvIs
<1>2. /\ bytes \in Seq(B) /\ a \in 0..Len(bytes) /\ t \in 0..a /\ Len(bytes) \in Nat
      /\ AfterEvent(bytes, t)
  BY <1>1, BytesFacts, EncodingsType DEF BytesAre
<1>3. Arrived \in Seq(B) /\ Len(Arrived) = a /\ \A i \in 1..a : Arrived[i] = bytes[i]
  BY ArrivedIs
<1>4. EventsIn(script, wire, buffer, closed) = SubSeq(bytes, 1, t)
  BY DEF EventsIn
<1> HIDE DEF bytes, B, a, t
<1>5. a # 0 /\ a \in 1..a /\ a \in 1..Len(bytes)
  BY <1>2, <1>3
<1>6. bytes[a].piece = "middle"
  BY <1>3, <1>5 DEF Last
<1>7. t # a
  BY <1>2, <1>5, <1>6, AfterEventByte
<1>8. e \in t..a /\ e \in Nat /\ e \in 0..Len(bytes) /\ e \in 0..Len(Arrived) /\ \A i \in 1..e : i \in 1..a
  BY <1>2, <1>3, <1>7
<1>9. x = SubSeq(Arrived, 1, e)
  BY <1>3 DEF Front
<1> HIDE DEF e, x
<1>10. x = y
  <2>1. x \in Seq(B) /\ Len(x) = e - 1 + 1 /\ \A j \in 1..(e - 1 + 1) : x[j] = Arrived[1 + j - 1]
    <3>1. 1 \in 1..(Len(Arrived) + 1) /\ e \in (1 - 1)..Len(Arrived)
      BY <1>2, <1>3, <1>8
    <3> QED BY <1>3, <1>9, <3>1, PartType
  <2>2. y \in Seq(B) /\ Len(y) = e - 1 + 1 /\ \A j \in 1..(e - 1 + 1) : y[j] = bytes[1 + j - 1]
    <3>1. 1 \in 1..(Len(bytes) + 1) /\ e \in (1 - 1)..Len(bytes)
      BY <1>2, <1>8
    <3> QED BY <1>2, <3>1, PartType
  <2> HIDE DEF y
  <2>3. ASSUME NEW j \in 1..Len(x) PROVE x[j] = y[j]
    <3>1. j \in 1..(e - 1 + 1) /\ 1 + j - 1 = j /\ j \in 1..a
      BY <1>8, <2>1
    <3> QED BY <1>3, <2>1, <2>2, <3>1
  <2>4. Len(x) = Len(y)
    BY <2>1, <2>2
  <2> QED BY <2>1, <2>2, <2>3, <2>4, SeqEqual
<1>11. PICK more \in Seq(PayloadsOf(script)) : Payloads(y) = Payloads(SubSeq(bytes, 1, t)) \o more
  BY <1>1, <1>8, ArrivedSays DEF bytes, a, t
<1> HIDE DEF y
<1> QED BY <1>4, <1>10, <1>11 DEF x

(* A reply is malformed only if the server made it so: a payload that      *)
(* cannot be read, or a body that ends within one, never the boundary of a *)
(* chunk (complete_streaming, process_event_block, parse_event).           *)
THEOREM MalformedRepliesAreReal == Spec => []MalformedIsReal
<1>1. StreamInv => MalformedIsReal
  <2> DEFINE cut == Arrived # <<>> /\ Last(Arrived).piece = "middle"
             X == IF cut /\ ~closed THEN Front(Arrived) ELSE Arrived
             said == UpToDone(Payloads(X))
  <2> SUFFICES ASSUME StreamInv, pc = "over", result.kind = "Malformed"
               PROVE  \E k \in DOMAIN said : Unreadable(said[k])
    BY DEF MalformedIsReal
  <2>1. BytesInv /\ LinesInv /\ PhaseInv
    BY DEF StreamInv, InAttempt
  <2>2. lines # <<>> /\ Unreadable(Head(lines))
    BY <2>1 DEF PhaseInv
  <2>3. PICK more \in Seq(PayloadsOf(script)) :
          Payloads(X) = Payloads(EventsIn(script, wire, buffer, closed)) \o more
    BY <2>1, FrontSays, MoreArrived
  <2> HIDE DEF X
  <2> QED BY <2>1, <2>2, <2>3, UnreadableSaid
<1> QED BY <1>1, StreamHolds, PTL

---------------------------------------------------------------------------
(* What waits in the buffer.                                               *)
LEMMA SamePart ==
  ASSUME NEW X, NEW x \in Seq(X), NEW y \in Seq(X), NEW d \in Nat,
         NEW i \in 1..(Len(y) + 1), NEW k \in (i - 1)..Len(y), d + k <= Len(x),
         \A j \in i..k : y[j] = x[d + j]
  PROVE  SubSeq(y, i, k) = SubSeq(x, d + i, d + k)
<1> DEFINE f == d + i
           g == d + k
           u == SubSeq(y, i, k)
           v == SubSeq(x, f, g)
           n == k - i + 1
<1>1. Len(x) \in Nat /\ Len(y) \in Nat /\ i \in Nat /\ k \in Int
  OBVIOUS
<1>2. f \in 1..(Len(x) + 1) /\ g \in (f - 1)..Len(x) /\ g - f + 1 = n /\ n \in Nat
  BY <1>1
<1>3. u \in Seq(X) /\ Len(u) = n /\ \A j \in 1..n : u[j] = y[i + j - 1]
  BY PartType
<1>4. \A j \in 1..n : i + j - 1 \in i..k /\ d + (i + j - 1) = f + j - 1
  BY <1>1
<1> HIDE DEF f, g, n, u
<1>5. v \in Seq(X) /\ Len(v) = g - f + 1 /\ \A j \in 1..(g - f + 1) : v[j] = x[f + j - 1]
  BY <1>2, PartType
<1> HIDE DEF v
<1>6. Len(u) = Len(v) /\ \A j \in 1..Len(u) : u[j] = v[j]
  BY <1>2, <1>3, <1>4, <1>5, ZenonT(30)
<1>7. u = v
  BY <1>3, <1>5, <1>6, SeqEqual
<1> QED BY <1>7 DEF u, v, f, g

LEMMA BoundaryLater ==
  ASSUME NEW X, NEW x \in Seq(X), NEW y \in Seq(X), NEW d \in Nat, Len(x) = d + Len(y),
         \A i \in 1..Len(y) : y[i] = x[d + i], NEW p \in Boundaries(x), p[1] > d
  PROVE  Boundaries(y) # {}
<1> DEFINE q == p[1]
           l == p[2]
           i == q - d
           k == i + l - 1
<1>1. /\ q \in 1..Len(x) /\ l \in {2, 4} /\ q + l - 1 <= Len(x) /\ q > d
      /\ SubSeq(x, q, q + l - 1) \in Delimiters
  BY BoundaryFacts
<1> HIDE DEF q, l
<1>2. Len(y) \in Nat /\ l \in Nat
  BY <1>1
<1>3. /\ i \in 1..Len(y) /\ i \in 1..(Len(y) + 1) /\ k \in (i - 1)..Len(y) /\ d + k <= Len(x)
      /\ d + i = q /\ d + k = q + l - 1 /\ k <= Len(y)
      /\ \A j \in i..k : j \in 1..Len(y)
  BY <1>1, <1>2
<1> HIDE DEF i
<1>4. \A j \in i..k : y[j] = x[d + j]
  BY <1>3
<1> HIDE DEF k
<1>5. SubSeq(y, i, k) = SubSeq(x, d + i, d + k)
  BY <1>3, <1>4, SamePart
<1>6. SubSeq(y, i, k) \in Delimiters
  BY <1>1, <1>3, <1>5
<1>7. <<i, l>> \in Boundaries(y)
  <2>1. i \in DOMAIN y
    BY <1>3
  <2>2. i + l - 1 <= Len(y) /\ SubSeq(y, i, i + l - 1) \in Delimiters
    BY <1>3, <1>6 DEF k
  <2> QED BY <1>1, <2>1, <2>2 DEF Boundaries
<1> QED BY <1>7

(* Up to the last boundary, bytes say what they say up to its end.         *)
LEMMA LastEvent ==
  ASSUME NEW s \in Scripts, NEW x \in Seq(BytesOf(s)), NEW t \in 0..Len(x), AfterEvent(x, t),
         \A p \in Boundaries(x) : p[1] <= t
  PROVE  LET ends == {b[1] : b \in Boundaries(x)}
         IN  Payloads(IF ends = {} THEN <<>> ELSE SubSeq(x, 1, Max(ends))) = Payloads(SubSeq(x, 1, t))
<1> DEFINE ends == {b[1] : b \in Boundaries(x)}
           B == BytesOf(s)
           n == Len(x)
<1>1. n \in Nat /\ x \in Seq(B) /\ t \in Nat
  OBVIOUS
<1> HIDE DEF B
<1>2. \A p \in Boundaries(x) : p[1] \in 1..n /\ p[1] \in ends
  BY <1>1, BoundaryFacts
<1>3. ends \in SUBSET (1..t) /\ ends \in SUBSET (0..t)
  BY <1>1, <1>2
<1>4. CASE t = 0
  <2>1. ends = {}
    <3> HIDE DEF ends
    <3>1. \A e \in ends : FALSE
      BY <1>3, <1>4
    <3> QED BY <3>1
  <2>2. SubSeq(x, 1, 0) = <<>>
    BY SubSeqEmpty
  <2> QED BY <1>4, <2>1, <2>2
<1>5. CASE t # 0
  <2>1. PICK d \in {2, 4} : d <= t /\ SubSeq(x, t - d + 1, t) \in Delimiters
    BY <1>5 DEF AfterEvent
  <2> DEFINE i == t - d + 1
             m == Max(ends)
  <2>2. i \in 1..n /\ i + d - 1 = t /\ i + d - 1 <= n
    BY <1>1, <2>1
  <2>3. SubSeq(x, i, i + d - 1) \in Delimiters
    BY <2>1, <2>2
  <2> HIDE DEF i
  <2>4. \A k \in i..(i + d - 1) : x[k].piece \notin {"middle", "end"}
    BY <1>1, <2>2, <2>3, InDelimiter DEF n
  <2>5. <<i, d>> \in Boundaries(x)
    BY <1>1, <2>2, <2>3 DEF Boundaries, n
  <2>6. i \in ends
    BY <1>2, <2>5
  <2> HIDE DEF ends
  <2>7. m \in ends /\ m >= i
    BY <1>1, <1>3, <2>6, MaxIn
  <2> HIDE DEF m
  <2>8. m \in i..t /\ m \in Nat /\ m \in i..(i + d - 1)
    BY <1>1, <1>3, <2>2, <2>7
  <2> DEFINE y == SubSeq(x, m + 1, t)
             f == m + 1
  <2>9. Payloads(SubSeq(x, 1, t)) = Payloads(SubSeq(x, 1, m)) \o Payloads(y)
    <3>1. 1 \in 1..(n + 1) /\ m \in (1 - 1)..n /\ t \in m..n
      BY <1>1, <2>8
    <3>2. x[m].piece # "middle"
      BY <2>4, <2>8
    <3> QED BY <3>1, <3>2, RangeSplit DEF n
  <2>10. y \in Seq(B) /\ \A j \in DOMAIN y : y[j].piece # "middle"
    <3>1. f \in 1..(n + 1) /\ t \in (f - 1)..n
      BY <1>1, <2>8
    <3>2. \A j \in 1..(t - f + 1) : f + j - 1 \in i..(i + d - 1)
      BY <1>1, <2>2, <2>8
    <3> HIDE DEF f
    <3>3. /\ SubSeq(x, f, t) \in Seq(B) /\ Len(SubSeq(x, f, t)) = t - f + 1
          /\ \A j \in 1..(t - f + 1) : SubSeq(x, f, t)[j] = x[f + j - 1]
      BY <1>1, <3>1, PartType DEF n
    <3>4. y = SubSeq(x, f, t)
      BY DEF f
    <3> HIDE DEF y
    <3>5. DOMAIN y = 1..(t - f + 1)
      BY <3>3, <3>4
    <3> QED BY <2>4, <3>2, <3>3, <3>4, <3>5
  <2> HIDE DEF y
  <2>11. Payloads(y) = <<>>
    BY <2>10, PayloadsNothing DEF B
  <2>12. Payloads(SubSeq(x, 1, m)) \o <<>> = Payloads(SubSeq(x, 1, m))
    <3>1. 1 \in 1..(n + 1) /\ m \in (1 - 1)..n
      BY <1>1, <2>8
    <3>2. SubSeq(x, 1, m) \in Seq(B)
      BY <1>1, <3>1, PartType DEF n
    <3>3. Payloads(SubSeq(x, 1, m)) \in Seq(PayloadsOf(s))
      BY <3>2, PayloadsType DEF B
    <3> QED BY <3>3, ConcatEmptySeq
  <2>13. Payloads(SubSeq(x, 1, m)) = Payloads(SubSeq(x, 1, t))
    BY <2>9, <2>11, <2>12
  <2>14. ends # {}
    BY <2>6
  <2> QED BY <2>13, <2>14 DEF ends, m
<1> QED BY <1>4, <1>5

LEMMA NothingWaits ==
  ASSUME BytesInv, LinesInv, lines = <<>>, ~closed, Boundaries(buffer) = {}
  PROVE  Payloads(EventsArrived) = Processed
<1> DEFINE bytes == Encodings[script]
           B == BytesOf(script)
           a == ArrivedLen(script, wire)
           t == TakenLen(script, wire, buffer)
           x == Arrived
           said == Payloads(EventsIn(script, wire, buffer, closed))
<1>1. BytesAre(script, wire, buffer)
  BY InvIs
<1>2. /\ bytes \in Seq(B) /\ a \in 0..Len(bytes) /\ t \in 0..a /\ Len(bytes) \in Nat
      /\ AfterEvent(bytes, t) /\ script \in Scripts
      /\ buffer \in Seq(B) /\ \A i \in 1..Len(buffer) : buffer[i] = bytes[t + i]
  <2>1. AfterEvent(bytes, t) /\ script \in Scripts
    BY <1>1 DEF BytesAre
  <2>2. bytes \in Seq(B) /\ Len(bytes) \in Nat
    BY <2>1, EncodingsType
  <2>3. /\ a \in 0..Len(bytes) /\ t \in 0..a
        /\ buffer \in Seq(B) /\ \A i \in 1..Len(buffer) : buffer[i] = bytes[t + i]
    BY <1>1, BytesFacts
  <2> QED BY <2>1, <2>2, <2>3
<1>3. x \in Seq(B) /\ Len(x) = a /\ \A i \in 1..a : x[i] = bytes[i]
  BY ArrivedIs
<1>4. a = t + Len(buffer) /\ Len(buffer) \in Nat
  <2>1. t = a - Len(buffer)
    BY DEF TakenLen
  <2> HIDE DEF a, t, B
  <2> QED BY <1>2, <2>1
<1>5. said = Payloads(SubSeq(bytes, 1, t))
  BY DEF EventsIn
<1>6. Processed = said
  <2>1. said \in Seq(PayloadsOf(script)) /\ LinesAre(said, lines, heard)
    BY <1>1, EventsType, InvIs
  <2>2. Processed = Done(said, lines)
    BY ProcessedIs
  <2> HIDE DEF said
  <2>3. Done(said, lines) \in Seq(PayloadsOf(script)) /\ said = Done(said, lines) \o lines
    BY <2>1, LinesFacts
  <2>4. Done(said, lines) \o <<>> = Done(said, lines)
    BY <2>3, ConcatEmptySeq
  <2> QED BY <2>2, <2>3, <2>4
<1> HIDE DEF bytes, B, a, t, x, said
<1>7. /\ t \in Nat /\ a \in Nat /\ t \in 0..Len(x)
      /\ \A i \in 1..Len(buffer) : t + i \in 1..a
  BY <1>2, <1>3, <1>4
<1>8. ASSUME NEW i \in 1..(t + 1) PROVE SubSeq(x, i, t) = SubSeq(bytes, i, t)
  <2>1. /\ i \in 1..(Len(x) + 1) /\ t \in (i - 1)..Len(x) /\ 0 + t <= Len(bytes)
        /\ 0 + i = i /\ 0 + t = t /\ 0 \in Nat
        /\ \A j \in i..t : 0 + j = j /\ j \in 1..a
    BY <1>2, <1>3, <1>7
  <2>2. \A j \in i..t : x[j] = bytes[0 + j]
    BY <1>3, <2>1
  <2>3. SubSeq(x, i, t) = SubSeq(bytes, 0 + i, 0 + t)
    BY <1>2, <1>3, <2>1, <2>2, SamePart
  <2> QED BY <2>1, <2>3
<1>9. AfterEvent(x, t)
  <2>1. CASE t = 0
    BY <2>1 DEF AfterEvent
  <2>2. CASE t # 0
    <3>1. PICK d \in {2, 4} : d <= t /\ SubSeq(bytes, t - d + 1, t) \in Delimiters
      BY <1>2, <2>2 DEF AfterEvent
    <3>2. t - d + 1 \in 1..(t + 1)
      BY <1>7, <3>1
    <3> QED BY <1>8, <3>1, <3>2 DEF AfterEvent
  <2> QED BY <2>1, <2>2
<1>10. ASSUME NEW p \in Boundaries(x) PROVE p[1] <= t
  <2>1. p[1] \in Nat
    BY <1>3, BoundaryFacts
  <2>2. ASSUME p[1] > t PROVE FALSE
    <3>1. \A i \in 1..Len(buffer) : buffer[i] = x[t + i]
      BY <1>2, <1>3, <1>7
    <3>2. Len(x) = t + Len(buffer)
      BY <1>3, <1>4
    <3>3. Boundaries(buffer) # {}
      BY <1>2, <1>3, <1>7, <2>2, <3>1, <3>2, BoundaryLater
    <3> QED BY <3>3
  <2> QED BY <1>7, <2>1, <2>2
<1>11. Payloads(EventsArrived) = Payloads(SubSeq(x, 1, t))
  <2>1. x \in Seq(BytesOf(script))
    BY <1>3 DEF B
  <2> DEFINE ends == {b[1] : b \in Boundaries(x)}
  <2>2. Payloads(IF ends = {} THEN <<>> ELSE SubSeq(x, 1, Max(ends))) = Payloads(SubSeq(x, 1, t))
    BY <1>2, <1>7, <1>9, <1>10, <2>1, LastEvent
  <2>3. EventsArrived = IF ends = {} THEN <<>> ELSE SubSeq(x, 1, Max(ends))
    BY DEF EventsArrived, x
  <2> HIDE DEF ends
  <2> QED BY <2>2, <2>3
<1>12. 1 \in 1..(t + 1)
  BY <1>7
<1>13. SubSeq(x, 1, t) = SubSeq(bytes, 1, t)
  BY <1>8, <1>12
<1> QED BY <1>5, <1>6, <1>11, <1>13

(* While the next chunk is waited for, the callback has heard every event  *)
(* that has arrived as a whole (complete_streaming, find_event_boundary).  *)
THEOREM NothingIsHeldBack == Spec => []NothingHeldBack
<1>1. StreamInv => NothingHeldBack
  <2> SUFFICES ASSUME StreamInv, pc = "reading" PROVE heard = Chunks(Payloads(EventsArrived))
    BY DEF NothingHeldBack
  <2>1. BytesInv /\ LinesInv /\ PhaseInv
    BY DEF StreamInv, InAttempt
  <2>2. lines = <<>> /\ ~closed /\ Boundaries(buffer) = {}
    BY <2>1 DEF PhaseInv
  <2>3. Payloads(EventsArrived) = Processed
    BY <2>1, <2>2, NothingWaits
  <2> QED BY <2>1, <2>3 DEF LinesInv
<1> QED BY <1>1, StreamHolds, PTL

---------------------------------------------------------------------------
(* Types: the slots of the assembler are no more than the limit.           *)
LEMMA SlotsBounded ==
  ASSUME NEW calls, NEW deltas, Len(deltas) \in Nat, NEW D, DOMAIN calls \subseteq D,
         \A i \in 1..Len(deltas) : deltas[i].index \in D
  PROVE  DOMAIN IngestDeltas(calls, deltas) \subseteq D
<1> DEFINE n == Len(deltas)
<1>1. PICK after : /\ after = [i \in 0..n |-> IngestStep(calls, deltas, after, i)]
                   /\ IngestDeltas(calls, deltas) = after[n]
  BY IngestDeltasIs
<1>2. \A i \in 0..n : after[i] = IngestStep(calls, deltas, after, i)
  BY <1>1
<1> DEFINE S == {m \in Nat : m <= n => DOMAIN after[m] \subseteq D}
<1> HIDE DEF n
<1>3. n \in Nat
  BY DEF n
<1>4. 0 \in S
  <2>1. after[0] = calls
    BY <1>2, <1>3 DEF IngestStep
  <2> QED BY <2>1
<1>5. ASSUME NEW m \in Nat, m \in S PROVE m + 1 \in S
  <2> SUFFICES ASSUME m + 1 <= n PROVE DOMAIN after[m + 1] \subseteq D
    BY <1>5
  <2>1. m + 1 \in 0..n /\ m + 1 # 0 /\ (m + 1) - 1 = m /\ m <= n /\ m + 1 \in 1..n
    BY <1>3
  <2>2. after[m + 1] = IngestDelta(after[m], deltas[m + 1])
    BY <1>2, <2>1 DEF IngestStep
  <2>3. DOMAIN IngestDelta(after[m], deltas[m + 1]) = DOMAIN after[m] \cup {deltas[m + 1].index}
    BY DEF IngestDelta
  <2>4. DOMAIN after[m] \subseteq D /\ deltas[m + 1].index \in D
    BY <1>5, <2>1 DEF n
  <2> QED BY <2>2, <2>3, <2>4
<1>6. n \in S
  <2> HIDE DEF S
  <2> QED BY <1>3, <1>4, <1>5, SetInduction
<1>7. DOMAIN after[n] \subseteq D
  BY <1>3, <1>6
<1> QED BY <1>1, <1>7 DEF n

LEMMA DeltaIndices ==
  ASSUME NEW s \in Scripts, NEW p \in SaidIn(s), ~IngestFails(StreamChunk(p))
  PROVE  /\ Len(StreamChunk(p).deltas) \in Nat
         /\ \A i \in 1..Len(StreamChunk(p).deltas) :
              StreamChunk(p).deltas[i].index \in 0..(MAX_PARALLEL_TOOL_CALLS - 1)
<1> DEFINE ds == Deltas(p)
           tc == p.tool_calls
<1>1. StreamChunk(p).deltas = ds
  BY DEF StreamChunk
<1>2. CASE tc = None
  <2>1. ds = <<>>
    BY <1>2 DEF Deltas
  <2>2. Len(<<>>) = 0
    OBVIOUS
  <2> QED BY <1>1, <2>1, <2>2
<1>3. CASE tc # None
  <2>1. /\ tc \in Seq(Range(tc))
        /\ \A d \in Range(tc) : DOMAIN d = {"index", "id", "name", "arguments"} /\ d.index \in Nat \cup {None}
    BY <1>3, StreamAssumption
  <2>2. ds = [i \in DOMAIN tc |-> [tc[i] EXCEPT !.index = IF @ = None THEN i - 1 ELSE @]]
    BY <1>3 DEF Deltas
  <2> HIDE DEF tc
  <2>3. DOMAIN tc = 1..Len(tc) /\ Len(tc) \in Nat /\ \A i \in 1..Len(tc) : tc[i] \in Range(tc)
    BY <2>1
  <2>4. DOMAIN ds = 1..Len(tc)
    BY <2>2, <2>3
  <2>5. ASSUME NEW i \in 1..Len(tc) PROVE ds[i].index \in Nat
    <3>1. "index" \in DOMAIN tc[i] /\ tc[i].index \in Nat \cup {None} /\ i - 1 \in Nat
      BY <2>1, <2>3
    <3>2. ds[i] = [tc[i] EXCEPT !.index = IF @ = None THEN i - 1 ELSE @]
      BY <2>2, <2>3
    <3>3. ds[i].index = IF tc[i].index = None THEN i - 1 ELSE tc[i].index
      BY <3>1, <3>2
    <3> QED BY <3>1, <3>3
  <2> HIDE DEF ds
  <2>6. Len(ds) = Len(tc)
    BY <2>2, <2>3, <2>4 DEF ds
  <2>7. \A i \in DOMAIN ds : ~(ds[i].index >= MAX_PARALLEL_TOOL_CALLS)
    BY <1>1 DEF IngestFails
  <2>8. ASSUME NEW i \in 1..Len(ds) PROVE ds[i].index \in 0..(MAX_PARALLEL_TOOL_CALLS - 1)
    <3>1. ds[i].index \in Nat /\ ~(ds[i].index >= MAX_PARALLEL_TOOL_CALLS)
      BY <2>4, <2>5, <2>6, <2>7
    <3> QED BY <3>1, AssemblerAssumption
  <2> QED BY <1>1, <2>3, <2>6, <2>8
<1> QED BY <1>2, <1>3

LEMMA FailsTyped ==
  ASSUME TypeOK, NEW error \in SendErrors \cup {"Malformed"}, Fails(error),
         UNCHANGED <<buffer, assembler, heard, closed>>
  PROVE  TypeOK'
<1>1. attempt' \in 0..Retries
  <2>1. attempt \in 0..Retries /\ Retries \in Nat
    BY StreamAssumption DEF TypeOK
  <2> QED BY <2>1 DEF Fails
<1>2. error \in Kinds /\ error # "reply"
  BY DEF Kinds, SendErrors
<1>3. /\ pc' \in {"over", "delay"} /\ (result' = result \/ result' = Reply(error, None))
      /\ script' = script /\ assembler' = assembler /\ closed' = closed
  BY DEF Fails
<1>4. /\ result'.kind \in Kinds
      /\ IF result'.kind = "reply" THEN DOMAIN result'.reply = ReplyFields ELSE result'.reply = None
  BY <1>2, <1>3 DEF Reply, TypeOK
<1> QED BY <1>1, <1>3, <1>4 DEF TypeOK

LEMMA ReturnsTyped ==
  ASSUME TypeOK, Returns(assembler), UNCHANGED <<buffer, lines, assembler, heard, closed>>
  PROVE  TypeOK'
<1>1. result' = Reply("reply", Finalize(assembler))
  BY DEF Returns
<1>2. DOMAIN Finalize(assembler) = ReplyFields
  BY DEF Finalize, TypeOK
<1>3. result'.kind = "reply" /\ DOMAIN result'.reply = ReplyFields
  BY <1>1, <1>2 DEF Reply
<1> QED BY <1>3 DEF Returns, TypeOK, Kinds

LEMMA DataTyped ==
  ASSUME TypeOK, StreamInv, pc = "event", lines # <<>>, DataLine, UNCHANGED <<buffer, closed>>
  PROVE  TypeOK'
<1> DEFINE p == Head(lines)
           c == StreamChunk(p)
           said == Payloads(EventsIn(script, wire, buffer, closed))
<1>1. BytesAre(script, wire, buffer) /\ LinesAre(said, lines, heard)
  BY InvIs DEF StreamInv, InAttempt
<1>2. script \in Scripts /\ said \in Seq(PayloadsOf(script))
  BY <1>1, BytesFacts, EventsType
<1>3. ParseOutcome(p) = "data" /\ ~Unreadable(p) /\ assembler' = Ingest(assembler, c)
  BY DEF DataLine
<1>4. p \in PayloadsOf(script)
  <2> HIDE DEF said
  <2>1. p.kind # "done"
    BY <1>3 DEF ParseOutcome
  <2> QED BY <1>1, <1>2, <1>3, <2>1, LinesNext
<1>5. p \in SaidIn(script)
  BY <1>2, <1>3, <1>4, CutPayload
<1>6. ~IngestFails(c)
  BY <1>3 DEF Unreadable
<1>7. Len(c.deltas) \in Nat /\ \A i \in 1..Len(c.deltas) : c.deltas[i].index \in 0..(MAX_PARALLEL_TOOL_CALLS - 1)
  BY <1>2, <1>5, <1>6, DeltaIndices
<1> HIDE DEF c
<1>8. DOMAIN IngestDeltas(assembler.tool_calls, c.deltas) \subseteq 0..(MAX_PARALLEL_TOOL_CALLS - 1)
  <2>1. DOMAIN assembler.tool_calls \subseteq 0..(MAX_PARALLEL_TOOL_CALLS - 1)
    BY DEF TypeOK
  <2> QED BY <1>7, <2>1, SlotsBounded
<1>9. DOMAIN assembler' = ReplyFields /\ assembler'.tool_calls = IngestDeltas(assembler.tool_calls, c.deltas)
  BY <1>3 DEF Ingest, ReplyFields
<1>10. UNCHANGED <<pc, attempt, result, script, closed>>
  BY DEF DataLine
<1> QED BY <1>8, <1>9, <1>10 DEF TypeOK

LEMMA TypeStep ==
  ASSUME TypeOK, StreamInv, [Next]_vars
  PROVE  TypeOK'
<1>1. CASE UNCHANGED vars
  BY <1>1 DEF vars, TypeOK
<1>2. CASE Call
  <2>1. 0 \in 0..Retries
    BY StreamAssumption
  <2>2. result'.kind = "none" /\ result'.reply = None
    BY <1>2 DEF Call, Reply
  <2> QED BY <1>2, <2>1, <2>2 DEF Call, TypeOK, Kinds
<1>3. CASE \E error \in SendErrors : SendFails(error)
  BY <1>3, FailsTyped DEF SendFails
<1>4. ASSUME NEW s \in Scripts, Answer(s) PROVE TypeOK'
  <2>1. DOMAIN assembler' = ReplyFields /\ DOMAIN assembler'.tool_calls = {}
    BY <1>4 DEF Answer, NewAssembler, ReplyFields
  <2> QED BY <1>4, <2>1 DEF Answer, TypeOK
<1>5. CASE (\E n \in 1..Len(wire) : Arrives(n)) \/ Process \/ AwaitChunk \/ BodyEnds \/ Retry
  BY <1>5 DEF Arrives, Process, AwaitChunk, BodyEnds, Retry, TypeOK
<1>6. CASE ProcessLine
  <2>1. CASE SkipLine
    BY <1>6, <2>1 DEF ProcessLine, SkipLine, TypeOK
  <2>2. CASE DataLine
    BY <1>6, <2>2, DataTyped DEF ProcessLine
  <2>3. CASE DoneLine
    BY <1>6, <2>3, ReturnsTyped DEF ProcessLine, DoneLine
  <2>4. CASE UnreadableLine
    BY <1>6, <2>4, FailsTyped DEF ProcessLine, UnreadableLine
  <2> QED BY <1>6, <2>1, <2>2, <2>3, <2>4 DEF ProcessLine
<1>7. CASE EventOver
  <2>1. CASE closed
    BY <1>7, <2>1, ReturnsTyped DEF EventOver
  <2>2. CASE ~closed
    BY <1>7, <2>2 DEF EventOver, TypeOK
  <2> QED BY <2>1, <2>2
<1>8. CASE \E error \in {"Timeout", "Connection"} : ReadFails(error)
  <2>1. {"Timeout", "Connection"} \subseteq SendErrors
    BY DEF SendErrors
  <2> QED BY <1>8, <2>1, FailsTyped DEF ReadFails
<1> QED BY <1>1, <1>2, <1>3, <1>4, <1>5, <1>6, <1>7, <1>8 DEF Next, Continue

(* Every variable keeps its type; no more tool calls are assembled than    *)
(* MAX_PARALLEL_TOOL_CALLS, and no more attempts made than the retries.    *)
THEOREM StreamTyped == Spec => []TypeOK
<1>1. Init => TypeOK
  <2>1. 0 \in 0..Retries
    BY StreamAssumption
  <2>2. DOMAIN NewAssembler = ReplyFields /\ DOMAIN NewAssembler.tool_calls = {}
    BY DEF NewAssembler, ReplyFields
  <2>3. Init => result.kind = "none" /\ result.reply = None
    BY DEF Init, Reply
  <2> QED BY <2>1, <2>2, <2>3 DEF Init, TypeOK, Kinds
<1>2. TypeOK /\ StreamInv /\ [Next]_vars => TypeOK'
  BY TypeStep
<1> QED BY <1>1, <1>2, StreamHolds, PTL DEF Spec
=============================================================================
