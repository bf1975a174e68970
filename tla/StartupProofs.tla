---------------------------- MODULE StartupProofs ----------------------------
(***************************************************************************)
(* What a start leaves to the next step, for every environment, .env file, *)
(* command line and set of configuration files.                            *)
(***************************************************************************)
EXTENDS Startup, FiniteSetTheorems, SequenceTheorems, TLAPS

---------------------------------------------------------------------------
(* The least and the greatest element of a set of positions, and induction.*)
LEMMA MinIsLeast ==
  ASSUME NEW S \in SUBSET Nat, S # {}
  PROVE  Min(S) \in S /\ \A y \in S : Min(S) <= y
<1> DEFINE R == OpToRel(<, Nat)
<1>1. \A x, y \in Nat : x < y => <<x, y>> \in R
  BY DEF OpToRel
<1>2. IsWellFoundedOn(R, Nat)
  BY NatLessThanWellFounded
<1> HIDE DEF R
<1>3. PICK x \in S : \A y \in S : ~ (<<y, x>> \in R)
  BY <1>2, WFMin
<1>4. \A y \in S : x <= y
  <2> TAKE y \in S
  <2>1. ~ (y < x)
    BY <1>1, <1>3
  <2> QED BY <2>1
<1> QED BY <1>4 DEF Min

LEMMA MaxIsGreatest ==
  ASSUME NEW n \in Nat, NEW S \in SUBSET (1..n), S # {}
  PROVE  Max(S) \in S /\ \A y \in S : y <= Max(S)
<1> DEFINE U == {k \in Nat : \A y \in S : y <= k}
           m == Min(U)
<1>1. n \in U /\ U \in SUBSET Nat
  OBVIOUS
<1>2. m \in U /\ \A k \in U : m <= k
  <2> HIDE DEF U
  <2> QED BY <1>1, MinIsLeast
<1>3. m \in S
  <2>1. SUFFICES ASSUME m \notin S PROVE FALSE
    OBVIOUS
  <2> HIDE DEF m
  <2>2. m \in Nat /\ \A y \in S : y < m
    BY <1>2, <2>1
  <2>3. m >= 1
    <3>1. PICK y \in S : TRUE
      OBVIOUS
    <3> QED BY <2>2, <3>1
  <2>4. m - 1 \in U
    BY <2>2, <2>3
  <2> QED BY <1>2, <2>2, <2>4
<1> HIDE DEF m
<1>4. \A y \in S : y <= m
  BY <1>2
<1> QED BY <1>3, <1>4 DEF Max

(* A least element is known by its properties.                             *)
LEMMA MinIs ==
  ASSUME NEW S \in SUBSET Nat, NEW m \in S, \A y \in S : m <= y
  PROVE  Min(S) = m
<1>1. Min(S) \in S /\ \A y \in S : Min(S) <= y
  BY MinIsLeast
<1>2. Min(S) <= m /\ m <= Min(S) /\ Min(S) \in Nat
  BY <1>1
<1> QED BY <1>2

(* A set with 0 and every successor holds the naturals.                    *)
LEMMA SetInduction ==
  ASSUME NEW S, 0 \in S, \A n \in Nat : n \in S => n + 1 \in S
  PROVE  Nat \subseteq S
<1> DEFINE R == OpToRel(<, Nat)
           T == Nat \ S
<1>1. \A x, y \in Nat : x < y => <<x, y>> \in R
  BY DEF OpToRel
<1>2. ASSUME T # {} PROVE FALSE
  <2>1. IsWellFoundedOn(R, Nat)
    BY NatLessThanWellFounded
  <2> HIDE DEF R
  <2>2. PICK x \in T : \A y \in T : ~ (<<y, x>> \in R)
    BY <1>2, <2>1, WFMin
  <2>3. x # 0 /\ x - 1 \in Nat /\ x - 1 < x
    OBVIOUS
  <2>4. x - 1 \notin T
    BY <1>1, <2>2, <2>3
  <2>5. (x - 1) + 1 \in S
    BY <2>3, <2>4
  <2> QED BY <2>5, <2>2
<1> QED BY <1>2

(* The same from n down.                                                   *)
LEMMA SuffixInduction ==
  ASSUME NEW n \in Nat, NEW S, n \in S, \A k \in 0..(n - 1) : k + 1 \in S => k \in S
  PROVE  0 \in S
<1> DEFINE T == {m \in Nat : m <= n => n - m \in S}
<1>1. 0 \in T
  OBVIOUS
<1>2. ASSUME NEW m \in Nat, m \in T PROVE m + 1 \in T
  <2>1. SUFFICES ASSUME m + 1 <= n PROVE n - (m + 1) \in S
    OBVIOUS
  <2>2. n - (m + 1) \in 0..(n - 1) /\ (n - (m + 1)) + 1 = n - m
    BY <2>1
  <2>3. n - m \in S
    BY <1>2, <2>1
  <2> QED BY <2>2, <2>3
<1>3. n \in T
  <2> HIDE DEF T
  <2> QED BY <1>1, <1>2, SetInduction
<1> QED BY <1>3

(* The two ends of what Trim leaves.                                       *)
LEMMA TrimLeaves ==
  ASSUME NEW v \in Seq(STRING)
  PROVE  Trim(v) # <<>> <=> \E i \in DOMAIN v : v[i] # Blank
<1> DEFINE solid == {i \in DOMAIN v : v[i] # Blank}
<1>1. Len(v) \in Nat /\ DOMAIN v = 1..Len(v)
  OBVIOUS
<1>2. CASE solid = {}
  BY <1>2 DEF Trim
<1>3. CASE solid # {}
  <2>1. solid \in SUBSET (1..Len(v)) /\ solid \in SUBSET Nat
    BY <1>1
  <2>2. Min(solid) \in 1..Len(v) /\ Max(solid) \in 1..Len(v) /\ Min(solid) <= Max(solid)
    <3> HIDE DEF solid
    <3>1. Min(solid) \in solid /\ \A y \in solid : Min(solid) <= y
      BY <1>3, <2>1, MinIsLeast
    <3>2. Max(solid) \in solid
      BY <1>1, <1>3, <2>1, MaxIsGreatest
    <3> QED BY <2>1, <3>1, <3>2
  <2>3. Trim(v) = SubSeq(v, Min(solid), Max(solid))
    BY <1>3 DEF Trim
  <2>4. Len(SubSeq(v, Min(solid), Max(solid))) = Max(solid) - Min(solid) + 1
    <3> HIDE DEF solid
    <3> QED BY <1>1, <2>2, SubSeqProperties
  <2>5. Trim(v) # <<>>
    <3> HIDE DEF solid
    <3> QED BY <2>2, <2>3, <2>4
  <2> QED BY <1>3, <2>5
<1> QED BY <1>2, <1>3

LEMMA TrimOfNothing == Trim(<<>>) = <<>>
BY DEF Trim

LEMMA WordsOfOne ==
  ASSUME NEW S, NEW w \in S
  PROVE  <<w>> \in Seq(S)
OBVIOUS

LEMMA TrimOfWord ==
  ASSUME NEW w, w # Blank
  PROVE  Trim(<<w>>) = <<w>>
<1>1. {i \in DOMAIN <<w>> : <<w>>[i] # Blank} = {1}
  <2>1. DOMAIN <<w>> = {1} /\ <<w>>[1] = w
    OBVIOUS
  <2> QED BY <2>1
<1>2. Min({1}) = 1 /\ Max({1}) = 1
  BY DEF Min, Max
<1>3. SubSeq(<<w>>, 1, 1) = <<w>>
  <2>1. Len(<<w>>) = 1
    OBVIOUS
  <2>2. <<w>> \in Seq({w})
    BY WordsOfOne
  <2> QED BY <2>1, <2>2, SubSeqFull
<1> QED BY <1>1, <1>2, <1>3 DEF Trim

---------------------------------------------------------------------------
(* The environment after LoadDotenv gives every variable the value that    *)
(* the shell or, for want of it, the first line of .env says.              *)
LEMMA DotenvDefines ==
  ASSUME shell \in Shells, dotenv \in DotEnvs
  PROVE  /\ \A n : n \in DOMAIN WithDotenv <=> IsDefined(n)
         /\ \A n \in DOMAIN WithDotenv :
              WithDotenv[n] = ValueOf(n) /\ WithDotenv[n] \in Seq(STRING)
<1> DEFINE bad == {i \in DOMAIN dotenv : dotenv[i] = Malformed}
           lines == IF bad = {} THEN dotenv ELSE SubSeq(dotenv, 1, Min(bad) - 1)
           Named(n) == {i \in DOMAIN lines : lines[i].name = n}
           Record == [name : STRING, value : Seq(STRING)]
<1>1. /\ dotenv \in Seq(Record \cup {Malformed})
      /\ \A n \in DOMAIN shell : shell[n] \in Seq(STRING)
      /\ Malformed \notin Record
  BY StartupAssumption
<1>2. Len(dotenv) \in Nat /\ DOMAIN dotenv = 1..Len(dotenv)
  BY <1>1
<1>3. DOMAIN lines = LinesBeforeFault /\ \A i \in LinesBeforeFault : lines[i] = dotenv[i]
  <2>1. CASE bad = {}
    <3>1. LinesBeforeFault = DOMAIN dotenv
      BY <1>2, <2>1 DEF LinesBeforeFault
    <3> QED BY <2>1, <3>1
  <2>2. CASE bad # {}
    <3> DEFINE m == Min(bad)
    <3>1. bad \in SUBSET Nat
      BY <1>2
    <3>2. m \in bad /\ \A y \in bad : m <= y
      <4> HIDE DEF bad
      <4> QED BY <2>2, <3>1, MinIsLeast
    <3> HIDE DEF m
    <3>3. m \in 1..Len(dotenv) /\ dotenv[m] = Malformed
      BY <1>2, <3>2
    <3>4. LinesBeforeFault = 1..(m - 1)
      <4>1. ASSUME NEW i \in 1..(m - 1) PROVE i \in LinesBeforeFault
        <5>1. i \in DOMAIN dotenv /\ \A j \in 1..i : j \in DOMAIN dotenv /\ j < m
          BY <1>2, <3>3
        <5>2. \A j \in 1..i : dotenv[j] # Malformed
          BY <1>2, <3>2, <3>3, <5>1
        <5> QED BY <5>1, <5>2 DEF LinesBeforeFault
      <4>2. ASSUME NEW i \in LinesBeforeFault PROVE i \in 1..(m - 1)
        <5>1. i \in 1..Len(dotenv) /\ \A j \in 1..i : dotenv[j] # Malformed
          BY <1>2 DEF LinesBeforeFault
        <5> QED BY <3>3, <5>1
      <4> QED BY <4>1, <4>2
    <3>5. lines = SubSeq(dotenv, 1, m - 1)
      BY <2>2 DEF m
    <3>6. m - 1 \in Nat /\ m - 1 <= Len(dotenv)
      BY <1>2, <3>3
    <3>7. Len(lines) = m - 1 /\ DOMAIN lines = 1..(m - 1)
          /\ \A i \in 1..(m - 1) : lines[i] = dotenv[i]
      <4> HIDE DEF lines
      <4> QED BY <1>1, <1>2, <3>5, <3>6
    <3> QED BY <3>4, <3>7
  <2> QED BY <2>1, <2>2
<1>4. \A i \in LinesBeforeFault : dotenv[i] \in Record /\ i \in Nat
  BY <1>1, <1>2 DEF LinesBeforeFault
<1> HIDE DEF bad, lines
<1>5. DotenvVars = [n \in {lines[i].name : i \in DOMAIN lines} |-> lines[Min(Named(n))].value]
  BY DEF DotenvVars, lines, bad
<1>6. \A n : n \in DOMAIN DotenvVars <=> \E i \in LinesBeforeFault : dotenv[i].name = n
  BY <1>3, <1>5
<1>7. ASSUME NEW n \in DOMAIN DotenvVars, n \notin DOMAIN shell
      PROVE  DotenvVars[n] = ValueOf(n) /\ DotenvVars[n] \in Seq(STRING)
  <2> DEFINE k == Min(Named(n))
  <2>1. Named(n) \in SUBSET Nat /\ Named(n) # {}
    BY <1>3, <1>4, <1>6, <1>7
  <2>2. k \in Named(n) /\ \A y \in Named(n) : k <= y
    <3> HIDE DEF Named
    <3> QED BY <2>1, MinIsLeast
  <2>3. DotenvVars[n] = lines[k].value
    BY <1>5, <1>7
  <2> HIDE DEF k
  <2>4. k \in LinesBeforeFault /\ dotenv[k].name = n /\ lines[k] = dotenv[k]
    BY <1>3, <2>2
  <2> DEFINE First(i) == dotenv[i].name = n /\ \A j \in 1..(i - 1) : dotenv[j].name # n
  <2>5. First(k)
    <3>1. ASSUME NEW j \in 1..(k - 1) PROVE dotenv[j].name # n
      <4>1. j \in LinesBeforeFault
        BY <1>2, <2>4 DEF LinesBeforeFault
      <4>2. j < k /\ j \in Nat /\ k \in Nat
        BY <1>4, <2>4
      <4> QED BY <1>3, <2>2, <4>1, <4>2
    <3> QED BY <2>4, <3>1
  <2>6. ASSUME NEW i \in LinesBeforeFault, First(i) PROVE i = k
    <3>1. i \in Nat /\ k \in Nat /\ i >= 1 /\ k >= 1
      BY <1>2, <2>4 DEF LinesBeforeFault
    <3>2. CASE i < k
      <4>1. i \in 1..(k - 1)
        BY <3>1, <3>2
      <4> QED BY <2>5, <2>6, <4>1
    <3>3. CASE k < i
      <4>1. k \in 1..(i - 1)
        BY <3>1, <3>3
      <4> QED BY <2>4, <2>6, <4>1
    <3> QED BY <3>1, <3>2, <3>3
  <2>7. ValueOf(n) = dotenv[CHOOSE i \in LinesBeforeFault : First(i)].value
    BY <1>7 DEF ValueOf
  <2> HIDE DEF First
  <2>8. (CHOOSE i \in LinesBeforeFault : First(i)) = k
    BY <2>4, <2>5, <2>6
  <2> QED BY <1>4, <2>3, <2>4, <2>7, <2>8
<1>8. \A n : n \in DOMAIN WithDotenv <=> IsDefined(n)
  BY <1>6 DEF WithDotenv, IsDefined
<1>9. ASSUME NEW n \in DOMAIN WithDotenv
      PROVE  WithDotenv[n] = ValueOf(n) /\ WithDotenv[n] \in Seq(STRING)
  <2>1. CASE n \in DOMAIN shell
    BY <1>1, <2>1 DEF WithDotenv, ValueOf
  <2>2. CASE n \notin DOMAIN shell
    <3>1. n \in DOMAIN DotenvVars /\ WithDotenv[n] = DotenvVars[n]
      BY <2>2 DEF WithDotenv
    <3> QED BY <1>7, <2>2, <3>1
  <2> QED BY <2>1, <2>2
<1> QED BY <1>8, <1>9

---------------------------------------------------------------------------
(* Looking up variables, in an environment of texts.                       *)
EnvTyped == \A n \in DOMAIN env : env[n] \in Seq(STRING)

Solid(n) == n \in DOMAIN env /\ Trim(env[n]) # <<>>

(* What is found is not empty, and it is found when a variable is solid.   *)
LEMMA FirstNonEmptyFinds ==
  ASSUME EnvTyped, NEW names, DOMAIN names \subseteq Nat
  PROVE  /\ FirstNonEmpty(names) # <<>>
         /\ FirstNonEmpty(names) = None <=> \A i \in DOMAIN names : ~Solid(names[i])
<1> DEFINE found == {i \in DOMAIN names : names[i] \in DOMAIN env /\ Trim(env[names[i]]) # <<>>}
<1>1. FirstNonEmpty(names) = IF found = {} THEN None ELSE env[names[Min(found)]]
  BY DEF FirstNonEmpty, FirstOf
<1>2. found \in SUBSET Nat
  OBVIOUS
<1>3. None # <<>>
  <2>1. <<>> \in Seq(STRING)
    OBVIOUS
  <2> QED BY <2>1, StartupAssumption
<1>4. ASSUME found # {}
      PROVE  env[names[Min(found)]] # <<>> /\ env[names[Min(found)]] # None
  <2> DEFINE k == Min(found)
  <2>1. k \in found
    <3> HIDE DEF found
    <3> QED BY <1>2, <1>4, MinIsLeast
  <2> HIDE DEF k
  <2>2. env[names[k]] \in Seq(STRING) /\ Trim(env[names[k]]) # <<>>
    BY <2>1 DEF EnvTyped
  <2> QED BY <2>2, TrimOfNothing, StartupAssumption DEF k
<1>5. found = {} <=> \A i \in DOMAIN names : ~Solid(names[i])
  BY DEF Solid
<1> HIDE DEF found
<1> QED BY <1>1, <1>3, <1>4, <1>5

(* Of two variables the first goes before the second.                      *)
LEMMA FirstOfTwo ==
  ASSUME EnvTyped, NEW a, NEW b
  PROVE  FirstNonEmpty(<<a, b>>) = IF Solid(a) THEN env[a] ELSE IF Solid(b) THEN env[b] ELSE None
<1> DEFINE names == <<a, b>>
           found == {i \in DOMAIN names : names[i] \in DOMAIN env /\ Trim(env[names[i]]) # <<>>}
<1>1. FirstNonEmpty(names) = IF found = {} THEN None ELSE env[names[Min(found)]]
  BY DEF FirstNonEmpty, FirstOf
<1>2. DOMAIN names = {1, 2} /\ names[1] = a /\ names[2] = b
  OBVIOUS
<1> HIDE DEF names
<1>3. found \in SUBSET Nat
  BY <1>2
<1>4. (1 \in found <=> Solid(a)) /\ (2 \in found <=> Solid(b)) /\ found \in SUBSET {1, 2}
  BY <1>2 DEF Solid
<1>5. found # {} => Min(found) \in found /\ \A y \in found : Min(found) <= y
  <2> HIDE DEF found
  <2> QED BY <1>3, MinIsLeast
<1> HIDE DEF found
<1>6. FirstNonEmpty(names) = IF Solid(a) THEN env[a] ELSE IF Solid(b) THEN env[b] ELSE None
  <2>1. CASE Solid(a)
    <3>1. Min(found) = 1
      <4> DEFINE k == Min(found)
      <4>1. (k = 1 \/ k = 2) /\ k <= 1
        BY <1>4, <1>5, <2>1
      <4> HIDE DEF k
      <4>2. k = 1
        BY <4>1
      <4> QED BY <4>2 DEF k
    <3> QED BY <1>1, <1>2, <1>4, <2>1, <3>1
  <2>2. CASE ~Solid(a) /\ Solid(b)
    <3>1. Min(found) = 2
      BY <1>4, <1>5, <2>2
    <3> QED BY <1>1, <1>2, <1>4, <2>2, <3>1
  <2>3. CASE ~Solid(a) /\ ~Solid(b)
    <3>1. found = {}
      BY <1>4, <2>3
    <3> QED BY <1>1, <2>3, <3>1
  <2> QED BY <2>1, <2>2, <2>3
<1> QED BY <1>6 DEF names

(* One variable only, and two of which the first that is set counts.       *)
LEMMA FirstOfOne ==
  ASSUME EnvTyped, NEW a
  PROVE  FirstNonEmpty(<<a>>) = IF Solid(a) THEN env[a] ELSE None
<1> DEFINE names == <<a>>
           found == {i \in DOMAIN names : names[i] \in DOMAIN env /\ Trim(env[names[i]]) # <<>>}
<1>1. FirstNonEmpty(names) = IF found = {} THEN None ELSE env[names[Min(found)]]
  BY DEF FirstNonEmpty, FirstOf
<1>2. DOMAIN names = {1} /\ names[1] = a
  OBVIOUS
<1> HIDE DEF names
<1>3. found \in SUBSET Nat /\ found \in SUBSET {1} /\ (1 \in found <=> Solid(a))
  BY <1>2 DEF Solid
<1>4. found # {} => Min(found) \in found
  <2> HIDE DEF found
  <2> QED BY <1>3, MinIsLeast
<1> HIDE DEF found
<1>5. FirstNonEmpty(names) = IF Solid(a) THEN env[a] ELSE None
  <2>1. CASE Solid(a)
    <3>1. Min(found) = 1
      BY <1>3, <1>4, <2>1
    <3> QED BY <1>1, <1>2, <1>3, <2>1, <3>1
  <2>2. CASE ~Solid(a)
    <3>1. found = {}
      BY <1>3, <2>2
    <3> QED BY <1>1, <2>2, <3>1
  <2> QED BY <2>1, <2>2
<1> QED BY <1>5 DEF names

LEMMA FirstSetOfTwo ==
  ASSUME NEW a, NEW b
  PROVE  FirstValue(<<a, b>>) =
           IF a \in DOMAIN env THEN env[a] ELSE IF b \in DOMAIN env THEN env[b] ELSE None
<1> DEFINE names == <<a, b>>
           found == {i \in DOMAIN names : names[i] \in DOMAIN env}
<1>1. FirstValue(names) = IF found = {} THEN None ELSE env[names[Min(found)]]
  BY DEF FirstValue, FirstOf
<1>2. DOMAIN names = {1, 2} /\ names[1] = a /\ names[2] = b
  OBVIOUS
<1> HIDE DEF names
<1>3. found \in SUBSET Nat
  BY <1>2
<1>4. /\ 1 \in found <=> a \in DOMAIN env
      /\ 2 \in found <=> b \in DOMAIN env
      /\ found \in SUBSET {1, 2}
  BY <1>2
<1>5. found # {} => Min(found) \in found /\ \A y \in found : Min(found) <= y
  <2> HIDE DEF found
  <2> QED BY <1>3, MinIsLeast
<1> HIDE DEF found
<1>6. FirstValue(names) =
        IF a \in DOMAIN env THEN env[a] ELSE IF b \in DOMAIN env THEN env[b] ELSE None
  <2>1. CASE a \in DOMAIN env
    <3>1. Min(found) = 1
      <4> DEFINE k == Min(found)
      <4>1. (k = 1 \/ k = 2) /\ k <= 1
        BY <1>4, <1>5, <2>1
      <4> HIDE DEF k
      <4>2. k = 1
        BY <4>1
      <4> QED BY <4>2 DEF k
    <3> QED BY <1>1, <1>2, <1>4, <2>1, <3>1
  <2>2. CASE a \notin DOMAIN env /\ b \in DOMAIN env
    <3>1. Min(found) = 2
      BY <1>4, <1>5, <2>2
    <3> QED BY <1>1, <1>2, <1>4, <2>2, <3>1
  <2>3. CASE a \notin DOMAIN env /\ b \notin DOMAIN env
    <3>1. found = {}
      BY <1>4, <2>3
    <3> QED BY <1>1, <2>3, <3>1
  <2> QED BY <2>1, <2>2, <2>3
<1> QED BY <1>6 DEF names

(* An API key is found when one of its two variables is set.               *)
LEMMA ApiKeyFound ==
  ASSUME EnvTyped, "LOCAL_ROUTER_API_KEY" \in DOMAIN env
  PROVE  FirstValue(ApiKeyVars) # None
<1>1. \A n \in DOMAIN env : env[n] # None
  BY StartupAssumption DEF EnvTyped
<1>2. FirstValue(ApiKeyVars) =
        IF "CMD_PROPOSER_MODEL_API_KEY" \in DOMAIN env THEN env["CMD_PROPOSER_MODEL_API_KEY"]
        ELSE IF "LOCAL_ROUTER_API_KEY" \in DOMAIN env THEN env["LOCAL_ROUTER_API_KEY"] ELSE None
  BY FirstSetOfTwo DEF ApiKeyVars
<1> QED BY <1>1, <1>2

(* A list that is given has an item.                                       *)
LEMMA ListHasItem == \A name, d : d # <<>> => EnvList(name, d) # <<>>
  BY DEF EnvList

LEMMA FoundNotEmpty ==
  ASSUME EnvTyped
  PROVE  \A names \in {BaseUrlVars, ModelNameVars, TokenizerVars} : FirstNonEmpty(names) # <<>>
<1>1. /\ DOMAIN BaseUrlVars \subseteq Nat /\ DOMAIN ModelNameVars \subseteq Nat
      /\ DOMAIN TokenizerVars \subseteq Nat
  BY DEF BaseUrlVars, ModelNameVars, TokenizerVars
<1> QED BY <1>1, FirstNonEmptyFinds

---------------------------------------------------------------------------
(* The overrides replace values by values that are not empty, and touch    *)
(* neither the approvals nor the budgets.                                  *)
LEMMA OverridesKeepValid ==
  ASSUME EnvTyped, NEW c, HasOverridden(c), Valid(c)
  PROVE  /\ Valid(WithCommandLine(WithEnvironment(c)))
         /\ WithCommandLine(WithEnvironment(c)).approval = c.approval
<1> DEFINE e == WithEnvironment(c)
<1>1. \A names \in {BaseUrlVars, ModelNameVars, TokenizerVars} : FirstNonEmpty(names) # <<>>
  BY FoundNotEmpty
<1>2. c.doc_runner.allow_programs # <<>> =>
        EnvList(ProgramsVar, c.doc_runner.allow_programs) # <<>>
  BY ListHasItem
<1>3. /\ e.model.base_url = OrElse(FirstNonEmpty(BaseUrlVars), c.model.base_url)
      /\ e.model.model_name = OrElse(FirstNonEmpty(ModelNameVars), c.model.model_name)
      /\ e.model.tokenizer.path = OrElse(FirstNonEmpty(TokenizerVars), c.model.tokenizer.path)
      /\ e.model.max_context_tokens = c.model.max_context_tokens
      /\ e.doc_runner.allow_programs = EnvList(ProgramsVar, c.doc_runner.allow_programs)
      /\ e.approval = c.approval /\ e.thinking = c.thinking
  BY DEF WithEnvironment, ModelWithEnvironment, HasOverridden
<1> HIDE DEF e
<1>4. Valid(e)
  BY <1>1, <1>2, <1>3 DEF Valid, OrElse
<1>5. {"model", "doc_runner", "search", "approval", "thinking"} \subseteq DOMAIN e
  BY DEF WithEnvironment, HasOverridden, e
<1>6. Valid(WithCommandLine(e)) /\ WithCommandLine(e).approval = e.approval
  BY <1>4, <1>5 DEF Valid, WithCommandLine
<1> QED BY <1>3, <1>6 DEF e

LEMMA DefaultsValid ==
  ASSUME EnvTyped
  PROVE  Valid(DefaultConfig) /\ DefaultConfig.approval.execute_enabled = FALSE
<1>1. \A names \in {BaseUrlVars, ModelNameVars, TokenizerVars} : FirstNonEmpty(names) # <<>>
  BY FoundNotEmpty
<1>2. EnvList(ProgramsVar, DefaultAllowPrograms) # <<>>
  BY ListHasItem DEF DefaultAllowPrograms
<1> DEFINE c == DefaultConfig
<1>3. /\ c.model.base_url = OrElse(FirstNonEmpty(BaseUrlVars), <<"http://localhost:8317/v1">>)
      /\ c.model.model_name = OrElse(FirstNonEmpty(ModelNameVars), <<"qwen3.6-27b">>)
      /\ c.model.tokenizer.path =
           OrElse(FirstNonEmpty(TokenizerVars), <<"~/.local/share/models/qwen/tokenizer.json">>)
      /\ c.model.max_context_tokens = 200000
  BY DEF DefaultConfig, ConfigWith
<1>4. c.doc_runner.allow_programs = EnvList(ProgramsVar, DefaultAllowPrograms)
  BY DEF DefaultConfig, ConfigWith
<1>5. c.approval.execute_enabled = FALSE /\ c.thinking.main_agent = 32768
  <2>1. c.approval = ApprovalSection(NoSettings) /\ c.thinking = ThinkingSection(NoSettings)
    BY DEF DefaultConfig, ConfigWith
  <2>2. \A n, d : Setting(NoSettings, n, d) = d
    BY DEF Setting, NoSettings
  <2>3. ThinkingSection(NoSettings).main_agent = 32768
    BY <2>2 DEF ThinkingSection
  <2>4. ApprovalSection(NoSettings).execute_enabled = FALSE
    <3>1. ApprovalSection(NoSettings).execute_enabled =
            Setting(NoSettings, "approval.execute_enabled", FALSE)
      BY DEF ApprovalSection
    <3> QED BY <2>2, <3>1, Zenon
  <2> QED BY <2>1, <2>3, <2>4
<1> HIDE DEF c
<1>6. Valid(c)
  BY <1>1, <1>2, <1>3, <1>4, <1>5 DEF Valid, OrElse
<1> QED BY <1>5, <1>6 DEF c

(* The environment is what the shell and .env say.                         *)
EnvironmentRead == shell \in Shells /\ dotenv \in DotEnvs /\ env = WithDotenv

LEMMA EnvironmentSays ==
  ASSUME EnvironmentRead
  PROVE  /\ EnvTyped
         /\ \A n : /\ n \in DOMAIN env <=> IsDefined(n)
                   /\ n \in DOMAIN env => env[n] = ValueOf(n) /\ env[n] # None
                   /\ Solid(n) <=> IsGiven(n)
                   /\ Solid(n) => n \in DOMAIN env
<1>1. EnvTyped
  BY DotenvDefines DEF EnvTyped, EnvironmentRead
<1>2. ASSUME NEW n
      PROVE  /\ n \in DOMAIN env <=> IsDefined(n)
             /\ n \in DOMAIN env => env[n] = ValueOf(n) /\ env[n] # None
             /\ Solid(n) <=> IsGiven(n)
             /\ Solid(n) => n \in DOMAIN env
  <2>1. CASE n \in DOMAIN env
    <3>1. env[n] \in Seq(STRING) /\ env[n] = ValueOf(n) /\ IsDefined(n)
      BY <2>1, DotenvDefines DEF EnvironmentRead
    <3>2. env[n] # None
      BY <3>1, StartupAssumption
    <3> QED BY <2>1, <3>1, <3>2, TrimLeaves DEF Solid, IsGiven
  <2>2. CASE n \notin DOMAIN env
    BY <2>2, DotenvDefines DEF Solid, IsGiven, EnvironmentRead
  <2> QED BY <2>1, <2>2
<1> QED BY <1>1, <1>2

(* The file that ResolveConfigPath finds is the one that governs.          *)
LEMMA FoundGoverns ==
  ASSUME EnvironmentRead
  PROVE  Governing = IF cli.config # None THEN cli.config
                     ELSE IF FirstNonEmpty(ConfigVars) # None THEN FirstNonEmpty(ConfigVars)
                     ELSE IF Local \in DOMAIN files THEN Local
                     ELSE IF User \in DOMAIN files THEN User
                     ELSE None
<1> DEFINE a == ConfigVars[1]
           b == ConfigVars[2]
<1>1. EnvTyped
  BY EnvironmentSays
<1>2. \A n : Solid(n) <=> IsGiven(n)
  BY EnvironmentSays
<1>3. ConfigVars = <<a, b>>
  BY DEF ConfigVars
<1> HIDE DEF a, b
<1>4. FirstNonEmpty(ConfigVars) = IF Solid(a) THEN env[a] ELSE IF Solid(b) THEN env[b] ELSE None
  BY <1>1, <1>3, FirstOfTwo
<1>5. \A n : Solid(n) => env[n] = ValueOf(n) /\ env[n] # None
  BY EnvironmentSays
<1>6. Governing =
        CASE cli.config # None -> cli.config
          [] cli.config = None /\ IsGiven(a) -> ValueOf(a)
          [] cli.config = None /\ ~IsGiven(a) /\ IsGiven(b) -> ValueOf(b)
          [] OTHER -> IF Local \in DOMAIN files THEN Local
                      ELSE IF User \in DOMAIN files THEN User ELSE None
  BY DEF Governing, a, b
<1> QED BY <1>2, <1>4, <1>5, <1>6

---------------------------------------------------------------------------
(* FlattenSeq puts sequences together, and element by element.             *)

(* A recursion over 1..n has a solution, and it has the type of its steps. *)
Solves(f, n, D, base, step) ==
  /\ f \in [0..n -> D]
  /\ f[0] = base
  /\ \A i \in 1..n : f[i] = step[i][f[i - 1]]

LEMMA PrefixRecursion ==
  ASSUME NEW D, NEW base \in D, NEW n \in Nat, NEW step \in [1..n -> [D -> D]]
  PROVE  \E f : Solves(f, n, D, base, step)
<1> DEFINE S == {m \in Nat : m <= n => \E f : Solves(f, m, D, base, step)}
<1>1. 0 \in S
  <2>1. Solves([i \in 0..0 |-> base], 0, D, base, step)
    BY DEF Solves
  <2> QED BY <2>1
<1>2. ASSUME NEW m \in Nat, m \in S PROVE m + 1 \in S
  <2>1. SUFFICES ASSUME m + 1 <= n PROVE \E f : Solves(f, m + 1, D, base, step)
    OBVIOUS
  <2>2. PICK f : Solves(f, m, D, base, step)
    BY <1>2, <2>1
  <2>3. f[m] \in D /\ step[m + 1][f[m]] \in D
    BY <2>1, <2>2 DEF Solves
  <2> DEFINE g == [i \in 0..(m + 1) |-> IF i <= m THEN f[i] ELSE step[m + 1][f[m]]]
  <2>4. g \in [0..(m + 1) -> D] /\ g[0] = base
    BY <2>2, <2>3 DEF Solves
  <2>5. ASSUME NEW i \in 1..(m + 1) PROVE g[i] = step[i][g[i - 1]]
    <3>1. g[i - 1] = f[i - 1]
      OBVIOUS
    <3>2. CASE i = m + 1
      BY <3>1, <3>2
    <3>3. CASE i \in 1..m
      BY <2>2, <3>1, <3>3 DEF Solves
    <3> QED BY <3>2, <3>3
  <2> HIDE DEF g
  <2> QED BY <2>4, <2>5 DEF Solves
<1>3. n \in S
  <2> HIDE DEF S
  <2> QED BY <1>1, <1>2, SetInduction
<1> QED BY <1>3

---------------------------------------------------------------------------
(* FlattenSeq: f[n] is the first n sequences put together.                 *)
PrefixFold(f, ss, X) ==
  /\ f \in [0..Len(ss) -> Seq(X)]
  /\ f[0] = <<>>
  /\ \A n \in 1..Len(ss) : f[n] = f[n - 1] \o ss[n]

LEMMA PrefixesExist ==
  ASSUME NEW X, NEW ss \in Seq(Seq(X))
  PROVE  \E f : PrefixFold(f, ss, X)
<1> DEFINE step == [n \in 1..Len(ss) |-> [s \in Seq(X) |-> s \o ss[n]]]
<1>1. Len(ss) \in Nat /\ \A n \in 1..Len(ss) : ss[n] \in Seq(X)
  OBVIOUS
<1>2. step \in [1..Len(ss) -> [Seq(X) -> Seq(X)]]
  BY <1>1, ConcatProperties
<1>3. \A n \in 1..Len(ss) : \A s \in Seq(X) : step[n][s] = s \o ss[n]
  OBVIOUS
<1>4. <<>> \in Seq(X)
  OBVIOUS
<1> HIDE DEF step
<1>5. PICK f : Solves(f, Len(ss), Seq(X), <<>>, step)
  BY <1>1, <1>2, <1>4, PrefixRecursion
<1>6. \A n \in 1..Len(ss) : n - 1 \in 0..Len(ss)
  BY <1>1
<1>7. PrefixFold(f, ss, X)
  BY <1>3, <1>5, <1>6 DEF Solves, PrefixFold
<1> QED BY <1>7

FlattenStep(ss, F, i) == IF i = 1 THEN ss[i] ELSE F[i - 1] \o ss[i]

LEMMA FlattenIsLastPrefix ==
  ASSUME NEW X, NEW ss \in Seq(Seq(X)), NEW f, PrefixFold(f, ss, X)
  PROVE  FlattenSeq(ss) = f[Len(ss)] /\ FlattenSeq(ss) \in Seq(X)
<1> DEFINE n == Len(ss)
<1>1. n \in Nat /\ \A i \in 1..n : ss[i] \in Seq(X)
  OBVIOUS
<1>2. f \in [0..n -> Seq(X)] /\ f[0] = <<>> /\ \A i \in 1..n : f[i] = f[i - 1] \o ss[i]
  BY DEF PrefixFold
<1>3. CASE n = 0
  <2>1. ss = <<>>
    BY <1>3
  <2>2. FlattenSeq(ss) = ss
    BY <1>3 DEF FlattenSeq
  <2> QED BY <1>2, <1>3, <2>1, <2>2
<1>4. CASE n # 0
  <2>1. f[1] = ss[1]
    <3>0. 1 \in 1..n /\ 1 - 1 = 0
      BY <1>1, <1>4
    <3>1. f[1] = f[0] \o ss[1] /\ ss[1] \in Seq(X)
      BY <1>1, <1>2, <3>0
    <3> QED BY <1>2, <3>1, ConcatEmptySeq
  <2>2. \E F : F = [i \in 1..n |-> FlattenStep(ss, F, i)]
    <3> DEFINE F == [i \in 1..n |-> f[i]]
    <3>1. ASSUME NEW i \in 1..n PROVE F[i] = FlattenStep(ss, F, i)
      <4>1. CASE i = 1
        BY <2>1, <4>1 DEF FlattenStep
      <4>2. CASE i # 1
        <5>1. i - 1 \in 1..n
          BY <1>1, <4>2
        <5> QED BY <1>2, <4>2, <5>1 DEF FlattenStep
      <4> QED BY <4>1, <4>2
    <3> QED BY <3>1
  <2>3. PICK F : F = [i \in 1..n |-> FlattenStep(ss, F, i)] /\ FlattenSeq(ss) = F[n]
    BY <1>4, <2>2 DEF FlattenSeq, FlattenStep
  <2>4. \A i \in 1..n : F[i] = FlattenStep(ss, F, i)
    BY <2>3
  <2> DEFINE S == {m \in Nat : m + 1 <= n => F[m + 1] = f[m + 1]}
  <2>5. 0 \in S
    <3>1. 1 \in 1..n
      BY <1>1, <1>4
    <3> QED BY <2>1, <2>4, <3>1 DEF FlattenStep
  <2>6. ASSUME NEW m \in Nat, m \in S PROVE m + 1 \in S
    <3>1. SUFFICES ASSUME (m + 1) + 1 <= n PROVE F[(m + 1) + 1] = f[(m + 1) + 1]
      OBVIOUS
    <3>2. /\ (m + 1) + 1 \in 1..n /\ m + 1 <= n
          /\ ((m + 1) + 1) - 1 = m + 1 /\ (m + 1) + 1 # 1
      BY <1>1, <3>1
    <3>3. F[m + 1] = f[m + 1]
      BY <2>6, <3>2
    <3>4. F[(m + 1) + 1] = F[m + 1] \o ss[(m + 1) + 1]
      BY <2>4, <3>2 DEF FlattenStep
    <3>5. f[(m + 1) + 1] = f[m + 1] \o ss[(m + 1) + 1]
      BY <1>2, <3>2
    <3> QED BY <3>3, <3>4, <3>5
  <2>7. n - 1 \in S
    <3>1. n - 1 \in Nat
      BY <1>1, <1>4
    <3> HIDE DEF S
    <3> QED BY <2>5, <2>6, <3>1, SetInduction
  <2>8. F[n] = f[n]
    BY <1>1, <1>4, <2>7
  <2> QED BY <1>1, <1>2, <2>3, <2>8
<1> QED BY <1>3, <1>4

LEMMA FlattenType ==
  ASSUME NEW X, NEW ss \in Seq(Seq(X))
  PROVE  FlattenSeq(ss) \in Seq(X)
BY PrefixesExist, FlattenIsLastPrefix

LEMMA FlattenConcat ==
  ASSUME NEW X, NEW a \in Seq(Seq(X)), NEW b \in Seq(Seq(X))
  PROVE  FlattenSeq(a \o b) = FlattenSeq(a) \o FlattenSeq(b)
<1> DEFINE c == a \o b
           p == Len(a)
           q == Len(b)
<1>1. /\ c \in Seq(Seq(X)) /\ p \in Nat /\ q \in Nat /\ Len(c) = p + q
      /\ \A i \in 1..p : c[i] = a[i]
      /\ \A i \in 1..q : c[p + i] = b[i]
      /\ \A i \in 1..q : b[i] \in Seq(X)
  OBVIOUS
<1> HIDE DEF c
<1>2. PICK f : PrefixFold(f, c, X)
  BY <1>1, PrefixesExist
<1>3. PICK g : PrefixFold(g, b, X)
  BY PrefixesExist
<1>4. /\ f \in [0..(p + q) -> Seq(X)] /\ f[0] = <<>>
      /\ \A i \in 1..(p + q) : f[i] = f[i - 1] \o c[i]
  BY <1>1, <1>2 DEF PrefixFold
<1>5. /\ g \in [0..q -> Seq(X)] /\ g[0] = <<>>
      /\ \A i \in 1..q : g[i] = g[i - 1] \o b[i]
  BY <1>3 DEF PrefixFold
<1>6. FlattenSeq(a) = f[p]
  <2> DEFINE h == [i \in 0..p |-> f[i]]
  <2>1. PrefixFold(h, a, X)
    <3>1. h \in [0..p -> Seq(X)] /\ h[0] = <<>>
      BY <1>1, <1>4
    <3>2. ASSUME NEW i \in 1..p PROVE h[i] = h[i - 1] \o a[i]
      <4>1. i \in 0..p /\ i - 1 \in 0..p /\ i \in 1..(p + q)
        BY <1>1
      <4>2. h[i] = f[i] /\ h[i - 1] = f[i - 1]
        BY <4>1
      <4>3. f[i] = f[i - 1] \o c[i] /\ c[i] = a[i]
        BY <1>1, <1>4, <4>1
      <4> HIDE DEF h
      <4> QED BY <4>2, <4>3
    <3> QED BY <3>1, <3>2 DEF PrefixFold
  <2>2. h[p] = f[p]
    BY <1>1
  <2> HIDE DEF h
  <2> QED BY <2>1, <2>2, FlattenIsLastPrefix
<1> DEFINE P(m) == m <= q => f[p + m] = f[p] \o g[m]
           S == {m \in Nat : P(m)}
<1>7. P(0)
  <2>1. f[p] \in Seq(X) /\ p + 0 = p
    BY <1>1, <1>4
  <2>2. f[p] \o <<>> = f[p]
    BY <2>1, ConcatEmptySeq
  <2> QED BY <1>5, <2>1, <2>2
<1>8. ASSUME NEW m \in Nat, P(m) PROVE P(m + 1)
  <2>1. SUFFICES ASSUME m + 1 <= q PROVE f[p + (m + 1)] = f[p] \o g[m + 1]
    BY Zenon
  <2> HIDE DEF p, q
  <2>2. /\ m + 1 \in 1..q /\ (m + 1) - 1 = m /\ m \in 0..q /\ p + (m + 1) \in 1..(p + q)
        /\ (p + (m + 1)) - 1 = p + m /\ p \in 0..(p + q)
    BY <1>1, <2>1
  <2>3. f[p + m] = f[p] \o g[m]
    <3>1. m <= q
      BY <1>1, <2>1
    <3> QED BY <1>8, <3>1
  <2>4. f[p + (m + 1)] = f[p + m] \o b[m + 1]
    BY <1>1, <1>4, <2>2
  <2>5. g[m + 1] = g[m] \o b[m + 1]
    BY <1>5, <2>2
  <2>6. f[p] \in Seq(X) /\ g[m] \in Seq(X) /\ b[m + 1] \in Seq(X)
    BY <1>1, <1>4, <1>5, <2>2
  <2>7. (f[p] \o g[m]) \o b[m + 1] = f[p] \o (g[m] \o b[m + 1])
    <3>1. \A s, t, u \in Seq(X) : (s \o t) \o u = s \o (t \o u)
      BY ConcatAssociative, SMTT(30)
    <3> QED BY <2>6, <3>1, Zenon
  <2> QED BY <2>3, <2>4, <2>5, <2>7
<1>9. P(q)
  <2> HIDE DEF P
  <2>1. 0 \in S /\ \A m \in Nat : m \in S => m + 1 \in S
    BY <1>7, <1>8
  <2>2. Nat \subseteq S
    <3> HIDE DEF S
    <3> QED BY <2>1, SetInduction
  <2> QED BY <1>1, <2>2
<1>10. f[p + q] = f[p] \o g[q]
  <2>1. q <= q
    BY <1>1
  <2> QED BY <1>9, <2>1, Zenon
<1>11. FlattenSeq(b) = g[q]
  BY <1>3, FlattenIsLastPrefix
<1>12. FlattenSeq(c) = f[p + q]
  BY <1>1, <1>2, FlattenIsLastPrefix
<1> QED BY <1>6, <1>10, <1>11, <1>12 DEF c

(* Sequences of sequences made from a sequence, element by element.        *)
Mapped(F, s) == FlattenSeq([k \in DOMAIN s |-> F[s[k]]])

LEMMA ConcatIs ==
  ASSUME NEW Z
  PROVE  \A a, b, c \in Seq(Z) :
           /\ Len(c) = Len(a) + Len(b)
           /\ \A i \in 1..Len(a) : c[i] = a[i]
           /\ \A i \in 1..Len(b) : c[Len(a) + i] = b[i]
           => c = a \o b
<1> SUFFICES ASSUME NEW a \in Seq(Z), NEW b \in Seq(Z), NEW c \in Seq(Z),
                    Len(c) = Len(a) + Len(b),
                    \A i \in 1..Len(a) : c[i] = a[i],
                    \A i \in 1..Len(b) : c[Len(a) + i] = b[i]
             PROVE  c = a \o b
  OBVIOUS
<1> DEFINE d == a \o b
<1>1. /\ d \in Seq(Z) /\ Len(d) = Len(a) + Len(b) /\ Len(a) \in Nat /\ Len(b) \in Nat
      /\ \A i \in 1..(Len(a) + Len(b)) : d[i] = IF i <= Len(a) THEN a[i] ELSE b[i - Len(a)]
  BY ConcatProperties
<1> HIDE DEF d
<1>2. ASSUME NEW i \in 1..Len(c) PROVE c[i] = d[i]
  <2>1. CASE i <= Len(a)
    BY <1>1, <2>1
  <2>2. CASE ~(i <= Len(a))
    <3>1. i - Len(a) \in 1..Len(b) /\ Len(a) + (i - Len(a)) = i
      BY <1>1, <2>2
    <3>2. c[Len(a) + (i - Len(a))] = b[i - Len(a)]
      BY <3>1
    <3> QED BY <1>1, <2>2, <3>1, <3>2
  <2> QED BY <2>1, <2>2
<1>3. Len(c) = Len(d)
  BY <1>1
<1>4. c = d
  BY <1>1, <1>2, <1>3, SeqEqual
<1> QED BY <1>4 DEF d

LEMMA MappedType ==
  ASSUME NEW X, NEW Y, NEW F \in [X -> Seq(Y)], NEW s \in Seq(X)
  PROVE  /\ [k \in DOMAIN s |-> F[s[k]]] \in Seq(Seq(Y))
         /\ Len([k \in DOMAIN s |-> F[s[k]]]) = Len(s)
         /\ Mapped(F, s) \in Seq(Y)
<1> DEFINE a == [k \in DOMAIN s |-> F[s[k]]]
<1>1. Len(s) \in Nat /\ DOMAIN s = 1..Len(s) /\ \A k \in 1..Len(s) : s[k] \in X
  OBVIOUS
<1>2. \A k \in 1..Len(s) : F[s[k]] \in Seq(Y)
  BY <1>1
<1>3. a \in Seq(Seq(Y)) /\ Len(a) = Len(s)
  BY <1>1, <1>2
<1> HIDE DEF a
<1>4. FlattenSeq(a) \in Seq(Y)
  BY <1>3, FlattenType
<1> QED BY <1>3, <1>4 DEF Mapped, a

LEMMA MappedConcat ==
  ASSUME NEW X, NEW Y, NEW F \in [X -> Seq(Y)], NEW s \in Seq(X), NEW t \in Seq(X)
  PROVE  Mapped(F, s \o t) = Mapped(F, s) \o Mapped(F, t)
<1> DEFINE a == [k \in DOMAIN s |-> F[s[k]]]
           b == [k \in DOMAIN t |-> F[t[k]]]
           st == s \o t
           c == [k \in DOMAIN st |-> F[st[k]]]
           m == Len(s)
           n == Len(t)
<1>1. /\ Len(st) = m + n /\ st \in Seq(X)
      /\ DOMAIN s = 1..m /\ DOMAIN t = 1..n /\ DOMAIN st = 1..(m + n)
      /\ \A k \in 1..(m + n) : st[k] = IF k <= m THEN s[k] ELSE t[k - m]
  BY ConcatProperties
<1>0. m \in Nat /\ n \in Nat
  OBVIOUS
<1> HIDE DEF st
<1>2. /\ a \in Seq(Seq(Y)) /\ b \in Seq(Seq(Y)) /\ c \in Seq(Seq(Y))
      /\ Len(a) = m /\ Len(b) = n /\ Len(c) = m + n
  BY <1>1, MappedType
<1>3. /\ \A k \in 1..m : a[k] = F[s[k]]
      /\ \A k \in 1..n : b[k] = F[t[k]]
      /\ \A k \in 1..(m + n) : c[k] = F[st[k]]
  BY <1>1
<1> HIDE DEF a, b, c, m, n
<1>5. ASSUME NEW i \in 1..m PROVE c[i] = a[i]
  <2>1. i \in 1..(m + n) /\ i <= m
    BY <1>0
  <2>2. c[i] = F[st[i]] /\ st[i] = s[i] /\ a[i] = F[s[i]]
    BY <1>1, <1>3, <2>1
  <2> QED BY <2>2
<1>6. ASSUME NEW i \in 1..n PROVE c[m + i] = b[i]
  <2> DEFINE j == m + i
  <2>1. j \in 1..(m + n) /\ ~(j <= m) /\ j - m = i
    BY <1>0
  <2> HIDE DEF j
  <2>2. c[j] = F[st[j]] /\ st[j] = t[i] /\ b[i] = F[t[i]]
    BY <1>1, <1>3, <2>1
  <2> QED BY <2>2 DEF j
<1>7. c = a \o b
  <2>1. \A i \in 1..Len(a) : c[i] = a[i]
    BY <1>2, <1>5
  <2>2. \A i \in 1..Len(b) : c[Len(a) + i] = b[i]
    BY <1>2, <1>6
  <2>3. Len(c) = Len(a) + Len(b)
    BY <1>2
  <2>4. a \in Seq(Seq(Y)) /\ b \in Seq(Seq(Y)) /\ c \in Seq(Seq(Y))
    BY <1>2
  <2> DEFINE Z == Seq(Y)
  <2> HIDE DEF Z
  <2>5. a \in Seq(Z) /\ b \in Seq(Z) /\ c \in Seq(Z)
    BY <2>4 DEF Z
  <2>6. \A u, v, w \in Seq(Z) :
          /\ Len(w) = Len(u) + Len(v)
          /\ \A i \in 1..Len(u) : w[i] = u[i]
          /\ \A i \in 1..Len(v) : w[Len(u) + i] = v[i]
          => w = u \o v
    BY ConcatIs, Zenon
  <2> QED BY <2>1, <2>2, <2>3, <2>5, <2>6, Zenon
<1>8. FlattenSeq(a \o b) = FlattenSeq(a) \o FlattenSeq(b)
  BY <1>2, FlattenConcat
<1> QED BY <1>7, <1>8 DEF Mapped, a, b, c, st

LEMMA FlattenOne ==
  ASSUME NEW s
  PROVE  FlattenSeq(<<s>>) = s
<1> DEFINE f == <<s>>
           Body(F, i) == IF i = 1 THEN f[i] ELSE F[i - 1] \o f[i]
<1>1. Len(f) = 1 /\ f[1] = s
  OBVIOUS
<1> HIDE DEF f
<1>2. \E F : F = [i \in 1..1 |-> Body(F, i)]
  <2> DEFINE F == [i \in 1..1 |-> s]
  <2>1. F = [i \in 1..1 |-> Body(F, i)]
    BY <1>1
  <2> HIDE DEF F
  <2> QED BY <2>1
<1>3. PICK F : F = [i \in 1..1 |-> Body(F, i)] /\ FlattenSeq(f) = F[1]
  BY <1>1, <1>2 DEF FlattenSeq
<1>4. FlattenSeq(f) = s
  BY <1>1, <1>3
<1> QED BY <1>4 DEF f

LEMMA MappedNothing ==
  ASSUME NEW F
  PROVE  Mapped(F, <<>>) = <<>>
<1> DEFINE m == [k \in DOMAIN <<>> |-> F[<<>>[k]]]
<1>1. m = <<>>
  OBVIOUS
<1>2. FlattenSeq(<<>>) = <<>>
  BY DEF FlattenSeq
<1> QED BY <1>1, <1>2 DEF Mapped

---------------------------------------------------------------------------
(* What is left of a sequence after its first k.                           *)
After(t, k) == SubSeq(t, k + 1, Len(t))

LEMMA AfterIs ==
  ASSUME NEW X, NEW t \in Seq(X), NEW k \in 0..Len(t)
  PROVE  /\ After(t, k) \in Seq(X) /\ Len(After(t, k)) = Len(t) - k
         /\ \A i \in 1..(Len(t) - k) : After(t, k)[i] = t[i + k]
<1>1. Len(t) \in Nat /\ k \in Nat /\ \A i \in (k + 1)..Len(t) : t[i] \in X
  OBVIOUS
<1>2. /\ After(t, k) \in Seq(X)
      /\ Len(After(t, k)) = IF k + 1 <= Len(t) THEN Len(t) - (k + 1) + 1 ELSE 0
      /\ \A i \in 1..(Len(t) - (k + 1) + 1) : After(t, k)[i] = t[(k + 1) + i - 1]
  BY <1>1, SubSeqProperties DEF After
<1> HIDE DEF After
<1>3. \A i \in 1..(Len(t) - k) : (k + 1) + i - 1 = i + k
  BY <1>1
<1>4. Len(t) - (k + 1) + 1 = Len(t) - k /\ (k + 1 <= Len(t) \/ Len(t) - k = 0)
  BY <1>1
<1>5. Len(After(t, k)) = Len(t) - k
  BY <1>2, <1>4, <1>1
<1> QED BY <1>1, <1>2, <1>3, <1>4, <1>5

(* What is left of a sequence begins with its next element.                *)
LEMMA AfterNext ==
  ASSUME NEW X, NEW s \in Seq(X), NEW k \in 0..(Len(s) - 1)
  PROVE  /\ After(s, k) = <<s[k + 1]>> \o After(s, k + 1)
         /\ After(s, k) # <<>> /\ s[k + 1] \in X
         /\ After(After(s, k), 1) = After(s, k + 1)
<1> DEFINE a == After(s, k)
           b == After(s, k + 1)
           x == s[k + 1]
           c == After(a, 1)
           L == Len(s)
<1>1. L \in Nat /\ k \in Nat /\ k + 1 \in 0..L /\ k \in 0..L /\ k + 1 \in 1..L
  OBVIOUS
<1>2. a \in Seq(X) /\ Len(a) = L - k /\ \A i \in 1..(L - k) : a[i] = s[i + k]
  BY <1>1, AfterIs
<1>3. b \in Seq(X) /\ Len(b) = L - (k + 1) /\ \A i \in 1..(L - (k + 1)) : b[i] = s[i + (k + 1)]
  <2> DEFINE q == k + 1
  <2>1. q \in 0..Len(s)
    BY <1>1
  <2> HIDE DEF q
  <2>2. After(s, q) \in Seq(X) /\ Len(After(s, q)) = Len(s) - q
        /\ \A i \in 1..(Len(s) - q) : After(s, q)[i] = s[i + q]
    BY <2>1, AfterIs
  <2> QED BY <2>2 DEF q
<1>4. x \in X
  BY <1>1
<1> HIDE DEF a, b
<1>5. c \in Seq(X) /\ Len(c) = Len(a) - 1 /\ \A i \in 1..(Len(a) - 1) : c[i] = a[i + 1]
  <2> DEFINE q == 1
  <2>1. q \in 0..Len(a)
    BY <1>1, <1>2
  <2> HIDE DEF q
  <2>2. After(a, q) \in Seq(X) /\ Len(After(a, q)) = Len(a) - q
        /\ \A i \in 1..(Len(a) - q) : After(a, q)[i] = a[i + q]
    BY <1>2, <2>1, AfterIs
  <2> QED BY <2>2 DEF q
<1> HIDE DEF c
<1>6. c = b
  <2>1. Len(c) = Len(b)
    BY <1>1, <1>2, <1>3, <1>5
  <2>2. \A i \in 1..Len(c) : c[i] = b[i]
    <3> TAKE i \in 1..Len(c)
    <3>1. i + 1 \in 1..(L - k) /\ (i + 1) + k = i + (k + 1) /\ i \in 1..(L - (k + 1)) /\ i \in 1..(Len(a) - 1)
      BY <1>1, <1>2, <1>5
    <3> QED BY <1>2, <1>3, <1>5, <3>1
  <2> QED BY <1>3, <1>5, <2>1, <2>2, SeqEqual
<1> DEFINE u == <<x>>
<1>7. u \in Seq(X) /\ Len(u) = 1 /\ u[1] = x
  BY <1>4
<1> HIDE DEF u, x
<1>8. a = u \o b
  <2>1. Len(a) = Len(u) + Len(b)
    BY <1>1, <1>2, <1>3, <1>7
  <2>2. \A i \in 1..Len(u) : a[i] = u[i]
    <3>1. \A i \in 1..Len(u) : i = 1
      BY <1>7
    <3>2. a[1] = s[1 + k] /\ 1 + k = k + 1
      BY <1>1, <1>2
    <3> QED BY <1>7, <3>1, <3>2 DEF x
  <2>3. \A i \in 1..Len(b) : a[Len(u) + i] = b[i]
    <3> TAKE i \in 1..Len(b)
    <3>1. Len(u) + i \in 1..(L - k) /\ (Len(u) + i) + k = i + (k + 1) /\ i \in 1..(L - (k + 1))
      BY <1>1, <1>3, <1>7
    <3> QED BY <1>2, <1>3, <3>1
  <2> QED BY <1>2, <1>3, <1>7, <2>1, <2>2, <2>3, ConcatIs
<1>9. a # <<>>
  BY <1>1, <1>2
<1> QED BY <1>4, <1>6, <1>8, <1>9 DEF a, b, c, u, x

LEMMA AfterAll ==
  ASSUME NEW X, NEW s \in Seq(X)
  PROVE  After(s, 0) = s /\ After(s, Len(s)) = <<>>
<1>1. After(s, 0) = s
  <2> DEFINE k == 0
  <2>1. k = 0 /\ k + 1 = 1
    OBVIOUS
  <2> HIDE DEF k
  <2>2. After(s, k) = s
    BY <2>1, SubSeqFull DEF After
  <2> QED BY <2>2 DEF k
<1>2. After(s, Len(s)) = <<>>
  <2> DEFINE k == Len(s)
  <2>1. k \in 0..Len(s) /\ Len(s) - k = 0
    OBVIOUS
  <2> HIDE DEF k
  <2>2. After(s, k) \in Seq(X) /\ Len(After(s, k)) = 0
    BY <2>1, AfterIs
  <2>3. After(s, k) = <<>>
    BY <2>2, EmptySeq
  <2> QED BY <2>3 DEF k
<1> QED BY <1>1, <1>2

(* Of two texts one after the other, what is after a part of the first.    *)
LEMMA AfterConcat ==
  ASSUME NEW X, NEW a \in Seq(X), NEW b \in Seq(X), NEW k \in 0..Len(a)
  PROVE  After(a \o b, k) = After(a, k) \o b
<1> DEFINE t == a \o b
           u == After(t, k)
           v == After(a, k)
           w == v \o b
<1>1. Len(a) \in Nat /\ Len(b) \in Nat /\ k \in Nat /\ k <= Len(a)
  OBVIOUS
<1>2. /\ t \in Seq(X) /\ Len(t) = Len(a) + Len(b)
      /\ \A i \in 1..(Len(a) + Len(b)) : t[i] = IF i <= Len(a) THEN a[i] ELSE b[i - Len(a)]
  BY ConcatProperties
<1> HIDE DEF t
<1>3. u \in Seq(X) /\ Len(u) = Len(t) - k /\ \A i \in 1..(Len(t) - k) : u[i] = t[i + k]
  <2>1. k \in 0..Len(t)
    BY <1>1, <1>2
  <2> QED BY <1>2, <2>1, AfterIs
<1>4. v \in Seq(X) /\ Len(v) = Len(a) - k /\ \A i \in 1..(Len(a) - k) : v[i] = a[i + k]
  BY AfterIs
<1> HIDE DEF u, v
<1>5. /\ w \in Seq(X) /\ Len(w) = Len(v) + Len(b)
      /\ \A i \in 1..(Len(v) + Len(b)) : w[i] = IF i <= Len(v) THEN v[i] ELSE b[i - Len(v)]
  BY <1>4, ConcatProperties
<1> HIDE DEF w
<1>6. \A i \in 1..Len(u) : u[i] = w[i]
  <2> TAKE i \in 1..Len(u)
  <2>1. i \in 1..(Len(t) - k) /\ i \in 1..(Len(v) + Len(b)) /\ i + k \in 1..(Len(a) + Len(b))
    <3> DEFINE p == Len(a)
               q == Len(b)
    <3> HIDE DEF p, q
    <3>1. /\ Len(t) = p + q /\ Len(u) = (p + q) - k /\ Len(v) = p - k
          /\ p \in Nat /\ q \in Nat /\ k \in 0..p
      BY <1>1, <1>2, <1>3, <1>4 DEF p, q
    <3>2. i \in 1..((p + q) - k)
      BY <3>1
    <3>3. i \in 1..((p - k) + q) /\ i + k \in 1..(p + q)
      BY <3>1, <3>2
    <3> QED BY <3>1, <3>2, <3>3 DEF p, q
  <2>2. CASE i <= Len(v)
    <3>1. i \in 1..(Len(a) - k) /\ i + k <= Len(a)
      BY <1>1, <1>4, <2>1, <2>2
    <3> QED BY <1>2, <1>3, <1>4, <1>5, <2>1, <2>2, <3>1
  <2>3. CASE ~(i <= Len(v))
    <3>1. ~(i + k <= Len(a)) /\ (i + k) - Len(a) = i - Len(v)
      BY <1>1, <1>4, <2>1, <2>3
    <3> QED BY <1>2, <1>3, <1>5, <2>1, <2>3, <3>1
  <2> QED BY <2>2, <2>3
<1>7. Len(u) = Len(w)
  BY <1>1, <1>2, <1>3, <1>4, <1>5
<1>8. u = w
  BY <1>3, <1>5, <1>6, <1>7, SeqEqual
<1> QED BY <1>8 DEF u, v, w, t

LEMMA AfterFirst ==
  ASSUME NEW X, NEW a \in Seq(X), NEW b \in Seq(X)
  PROVE  After(a \o b, Len(a)) = b
<1> DEFINE k == Len(a)
<1>1. k \in 0..Len(a)
  OBVIOUS
<1>2. After(a, k) = <<>>
  BY AfterAll
<1> HIDE DEF k
<1>3. After(a \o b, k) = After(a, k) \o b
  BY <1>1, AfterConcat
<1>4. <<>> \o b = b
  BY ConcatEmptySeq
<1> QED BY <1>2, <1>3, <1>4 DEF k

(* Element by element, the first one before the others.                    *)
LEMMA MappedNext ==
  ASSUME NEW X, NEW Y, NEW F \in [X -> Seq(Y)], NEW s \in Seq(X), NEW k \in 0..(Len(s) - 1)
  PROVE  Mapped(F, After(s, k)) = F[s[k + 1]] \o Mapped(F, After(s, k + 1))
<1> DEFINE x == s[k + 1]
           u == <<x>>
           b == After(s, k + 1)
<1>1. After(s, k) = u \o b /\ x \in X
  BY AfterNext
<1>2. b \in Seq(X)
  <2> DEFINE q == k + 1
  <2>1. q \in 0..Len(s)
    OBVIOUS
  <2> HIDE DEF q
  <2>2. After(s, q) \in Seq(X)
    BY <2>1, AfterIs
  <2> QED BY <2>2 DEF q
<1>3. u \in Seq(X) /\ F[x] \in Seq(Y)
  BY <1>1
<1>4. Mapped(F, u) = F[x]
  <2> DEFINE m == [i \in DOMAIN u |-> F[u[i]]]
  <2>1. m = <<F[x]>>
    OBVIOUS
  <2> QED BY <2>1, FlattenOne DEF Mapped
<1> HIDE DEF u, b, x
<1>5. Mapped(F, u \o b) = Mapped(F, u) \o Mapped(F, b)
  BY <1>2, <1>3, MappedConcat
<1> QED BY <1>1, <1>4, <1>5 DEF b, x

---------------------------------------------------------------------------
(* One step of the scanner (interpolate_with).                             *)

(* The braces by name.                                                     *)
LeftBrace == "{"
RightBrace == "}"

LEMMA Signs ==
  /\ LeftBrace # "$" /\ RightBrace # "$"
  /\ \A text, i : Opens(text, i) <=> i < Len(text) /\ text[i] = "$" /\ text[i + 1] = LeftBrace
  /\ \A text, i : Closings(text, i) = {j \in (i + 2)..Len(text) : text[j] = RightBrace}
<1>1. LeftBrace # "$" /\ RightBrace # "$"
  BY Zenon DEF LeftBrace, RightBrace
<1>2. \A text, i : Opens(text, i) <=> i < Len(text) /\ text[i] = "$" /\ text[i + 1] = LeftBrace
  BY Zenon DEF Opens, LeftBrace
<1>3. \A text, i : Closings(text, i) = {j \in (i + 2)..Len(text) : text[j] = RightBrace}
  BY Zenon DEF Closings, RightBrace
<1> QED BY <1>1, <1>2, <1>3

(* The tokens of texts, the ones the scanner writes among them.            *)
Tokens == STRING \union {"$", LeftBrace, RightBrace, ":-", Blank, Error}

LEMMA TokensHold ==
  /\ \A n \in {"$", LeftBrace, RightBrace, ":-", Blank, Error} : n \in Tokens
  /\ \A n \in Tokens : <<n>> \in Seq(Tokens)
  /\ STRING \subseteq Tokens /\ \A t \in Seq(STRING) : t \in Seq(Tokens)
<1>1. \A n \in {"$", LeftBrace, RightBrace, ":-", Blank, Error} : n \in Tokens
  BY Zenon DEF Tokens
<1>2. STRING \subseteq Tokens
  BY Zenon DEF Tokens
<1>3. \A n \in Tokens : <<n>> \in Seq(Tokens)
  OBVIOUS
<1> QED BY <1>1, <1>2, <1>3, SeqMonotonic

Step(text, e, F, i) ==
  CASE i > Len(text) -> <<>>
    [] i <= Len(text) /\ IsEscape(text, i) -> <<"$">> \o F[i + 2]
    [] i <= Len(text) /\ IsReference(text, i) ->
         LET close == Min(Closings(text, i))
         IN Replacement(SubSeq(text, i + 2, close - 1), e) \o F[close + 1]
    [] OTHER -> <<text[i]>> \o F[i + 1]

Scans(text, e, F) == F = [i \in 1..(Len(text) + 2) |-> Step(text, e, F, i)]

LEMMA ReplacedBySteps ==
  ASSUME NEW text, NEW e, \E F : Scans(text, e, F)
  PROVE  \E F : Scans(text, e, F) /\ Replaced(text, e) = F[1]
BY DEF Replaced, Step, Scans

LEMMA StepEnd ==
  ASSUME NEW t, NEW e, NEW F, NEW i, i > Len(t), ~(i <= Len(t))
  PROVE  Step(t, e, F, i) = <<>>
BY Zenon DEF Step

LEMMA StepEscape ==
  ASSUME NEW t, NEW e, NEW F, NEW i, ~(i > Len(t)), i <= Len(t), IsEscape(t, i)
  PROVE  ~IsReference(t, i) /\ Step(t, e, F, i) = <<"$">> \o F[i + 2]
<1>1. ~IsReference(t, i)
  BY Signs DEF IsEscape, IsReference
<1> QED BY <1>1, Zenon DEF Step

LEMMA StepReference ==
  ASSUME NEW t, NEW e, NEW F, NEW i, ~(i > Len(t)), i <= Len(t), IsReference(t, i)
  PROVE  /\ ~IsEscape(t, i)
         /\ Step(t, e, F, i) = Replacement(SubSeq(t, i + 2, Min(Closings(t, i)) - 1), e)
                                \o F[Min(Closings(t, i)) + 1]
<1>1. ~IsEscape(t, i)
  BY Signs DEF IsEscape, IsReference
<1> QED BY <1>1, Zenon DEF Step

(* A reference ends at the first } after it.                               *)
LEMMA FirstClosing ==
  ASSUME NEW t \in Seq(Tokens), NEW i \in 1..Len(t), IsReference(t, i)
  PROVE  /\ Min(Closings(t, i)) \in (i + 2)..Len(t)
         /\ t[Min(Closings(t, i))] = RightBrace
         /\ \A j \in (i + 2)..Len(t) : t[j] = RightBrace => Min(Closings(t, i)) <= j
<1> DEFINE C == Closings(t, i)
<1>1. C = {j \in (i + 2)..Len(t) : t[j] = RightBrace}
  BY Signs
<1>2. C # {} /\ C \in SUBSET Nat
  BY <1>1 DEF IsReference
<1> HIDE DEF C
<1>3. Min(C) \in C /\ \A j \in C : Min(C) <= j
  BY <1>2, MinIsLeast
<1> QED BY <1>1, <1>3 DEF C

(* What is found in what is after a position is found in the text.         *)
LEMMA Shifted ==
  ASSUME NEW t \in Seq(Tokens), NEW k \in 0..Len(t), NEW i \in 1..(Len(t) - k)
  PROVE  LET s == After(t, k)
             c == Min(Closings(s, i))
             d == Min(Closings(t, i + k))
         IN /\ s[i] = t[i + k]
            /\ IsEscape(s, i) <=> IsEscape(t, i + k)
            /\ IsReference(s, i) <=> IsReference(t, i + k)
            /\ IsReference(s, i) =>
                 /\ c \in (i + 2)..Len(s) /\ d = c + k
                 /\ SubSeq(s, i + 2, c - 1) = SubSeq(t, (i + k) + 2, d - 1)
<1> DEFINE s == After(t, k)
           L == Len(t)
           c == Min(Closings(s, i))
           d == Min(Closings(t, i + k))
<1>1. /\ s \in Seq(Tokens) /\ Len(s) = L - k /\ L \in Nat /\ k \in Nat /\ k <= L
      /\ \A j \in 1..(L - k) : s[j] = t[j + k]
  <2>1. Len(t) \in Nat /\ k \in Nat /\ k <= Len(t)
    OBVIOUS
  <2>2. /\ After(t, k) \in Seq(Tokens) /\ Len(After(t, k)) = Len(t) - k
        /\ \A j \in 1..(Len(t) - k) : After(t, k)[j] = t[j + k]
    BY AfterIs
  <2> QED BY <2>1, <2>2
<1> HIDE DEF s, L
<1>2. i \in 1..Len(s) /\ i + k \in 1..Len(t) /\ i \in Nat
  BY <1>1 DEF L
<1>3. s[i] = t[i + k] /\ (i < Len(s) <=> i + k < Len(t))
  BY <1>1, <1>2 DEF L
<1>4. i < Len(s) => s[i + 1] = t[(i + k) + 1]
  BY <1>1, <1>2 DEF L
<1>5. (IsEscape(s, i) <=> IsEscape(t, i + k)) /\ (Opens(s, i) <=> Opens(t, i + k))
  BY <1>3, <1>4, Signs DEF IsEscape
<1>6. \A j : j \in Closings(s, i) <=> j + k \in Closings(t, i + k) /\ j \in Int
  <2> TAKE j
  <2>1. j \in (i + 2)..Len(s) <=> j \in Int /\ j + k \in ((i + k) + 2)..Len(t)
    BY <1>1, <1>2 DEF L
  <2>2. j \in (i + 2)..Len(s) => s[j] = t[j + k]
    BY <1>1, <1>2 DEF L
  <2> QED BY <2>1, <2>2, Signs
<1>7. \A j \in Closings(t, i + k) : j - k \in Closings(s, i)
  <2>1. \A j \in Closings(t, i + k) : j \in Int /\ (j - k) + k = j /\ j - k \in Int
    BY <1>1, Signs
  <2> QED BY <1>6, <2>1
<1>8. IsReference(s, i) <=> IsReference(t, i + k)
  BY <1>5, <1>6, <1>7 DEF IsReference
<1>9. ASSUME IsReference(s, i)
      PROVE  /\ c \in (i + 2)..Len(s) /\ d = c + k
             /\ SubSeq(s, i + 2, c - 1) = SubSeq(t, (i + k) + 2, d - 1)
  <2>1. c \in (i + 2)..Len(s)
    BY <1>1, <1>2, <1>9, FirstClosing
  <2>2. d = c + k
    <3>1. c \in Closings(s, i) /\ \A j \in Closings(s, i) : c <= j
      <4>1. Closings(s, i) # {} /\ Closings(s, i) \in SUBSET Nat
        BY <1>2, <1>9, Signs DEF IsReference
      <4> QED BY <4>1, MinIsLeast
    <3> HIDE DEF c
    <3>2. c + k \in Closings(t, i + k) /\ Closings(t, i + k) \in SUBSET Nat
      BY <1>2, <1>6, <3>1, <1>1, Signs
    <3>3. \A j \in Closings(t, i + k) : c + k <= j
      BY <1>1, <1>7, <2>1, <3>1, <3>2
    <3> QED BY <3>2, <3>3, MinIs
  <2> HIDE DEF c, d
  <2> DEFINE u == SubSeq(s, i + 2, c - 1)
             v == SubSeq(t, (i + k) + 2, d - 1)
             n == (c - 1) - (i + 2) + 1
             m == (d - 1) - ((i + k) + 2) + 1
  <2>3. i + 2 \in Int /\ c - 1 \in Int /\ \A j \in (i + 2)..(c - 1) : s[j] \in Tokens
    BY <1>1, <1>2, <2>1
  <2>4. /\ u \in Seq(Tokens) /\ Len(u) = IF i + 2 <= c - 1 THEN n ELSE 0
        /\ \A j \in 1..n : u[j] = s[(i + 2) + j - 1]
    BY <2>3, SubSeqProperties
  <2>5. /\ (i + k) + 2 \in Int /\ d - 1 \in Int
        /\ \A j \in ((i + k) + 2)..(d - 1) : t[j] \in Tokens
    BY <1>1, <1>2, <2>1, <2>2 DEF L
  <2>6. /\ v \in Seq(Tokens) /\ Len(v) = IF (i + k) + 2 <= d - 1 THEN m ELSE 0
        /\ \A j \in 1..m : v[j] = t[((i + k) + 2) + j - 1]
    BY <2>5, SubSeqProperties
  <2>7. m = n /\ n \in Int /\ ((i + k) + 2 <= d - 1 <=> i + 2 <= c - 1)
    BY <1>1, <1>2, <2>1, <2>2
  <2>8. ASSUME NEW j \in 1..n PROVE u[j] = v[j]
    <3>1. (i + 2) + j - 1 \in 1..(L - k) /\ ((i + 2) + j - 1) + k = ((i + k) + 2) + j - 1
      BY <1>1, <1>2, <2>1, <2>8 DEF L
    <3>2. u[j] = s[(i + 2) + j - 1] /\ v[j] = t[((i + k) + 2) + j - 1]
      BY <2>4, <2>6, <2>7, <2>8
    <3> QED BY <1>1, <3>1, <3>2
  <2>9. Len(u) = Len(v) /\ \A j \in 1..Len(u) : u[j] = v[j]
    <3>1. ~(i + 2 <= c - 1) => Len(u) = 0
      BY <2>4
    <3> HIDE DEF u, v, m, n
    <3> QED BY <2>4, <2>6, <2>7, <2>8, <3>1
  <2> HIDE DEF u, v, m, n
  <2>10. u = v
    BY <2>4, <2>6, <2>9, SeqEqual
  <2> QED BY <2>1, <2>2, <2>10 DEF u, v
<1> QED BY <1>3, <1>5, <1>8, <1>9 DEF s, c, d

(* G is, beyond i, what F is k positions further on.                       *)
Ahead(t, k, F, G, i) == \A j \in 1..(Len(t) - k + 2) : j > i => G[j] = F[j + k]

(* A step of the scanner sees what is after it and nothing else.           *)
LEMMA StepShift ==
  ASSUME NEW t \in Seq(Tokens), NEW e, NEW k \in 0..Len(t), NEW F, NEW G,
         NEW i \in 1..(Len(t) - k + 2), Ahead(t, k, F, G, i)
  PROVE  Step(After(t, k), e, G, i) = Step(t, e, F, i + k)
<1> DEFINE s == After(t, k)
           L == Len(t)
           h == i + k
           c == Min(Closings(s, i))
           d == Min(Closings(t, h))
<1>1. /\ s \in Seq(Tokens) /\ Len(s) = L - k /\ L \in Nat /\ k \in Nat /\ k <= L
  BY AfterIs
<1>2. i \in 1..(L - k) =>
        /\ s[i] = t[h] /\ (IsEscape(s, i) <=> IsEscape(t, h))
        /\ IsReference(s, i) <=> IsReference(t, h)
        /\ IsReference(s, i) =>
             /\ c \in (i + 2)..Len(s) /\ d = c + k
             /\ SubSeq(s, i + 2, c - 1) = SubSeq(t, h + 2, d - 1)
  BY Shifted
<1> HIDE DEF s, L, c, d
<1>3. CASE i > Len(s)
  <2>1. ~(i <= Len(s)) /\ ~(h <= Len(t)) /\ h > Len(t)
    BY <1>1, <1>3 DEF L
  <2> HIDE DEF h
  <2>2. Step(s, e, G, i) = <<>>
    BY <1>3, <2>1, StepEnd
  <2>3. Step(t, e, F, h) = <<>>
    BY <2>1, StepEnd
  <2> QED BY <2>2, <2>3 DEF s, h
<1>4. CASE i <= Len(s)
  <2>1. /\ i \in 1..Len(s) /\ i \in 1..(L - k) /\ h \in 1..Len(t) /\ i \in Nat
        /\ ~(i > Len(s)) /\ ~(h > Len(t)) /\ h <= Len(t)
    BY <1>1, <1>4 DEF L
  <2>2. /\ i + 1 \in 1..(Len(t) - k + 2) /\ i + 1 > i /\ (i + 1) + k = h + 1
        /\ i + 2 > i /\ (i + 2) + k = h + 2
    BY <1>1, <2>1 DEF L
  <2>3. i < Len(s) => i + 2 \in 1..(Len(t) - k + 2)
    BY <1>1, <2>1 DEF L
  <2>4. IsReference(s, i) =>
          c + 1 \in 1..(Len(t) - k + 2) /\ c + 1 > i /\ (c + 1) + k = d + 1
    <3>1. SUFFICES ASSUME IsReference(s, i)
                   PROVE  c + 1 \in 1..(Len(t) - k + 2) /\ c + 1 > i /\ (c + 1) + k = d + 1
      OBVIOUS
    <3>2. c \in (i + 2)..Len(s) /\ d = c + k
      BY <1>2, <2>1, <3>1
    <3> QED BY <1>1, <2>1, <3>2 DEF L
  <2> HIDE DEF h
  <2>5. G[i + 1] = F[h + 1]
    BY <2>2 DEF Ahead
  <2>6. CASE IsEscape(s, i)
    <3>1. G[i + 2] = F[h + 2]
      BY <2>2, <2>3, <2>6 DEF Ahead, IsEscape
    <3>2. Step(s, e, G, i) = <<"$">> \o G[i + 2]
      <4>1. ~IsReference(s, i)
        BY <2>6, Signs DEF IsEscape, IsReference
      <4> QED BY <1>4, <2>1, <2>6, <4>1, Zenon DEF Step
    <3>3. Step(t, e, F, h) = <<"$">> \o F[h + 2]
      <4>1. IsEscape(t, h)
        BY <1>2, <2>1, <2>6
      <4>2. ~IsReference(t, h)
        BY <4>1, Signs DEF IsEscape, IsReference
      <4> QED BY <2>1, <4>1, <4>2, Zenon DEF Step
    <3> QED BY <3>1, <3>2, <3>3 DEF s, h
  <2>7. CASE ~IsEscape(s, i) /\ IsReference(s, i)
    <3>1. G[c + 1] = F[d + 1]
      BY <2>4, <2>7 DEF Ahead
    <3>2. SubSeq(s, i + 2, c - 1) = SubSeq(t, h + 2, d - 1) /\ IsReference(t, h)
      BY <1>2, <2>1, <2>7
    <3>3. Step(s, e, G, i) = Replacement(SubSeq(s, i + 2, c - 1), e) \o G[c + 1]
      BY <1>4, <2>1, <2>7, StepReference, Zenon DEF c
    <3>4. Step(t, e, F, h) = Replacement(SubSeq(t, h + 2, d - 1), e) \o F[d + 1]
      BY <2>1, <3>2, StepReference, Zenon DEF d
    <3> QED BY <3>1, <3>2, <3>3, <3>4 DEF s, h
  <2>8. CASE ~IsEscape(s, i) /\ ~IsReference(s, i)
    <3>1. Step(s, e, G, i) = <<s[i]>> \o G[i + 1]
      BY <1>4, <2>1, <2>8, Zenon DEF Step
    <3>2. ~IsEscape(t, h) /\ ~IsReference(t, h) /\ s[i] = t[h]
      BY <1>2, <2>1, <2>8
    <3>3. Step(t, e, F, h) = <<t[h]>> \o F[h + 1]
      BY <2>1, <3>2, Zenon DEF Step
    <3> QED BY <2>5, <3>1, <3>2, <3>3 DEF s, h
  <2> QED BY <2>6, <2>7, <2>8
<1> QED BY <1>1, <1>3, <1>4

LEMMA StepDepends ==
  ASSUME NEW t \in Seq(Tokens), NEW e, NEW F, NEW G, NEW i \in 1..(Len(t) + 2),
         \A j \in 1..(Len(t) + 2) : j > i => G[j] = F[j]
  PROVE  Step(t, e, G, i) = Step(t, e, F, i)
<1> DEFINE k == 0
<1>1. k = 0 /\ k \in 0..Len(t)
  OBVIOUS
<1> HIDE DEF k
<1>2. After(t, k) = t
  BY <1>1, SubSeqFull DEF After
<1>3. i \in 1..(Len(t) - k + 2) /\ Ahead(t, k, F, G, i)
  BY <1>1 DEF Ahead
<1>4. Step(After(t, k), e, G, i) = Step(t, e, F, i + k)
  BY <1>1, <1>3, StepShift
<1>5. i + k = i
  BY <1>1
<1> QED BY <1>2, <1>4, <1>5

(* What replaces a reference is a text.                                    *)
EnvOf(e) == \A n \in DOMAIN e : e[n] \in Seq(Tokens)

LEMMA ReplacementType ==
  ASSUME NEW e, EnvOf(e), NEW inner \in Seq(Tokens)
  PROVE  Replacement(inner, e) \in Seq(Tokens)
<1> DEFINE marks == Marks(inner)
           name == NameIn(inner)
           default == SubSeq(inner, Min(marks) + 1, Len(inner))
           isSet == Len(name) = 1 /\ name[1] \in DOMAIN e
<1>1. <<Error>> \in Seq(Tokens)
  <2>1. Error \in Tokens
    BY TokensHold
  <2> QED BY <2>1, TokensHold
<1>2. isSet => e[name[1]] \in Seq(Tokens)
  BY DEF EnvOf
<1>3. marks # {} => default \in Seq(Tokens)
  <2>1. SUFFICES ASSUME marks # {} PROVE default \in Seq(Tokens)
    OBVIOUS
  <2>2. marks \in SUBSET Nat /\ marks \in SUBSET (1..Len(inner)) /\ Len(inner) \in Nat
    BY DEF Marks
  <2> HIDE DEF marks
  <2>3. Min(marks) \in 1..Len(inner)
    BY <2>1, <2>2, MinIsLeast
  <2> DEFINE m == Min(marks) + 1
  <2>4. m \in Int /\ Len(inner) \in Int /\ \A i \in m..Len(inner) : inner[i] \in Tokens
    BY <2>2, <2>3
  <2> HIDE DEF m
  <2>5. SubSeq(inner, m, Len(inner)) \in Seq(Tokens)
    BY <2>4, SubSeqProperties
  <2> QED BY <2>5 DEF m
<1>4. Replacement(inner, e) =
        CASE ~IsName(name) -> <<Error>>
          [] IsName(name) /\ isSet /\ (marks = {} \/ e[name[1]] # <<>>) -> e[name[1]]
          [] IsName(name) /\ isSet /\ marks # {} /\ e[name[1]] = <<>> -> default
          [] IsName(name) /\ ~isSet -> IF marks = {} THEN <<Error>> ELSE default
  BY Zenon DEF Replacement
<1> HIDE DEF marks, name, default, isSet
<1>5. CASE ~IsName(name)
  BY <1>1, <1>4, <1>5
<1>6. CASE IsName(name) /\ isSet /\ (marks = {} \/ e[name[1]] # <<>>)
  BY <1>2, <1>4, <1>6
<1>7. CASE IsName(name) /\ isSet /\ marks # {} /\ e[name[1]] = <<>>
  BY <1>3, <1>4, <1>7
<1>8. CASE IsName(name) /\ ~isSet
  BY <1>1, <1>3, <1>4, <1>8
<1> QED BY <1>5, <1>6, <1>7, <1>8

LEMMA StepType ==
  ASSUME NEW t \in Seq(Tokens), NEW e, EnvOf(e), NEW F \in [1..(Len(t) + 2) -> Seq(Tokens)],
         NEW i \in 1..(Len(t) + 2)
  PROVE  Step(t, e, F, i) \in Seq(Tokens)
<1>1. Len(t) \in Nat /\ \A j \in 1..Len(t) : t[j] \in Tokens
  OBVIOUS
<1>2. CASE i > Len(t)
  <2>1. ~(i <= Len(t))
    BY <1>1, <1>2
  <2>2. Step(t, e, F, i) = <<>>
    BY <1>2, <2>1, StepEnd
  <2> QED BY <2>2
<1>3. CASE i \in 1..Len(t)
  <2>1. ~(i > Len(t)) /\ i <= Len(t)
    BY <1>1, <1>3
  <2>2. CASE IsEscape(t, i)
    <3>1. Step(t, e, F, i) = <<"$">> \o F[i + 2]
      BY <2>1, <2>2, StepEscape
    <3>2. F[i + 2] \in Seq(Tokens)
      BY <1>1, <1>3
    <3>3. <<"$">> \in Seq(Tokens)
      BY TokensHold
    <3> QED BY <3>1, <3>2, <3>3, ConcatProperties
  <2>3. CASE IsReference(t, i)
    <3> DEFINE c == Min(Closings(t, i))
               inner == SubSeq(t, i + 2, c - 1)
    <3>1. c \in (i + 2)..Len(t)
      BY <1>3, <2>3, FirstClosing
    <3>2. Step(t, e, F, i) = Replacement(inner, e) \o F[c + 1]
      BY <2>1, <2>3, StepReference, Zenon
    <3> HIDE DEF c
    <3>3. inner \in Seq(Tokens)
      <4>1. i + 2 \in Int /\ c - 1 \in Int /\ \A j \in (i + 2)..(c - 1) : t[j] \in Tokens
        BY <1>1, <1>3, <3>1
      <4> QED BY <4>1, SubSeqProperties
    <3> HIDE DEF inner
    <3>4. Replacement(inner, e) \in Seq(Tokens)
      BY <3>3, ReplacementType
    <3>5. F[c + 1] \in Seq(Tokens)
      BY <1>1, <1>3, <3>1
    <3> QED BY <3>2, <3>4, <3>5, ConcatProperties
  <2>4. CASE ~IsEscape(t, i) /\ ~IsReference(t, i)
    <3>1. Step(t, e, F, i) = <<t[i]>> \o F[i + 1]
      BY <2>1, <2>4, Zenon DEF Step
    <3>2. F[i + 1] \in Seq(Tokens) /\ <<t[i]>> \in Seq(Tokens)
      BY <1>1, <1>3
    <3> QED BY <3>1, <3>2, ConcatProperties
  <2> QED BY <2>2, <2>3, <2>4
<1> QED BY <1>1, <1>2, <1>3

(* The scanner comes to an end, whatever the text.                         *)
LEMMA ScanExists ==
  ASSUME NEW t \in Seq(Tokens), NEW e, EnvOf(e)
  PROVE  \E F \in [1..(Len(t) + 2) -> Seq(Tokens)] : Scans(t, e, F)
<1> DEFINE L == Len(t) + 2
           From(F, m) == \A i \in 1..L : i > L - m => F[i] = Step(t, e, F, i)
           S == {m \in Nat : m <= L => \E F \in [1..L -> Seq(Tokens)] : From(F, m)}
<1>1. L \in Nat
  OBVIOUS
<1>2. 0 \in S
  <2>1. [i \in 1..L |-> <<>>] \in [1..L -> Seq(Tokens)]
    OBVIOUS
  <2>2. From([i \in 1..L |-> <<>>], 0)
    BY <1>1
  <2> QED BY <2>1, <2>2
<1>3. ASSUME NEW m \in Nat, m \in S PROVE m + 1 \in S
  <2>1. SUFFICES ASSUME m + 1 <= L
                 PROVE  \E F \in [1..L -> Seq(Tokens)] : From(F, m + 1)
    OBVIOUS
  <2>2. PICK F \in [1..L -> Seq(Tokens)] : From(F, m)
    BY <1>1, <1>3, <2>1
  <2> DEFINE k == L - m
             x == Step(t, e, F, k)
             G == [i \in 1..L |-> IF i = k THEN x ELSE F[i]]
  <2>3. k \in 1..L
    BY <1>1, <2>1
  <2>4. x \in Seq(Tokens)
    BY <2>3, StepType
  <2>5. G \in [1..L -> Seq(Tokens)] /\ \A i \in 1..L : G[i] = IF i = k THEN x ELSE F[i]
    <3> HIDE DEF x, k
    <3> QED BY <2>4
  <2> HIDE DEF G
  <2>6. ASSUME NEW i \in 1..L, i > L - (m + 1) PROVE G[i] = Step(t, e, G, i)
    <3>1. i >= k /\ k \in Int
      BY <1>1, <2>6
    <3>2. \A j \in 1..L : j > i => G[j] = F[j]
      BY <2>3, <2>5, <3>1
    <3>3. Step(t, e, G, i) = Step(t, e, F, i)
      BY <3>2, StepDepends
    <3>4. CASE i = k
      BY <2>5, <3>3, <3>4
    <3>5. CASE i > k
      <4>1. F[i] = Step(t, e, F, i)
        BY <2>2, <3>5
      <4> QED BY <2>5, <3>3, <3>5, <4>1, <2>3
    <3> QED BY <3>1, <3>4, <3>5
  <2> QED BY <2>5, <2>6
<1>4. L \in S
  <2> HIDE DEF S, L
  <2> QED BY <1>1, <1>2, <1>3, SetInduction
<1>5. PICK F \in [1..L -> Seq(Tokens)] : From(F, L)
  BY <1>1, <1>4
<1>6. \A i \in 1..L : F[i] = Step(t, e, F, i)
  BY <1>1, <1>5
<1>7. F = [i \in 1..L |-> Step(t, e, F, i)]
  BY <1>6
<1> QED BY <1>7 DEF Scans

(* What is made of the rest of a text is the rest of what is made of it.   *)
LEMMA ReplacedAfter ==
  ASSUME NEW t \in Seq(Tokens), NEW e, EnvOf(e), NEW F, Scans(t, e, F), NEW k \in 0..Len(t)
  PROVE  Replaced(After(t, k), e) = F[k + 1]
<1> DEFINE s == After(t, k)
           L == Len(t) - k + 2
<1>1. s \in Seq(Tokens) /\ Len(s) + 2 = L /\ L \in Nat /\ L >= 2
  <2>1. s \in Seq(Tokens) /\ Len(s) = Len(t) - k
    BY AfterIs
  <2>2. Len(t) \in Nat /\ k \in Nat /\ k <= Len(t)
    OBVIOUS
  <2> HIDE DEF s
  <2> QED BY <2>1, <2>2
<1>2. PICK G : Scans(s, e, G) /\ Replaced(s, e) = G[1]
  BY <1>1, ScanExists, ReplacedBySteps
<1>3. \A i \in 1..L : G[i] = Step(s, e, G, i)
  BY <1>1, <1>2 DEF Scans
<1>4. \A i \in 1..L : F[i + k] = Step(t, e, F, i + k)
  <2>1. \A i \in 1..L : i + k \in 1..(Len(t) + 2)
    OBVIOUS
  <2>2. \A i \in 1..(Len(t) + 2) : F[i] = Step(t, e, F, i)
    BY DEF Scans
  <2> HIDE DEF L
  <2> QED BY <2>1, <2>2
<1>10. ASSUME NEW i \in 1..L, Ahead(t, k, F, G, i) PROVE G[i] = F[i + k]
  <2> DEFINE q == k
             h == i
  <2>1. q \in 0..Len(t) /\ h \in 1..(Len(t) - q + 2) /\ Ahead(t, q, F, G, h)
    BY <1>10
  <2> HIDE DEF q, h
  <2>2. Step(After(t, q), e, G, h) = Step(t, e, F, h + q)
    BY <2>1, StepShift
  <2> QED BY <1>3, <1>4, <2>2 DEF q, h
<1> DEFINE S == {m \in Nat : m <= L => \A i \in 1..L : i > L - m => G[i] = F[i + k]}
<1>5. 0 \in S
  BY <1>1
<1>6. ASSUME NEW m \in Nat, m \in S PROVE m + 1 \in S
  <2>1. SUFFICES ASSUME m + 1 <= L, NEW i \in 1..L, i > L - (m + 1)
                 PROVE  G[i] = F[i + k]
    OBVIOUS
  <2>2. \A j \in 1..L : j > L - m => G[j] = F[j + k]
    BY <1>1, <1>6, <2>1
  <2>3. Ahead(t, k, F, G, i)
    BY <1>1, <2>1, <2>2 DEF Ahead
  <2> QED BY <1>10, <2>1, <2>3
<1>7. L \in S
  <2> HIDE DEF S, L
  <2> QED BY <1>1, <1>5, <1>6, SetInduction
<1>8. \A i \in 1..L : G[i] = F[i + k]
  BY <1>1, <1>7
<1>9. G[1] = F[1 + k] /\ 1 + k = k + 1
  BY <1>1, <1>8
<1> QED BY <1>2, <1>9

(* A text is scanned from its first token on.                              *)
LEMMA ReplacedType ==
  ASSUME NEW t \in Seq(Tokens), NEW e, EnvOf(e)
  PROVE  Replaced(t, e) \in Seq(Tokens)
<1>1. PICK F \in [1..(Len(t) + 2) -> Seq(Tokens)] : Scans(t, e, F)
  BY ScanExists
<1> DEFINE k == 0
<1>2. k = 0 /\ k \in 0..Len(t) /\ k + 1 \in 1..(Len(t) + 2)
  OBVIOUS
<1> HIDE DEF k
<1>3. After(t, k) = t
  BY <1>2, SubSeqFull DEF After
<1>4. Replaced(After(t, k), e) = F[k + 1]
  BY <1>1, <1>2, ReplacedAfter
<1>5. F[k + 1] \in Seq(Tokens)
  BY <1>1, <1>2
<1> QED BY <1>3, <1>4, <1>5

LEMMA ReplacedUnrolled ==
  ASSUME NEW t \in Seq(Tokens), NEW e, EnvOf(e), t # <<>>
  PROVE  /\ IsEscape(t, 1) => Replaced(t, e) = <<"$">> \o Replaced(After(t, 2), e)
         /\ IsReference(t, 1) =>
              LET c == Min(Closings(t, 1))
              IN Replaced(t, e) = Replacement(SubSeq(t, 3, c - 1), e) \o Replaced(After(t, c), e)
         /\ ~IsEscape(t, 1) /\ ~IsReference(t, 1) =>
              Replaced(t, e) = <<t[1]>> \o Replaced(After(t, 1), e)
<1>1. PICK F \in [1..(Len(t) + 2) -> Seq(Tokens)] : Scans(t, e, F)
  BY ScanExists
<1>2. \A k \in 0..Len(t) : Replaced(After(t, k), e) = F[k + 1]
  BY <1>1, ReplacedAfter
<1>3. Len(t) \in Nat /\ Len(t) >= 1
  BY EmptySeq
<1>4. Replaced(t, e) = F[1]
  <2> DEFINE k == 0
  <2>1. k = 0 /\ k \in 0..Len(t) /\ k + 1 = 1
    BY <1>3
  <2> HIDE DEF k
  <2>2. After(t, k) = t
    BY <2>1, SubSeqFull DEF After
  <2> QED BY <1>2, <2>1, <2>2
<1> DEFINE i == 1
<1>5. i = 1 /\ ~(i > Len(t)) /\ i <= Len(t) /\ i \in 1..(Len(t) + 2) /\ i \in 1..Len(t)
  BY <1>3
<1> HIDE DEF i
<1>6. Replaced(t, e) = Step(t, e, F, i)
  BY <1>1, <1>4, <1>5 DEF Scans
<1>7. ASSUME IsEscape(t, i)
      PROVE  Replaced(t, e) = <<"$">> \o Replaced(After(t, 2), e)
  <2>1. ~IsReference(t, i)
    BY <1>7, Signs DEF IsEscape, IsReference
  <2>2. Step(t, e, F, i) = <<"$">> \o F[i + 2]
    BY <1>5, <1>7, <2>1, Zenon DEF Step
  <2>3. 2 \in 0..Len(t) /\ 2 + 1 = i + 2
    BY <1>3, <1>5, <1>7 DEF IsEscape
  <2>4. F[i + 2] = Replaced(After(t, 2), e)
    BY <1>2, <2>3
  <2> QED BY <1>6, <2>2, <2>4
<1>8. ASSUME IsReference(t, i)
      PROVE  LET c == Min(Closings(t, i))
             IN Replaced(t, e) = Replacement(SubSeq(t, i + 2, c - 1), e) \o Replaced(After(t, c), e)
  <2> DEFINE c == Min(Closings(t, i))
  <2>1. Step(t, e, F, i) = Replacement(SubSeq(t, i + 2, c - 1), e) \o F[c + 1]
    BY <1>5, <1>8, StepReference, Zenon
  <2>2. c \in (i + 2)..Len(t)
    BY <1>5, <1>8, FirstClosing
  <2> HIDE DEF c
  <2>3. c \in 0..Len(t)
    BY <1>3, <1>5, <2>2
  <2>4. F[c + 1] = Replaced(After(t, c), e)
    BY <1>2, <2>3
  <2> QED BY <1>6, <2>1, <2>4 DEF c
<1>9. ASSUME ~IsEscape(t, i), ~IsReference(t, i)
      PROVE  Replaced(t, e) = <<t[i]>> \o Replaced(After(t, 1), e)
  <2>1. Step(t, e, F, i) = <<t[i]>> \o F[i + 1]
    BY <1>5, <1>9, Zenon DEF Step
  <2>2. F[i + 1] = Replaced(After(t, 1), e)
    BY <1>2, <1>3, <1>5
  <2> QED BY <1>6, <2>1, <2>2
<1>10. i + 2 = 3
  BY <1>5
<1> QED BY <1>5, <1>7, <1>8, <1>9, <1>10

LEMMA ReplacedNothing ==
  ASSUME NEW e, EnvOf(e)
  PROVE  Replaced(<<>>, e) = <<>>
<1> DEFINE t == <<>>
           i == 1
<1>1. t \in Seq(Tokens) /\ Len(t) = 0 /\ t = <<>>
  OBVIOUS
<1> HIDE DEF t
<1>2. PICK F : Scans(t, e, F) /\ Replaced(t, e) = F[1]
  BY <1>1, ScanExists, ReplacedBySteps
<1>3. i > Len(t) /\ ~(i <= Len(t)) /\ i \in 1..(Len(t) + 2) /\ i = 1
  BY <1>1
<1> HIDE DEF i
<1>4. F[i] = Step(t, e, F, i)
  BY <1>2, <1>3 DEF Scans
<1>5. Step(t, e, F, i) = <<>>
  BY <1>3, StepEnd
<1> QED BY <1>1, <1>2, <1>3, <1>4, <1>5

---------------------------------------------------------------------------
(* What comes out of each kind of piece.                                   *)
LEMMA Associative ==
  \A s, t, u \in Seq(Tokens) : (s \o t) \o u = s \o (t \o u)
BY ConcatAssociative, SMTT(30)

(* What is refused of a part is refused of the whole.                      *)
Bad(out) == \E i \in DOMAIN out : out[i] = Error \/ Opens(out, i)

LEMMA BadStays ==
  ASSUME NEW u \in Seq(Tokens), NEW v \in Seq(Tokens), Bad(u) \/ Bad(v)
  PROVE  Bad(u \o v)
<1> DEFINE w == u \o v
<1>1. /\ w \in Seq(Tokens) /\ Len(w) = Len(u) + Len(v) /\ Len(u) \in Nat /\ Len(v) \in Nat
      /\ \A i \in 1..(Len(u) + Len(v)) : w[i] = IF i <= Len(u) THEN u[i] ELSE v[i - Len(u)]
      /\ DOMAIN u = 1..Len(u) /\ DOMAIN v = 1..Len(v) /\ DOMAIN w = 1..Len(w)
  BY ConcatProperties
<1> HIDE DEF w
<1>2. CASE Bad(u)
  <2>1. PICK i \in DOMAIN u : u[i] = Error \/ Opens(u, i)
    BY <1>2 DEF Bad
  <2>2. i \in DOMAIN w /\ w[i] = u[i]
    BY <1>1, <2>1
  <2>3. i < Len(u) => i < Len(w) /\ w[i + 1] = u[i + 1]
    BY <1>1, <2>1
  <2>4. Opens(u, i) => Opens(w, i)
    BY <2>2, <2>3, Signs
  <2> QED BY <2>1, <2>2, <2>4 DEF Bad, w
<1>3. CASE Bad(v)
  <2>1. PICK i \in DOMAIN v : v[i] = Error \/ Opens(v, i)
    BY <1>3 DEF Bad
  <2> DEFINE j == Len(u) + i
  <2>2. j \in DOMAIN w /\ w[j] = v[i]
    <3>1. j \in 1..(Len(u) + Len(v)) /\ ~(j <= Len(u)) /\ j - Len(u) = i
      BY <1>1, <2>1
    <3> HIDE DEF j
    <3> QED BY <1>1, <3>1
  <2>3. i < Len(v) => j < Len(w) /\ w[j + 1] = v[i + 1]
    <3>1. SUFFICES ASSUME i < Len(v) PROVE j < Len(w) /\ w[j + 1] = v[i + 1]
      OBVIOUS
    <3>2. j + 1 \in 1..(Len(u) + Len(v)) /\ ~(j + 1 <= Len(u)) /\ (j + 1) - Len(u) = i + 1
          /\ j < Len(w)
      BY <1>1, <2>1, <3>1
    <3> HIDE DEF j
    <3> QED BY <1>1, <3>2
  <2> HIDE DEF j
  <2>4. Opens(v, i) => Opens(w, j)
    BY <2>2, <2>3, Signs
  <2> QED BY <2>1, <2>2, <2>4 DEF Bad, w
<1> QED BY <1>2, <1>3

(* A literal comes out as it was before its signs were doubled.            *)
Doubled == [x \in Tokens |-> IF x = "$" THEN <<"$", "$">> ELSE <<x>>]

LEMMA DoubledType == Doubled \in [Tokens -> Seq(Tokens)]
<1>1. \A x \in Tokens : <<x>> \in Seq(Tokens)
  OBVIOUS
<1>2. <<"$", "$">> \in Seq(Tokens)
  <2>1. "$" \in Tokens
    BY TokensHold
  <2> QED BY <2>1
<1>3. \A x \in Tokens : (IF x = "$" THEN <<"$", "$">> ELSE <<x>>) \in Seq(Tokens)
  BY <1>1, <1>2
<1> QED BY <1>3 DEF Doubled

LEMMA OneReplaced ==
  ASSUME NEW x \in Tokens, NEW r \in Seq(Tokens), NEW e, EnvOf(e)
  PROVE  Replaced(Doubled[x] \o r, e) = <<x>> \o Replaced(r, e)
<1> DEFINE d == Doubled[x]
           t == d \o r
<1>1. d \in Seq(Tokens) /\ d = IF x = "$" THEN <<"$", "$">> ELSE <<x>>
  BY DoubledType DEF Doubled
<1> HIDE DEF d
<1>2. /\ t \in Seq(Tokens) /\ Len(t) = Len(d) + Len(r) /\ Len(d) \in Nat /\ Len(r) \in Nat
      /\ \A i \in 1..(Len(d) + Len(r)) : t[i] = IF i <= Len(d) THEN d[i] ELSE r[i - Len(d)]
  BY <1>1, ConcatProperties
<1>3. After(t, Len(d)) = r
  BY <1>1, AfterFirst
<1> HIDE DEF t
<1>4. CASE x = "$"
  <2>1. Len(d) = 2 /\ d[1] = "$" /\ d[2] = "$"
    BY <1>1, <1>4
  <2>2. Len(t) >= 2 /\ t[1] = "$" /\ t[2] = "$" /\ 1 + 1 = 2
    BY <1>2, <2>1
  <2>3. IsEscape(t, 1) /\ t # <<>>
    BY <2>2 DEF IsEscape
  <2>4. Replaced(t, e) = <<"$">> \o Replaced(After(t, 2), e)
    BY <1>2, <2>3, ReplacedUnrolled
  <2> QED BY <1>3, <1>4, <2>1, <2>4 DEF t, d
<1>5. CASE x # "$"
  <2>1. Len(d) = 1 /\ d[1] = x
    BY <1>1, <1>5
  <2>2. Len(t) >= 1 /\ t[1] = x
    BY <1>2, <2>1
  <2>3. ~IsEscape(t, 1) /\ ~IsReference(t, 1) /\ t # <<>>
    BY <1>2, <1>5, <2>2, Signs DEF IsEscape, IsReference
  <2>4. Replaced(t, e) = <<t[1]>> \o Replaced(After(t, 1), e)
    BY <1>2, <2>3, ReplacedUnrolled
  <2> QED BY <1>3, <2>1, <2>2, <2>4 DEF t, d
<1> QED BY <1>4, <1>5

LEMMA LitReplaced ==
  ASSUME NEW lit \in Seq(Tokens), NEW rest \in Seq(Tokens), NEW e, EnvOf(e)
  PROVE  Replaced(Mapped(Doubled, lit) \o rest, e) = lit \o Replaced(rest, e)
<1> DEFINE L == Len(lit)
           out == Replaced(rest, e)
           P(k) == Replaced(Mapped(Doubled, After(lit, k)) \o rest, e) = After(lit, k) \o out
           S == {k \in 0..L : P(k)}
<1>1. L \in Nat /\ out \in Seq(Tokens)
  BY ReplacedType
<1>2. L \in S
  <2>1. After(lit, L) = <<>> /\ Mapped(Doubled, <<>>) = <<>>
    BY AfterAll, MappedNothing
  <2>2. <<>> \o rest = rest /\ <<>> \o out = out
    BY <1>1, ConcatEmptySeq
  <2>3. P(L)
    BY <2>1, <2>2, Zenon
  <2>4. L \in 0..L
    BY <1>1
  <2> QED BY <2>3, <2>4
<1>3. ASSUME NEW k \in 0..(L - 1), k + 1 \in S PROVE k \in S
  <2> DEFINE x == lit[k + 1]
             a == After(lit, k + 1)
             m == Mapped(Doubled, a)
  <2>1. P(k + 1)
    BY <1>3
  <2>2. After(lit, k) = <<x>> \o a /\ x \in Tokens
    BY AfterNext
  <2>3. Mapped(Doubled, After(lit, k)) = Doubled[x] \o m
    BY DoubledType, MappedNext
  <2>4. a \in Seq(Tokens)
    <3> DEFINE q == k + 1
    <3>1. q \in 0..Len(lit)
      OBVIOUS
    <3> HIDE DEF q
    <3>2. After(lit, q) \in Seq(Tokens)
      BY <3>1, AfterIs
    <3> QED BY <3>2 DEF q
  <2> HIDE DEF x, a
  <2>5. m \in Seq(Tokens)
    BY <2>4, DoubledType, MappedType
  <2> HIDE DEF m
  <2>6. m \o rest \in Seq(Tokens) /\ Doubled[x] \in Seq(Tokens) /\ <<x>> \in Seq(Tokens)
    BY <2>2, <2>5, DoubledType, ConcatProperties
  <2>7. (Doubled[x] \o m) \o rest = Doubled[x] \o (m \o rest)
    BY <2>5, <2>6, Associative, ZenonT(60)
  <2>8. Replaced(Doubled[x] \o (m \o rest), e) = <<x>> \o Replaced(m \o rest, e)
    BY <2>2, <2>6, OneReplaced
  <2>9. Replaced(m \o rest, e) = a \o out
    BY <2>1 DEF m, a
  <2>10. (<<x>> \o a) \o out = <<x>> \o (a \o out)
    <3> DEFINE u == <<x>>
    <3>1. u \in Seq(Tokens) /\ a \in Seq(Tokens) /\ out \in Seq(Tokens)
      BY <1>1, <2>4, <2>6
    <3> HIDE DEF u, out
    <3>2. (u \o a) \o out = u \o (a \o out)
      BY <3>1, Associative
    <3> QED BY <3>2 DEF u
  <2>11. P(k)
    BY <2>2, <2>3, <2>7, <2>8, <2>9, <2>10
  <2> QED BY <2>11
<1>4. 0 \in S
  <2> HIDE DEF S, L
  <2> QED BY <1>1, <1>2, <1>3, SuffixInduction
<1>5. After(lit, 0) = lit
  BY AfterAll
<1> QED BY <1>4, <1>5

(* Raw text comes out as it is, or it is refused.                          *)
LEMMA RawReplaced ==
  ASSUME NEW raw \in Seq(Tokens), NEW rest \in Seq(Tokens), NEW e, EnvOf(e),
         RawBefore(raw, rest)
  PROVE  \/ Bad(Replaced(raw \o rest, e))
         \/ Replaced(raw \o rest, e) = raw \o Replaced(rest, e)
<1> DEFINE L == Len(raw)
           t == raw \o rest
           out == Replaced(rest, e)
           P(k) == \/ Bad(Replaced(After(t, k), e))
                   \/ Replaced(After(t, k), e) = After(raw, k) \o out
           S == {k \in 0..L : P(k)}
<1>1. L \in Nat /\ out \in Seq(Tokens) /\ DOMAIN raw = 1..L
  BY ReplacedType
<1>2. /\ t \in Seq(Tokens) /\ Len(t) >= L /\ Len(t) \in Nat
      /\ \A i \in 1..L : i <= Len(t) /\ t[i] = raw[i]
  <2>1. /\ t \in Seq(Tokens) /\ Len(t) = Len(raw) + Len(rest) /\ Len(rest) \in Nat
        /\ \A i \in 1..(Len(raw) + Len(rest)) : t[i] = IF i <= Len(raw) THEN raw[i] ELSE rest[i - Len(raw)]
    BY ConcatProperties
  <2> HIDE DEF t
  <2> QED BY <1>1, <2>1
<1>3. \A i \in 1..L :
        /\ ~IsEscape(t, i)
        /\ IsReference(t, i) => ~IsName(NameIn(SubSeq(t, i + 2, Min(Closings(t, i)) - 1)))
  BY <1>1, Zenon DEF RawBefore
<1>4. L \in S
  <2>1. After(t, L) = rest
    BY AfterFirst
  <2>2. After(raw, L) = <<>>
    BY AfterAll
  <2>3. <<>> \o out = out
    BY <1>1, ConcatEmptySeq
  <2>4. P(L)
    BY <2>1, <2>2, <2>3, Zenon
  <2>5. L \in 0..L
    BY <1>1
  <2> QED BY <2>4, <2>5
<1> HIDE DEF t
<1>5. ASSUME NEW k \in 0..(L - 1), k + 1 \in S PROVE k \in S
  <2> DEFINE s == After(t, k)
             h == 1 + k
             r == After(t, k + 1)
             a == After(raw, k + 1)
             x == raw[k + 1]
             one == 1
  <2>1. P(k + 1)
    BY <1>5
  <2>2. k \in 0..(Len(t) - 1) /\ k \in 0..Len(t) /\ h \in 1..L /\ h = k + 1 /\ one \in 1..(Len(t) - k)
    BY <1>1, <1>2
  <2>3. After(raw, k) = <<x>> \o a /\ x \in Tokens
    BY AfterNext
  <2>4. s # <<>> /\ After(s, 1) = r
    BY <1>2, <2>2, AfterNext
  <2>5. s \in Seq(Tokens) /\ r \in Seq(Tokens) /\ a \in Seq(Tokens)
    <3> DEFINE q == k + 1
    <3>1. q \in 0..Len(t) /\ q \in 0..Len(raw)
      BY <1>1, <1>2
    <3> HIDE DEF q
    <3>2. After(t, q) \in Seq(Tokens) /\ After(raw, q) \in Seq(Tokens)
      BY <1>2, <3>1, AfterIs
    <3>3. s \in Seq(Tokens)
      BY <1>2, <2>2, AfterIs
    <3> QED BY <3>2, <3>3 DEF q
  <2> HIDE DEF one
  <2>6. /\ s[one] = t[one + k] /\ (IsEscape(s, one) <=> IsEscape(t, one + k))
        /\ IsReference(s, one) <=> IsReference(t, one + k)
        /\ IsReference(s, one) =>
             SubSeq(s, one + 2, Min(Closings(s, one)) - 1) =
               SubSeq(t, (one + k) + 2, Min(Closings(t, one + k)) - 1)
    BY <1>2, <2>2, Shifted
  <2>7. one + k = h /\ one + 2 = 3 /\ one = 1
    BY DEF one
  <2>8. t[h] = x /\ s[1] = x
    BY <1>2, <2>2, <2>6, <2>7
  <2>9. ~IsEscape(s, 1)
    BY <1>3, <2>2, <2>6, <2>7
  <2> HIDE DEF s, r, a, x, h
  <2>10. CASE IsReference(s, 1)
    <3> DEFINE c == Min(Closings(s, 1))
               inner == SubSeq(s, 3, c - 1)
    <3>1. Replaced(s, e) = Replacement(inner, e) \o Replaced(After(s, c), e)
      BY <2>4, <2>5, <2>10, ReplacedUnrolled
    <3>2. ~IsName(NameIn(inner))
      <4>1. IsReference(t, h)
        BY <2>6, <2>7, <2>10
      <4>2. inner = SubSeq(t, h + 2, Min(Closings(t, h)) - 1)
        BY <2>6, <2>7, <2>10
      <4>3. ~IsName(NameIn(SubSeq(t, h + 2, Min(Closings(t, h)) - 1)))
        BY <1>3, <2>2, <4>1
      <4> QED BY <4>2, <4>3
    <3>3. Replacement(inner, e) = <<Error>>
      BY <3>2, Zenon DEF Replacement
    <3>4. c \in 0..Len(s)
      <4>1. 1 \in 1..Len(s) /\ Len(s) \in Nat
        BY <2>4, <2>5, EmptySeq
      <4>2. c \in (1 + 2)..Len(s)
        BY <2>5, <2>10, <4>1, FirstClosing
      <4> QED BY <4>1, <4>2
    <3> HIDE DEF c
    <3>5. After(s, c) \in Seq(Tokens)
      BY <2>5, <3>4, AfterIs
    <3>6. Replaced(After(s, c), e) \in Seq(Tokens) /\ <<Error>> \in Seq(Tokens)
      <4>1. Error \in Tokens
        BY TokensHold
      <4> QED BY <3>5, <4>1, ReplacedType, TokensHold
    <3>7. Bad(<<Error>>)
      <4>1. 1 \in DOMAIN <<Error>> /\ <<Error>>[1] = Error
        OBVIOUS
      <4> QED BY <4>1 DEF Bad
    <3>8. Bad(Replaced(s, e))
      BY <3>1, <3>3, <3>6, <3>7, BadStays
    <3> QED BY <3>8 DEF s
  <2>11. CASE ~IsReference(s, 1)
    <3>1. Replaced(s, e) = <<x>> \o Replaced(r, e)
      BY <2>4, <2>5, <2>8, <2>9, <2>11, ReplacedUnrolled
    <3>2. <<x>> \in Seq(Tokens) /\ Replaced(r, e) \in Seq(Tokens)
      BY <2>3, <2>5, ReplacedType
    <3>3. CASE Bad(Replaced(r, e))
      <4>1. Bad(Replaced(s, e))
        BY <3>1, <3>2, <3>3, BadStays
      <4> QED BY <4>1 DEF s
    <3>4. CASE Replaced(r, e) = a \o out
      <4>1. <<x>> \o (a \o out) = (<<x>> \o a) \o out
        <5> DEFINE u == <<x>>
        <5> HIDE DEF u, out
        <5>1. u \in Seq(Tokens)
          BY <3>2 DEF u
        <5>2. (u \o a) \o out = u \o (a \o out)
          BY <1>1, <2>5, <5>1, Associative
        <5> QED BY <5>2 DEF u
      <4>2. Replaced(s, e) = (<<x>> \o a) \o out
        BY <3>1, <3>4, <4>1
      <4>3. P(k)
        BY <2>3, <4>2 DEF s, a, x
      <4> QED BY <4>3
    <3> QED BY <2>1, <3>3, <3>4 DEF r, a
  <2> QED BY <2>10, <2>11
<1>6. 0 \in S
  <2> HIDE DEF S, L
  <2> QED BY <1>1, <1>4, <1>5, SuffixInduction
<1>7. After(raw, 0) = raw /\ After(t, 0) = t
  BY <1>2, AfterAll
<1> QED BY <1>6, <1>7 DEF t

(* A reference is replaced, and then what is after it.                     *)
Reference(inner) == (<<"$", LeftBrace>> \o inner) \o <<RightBrace>>

LEMMA RefReplaced ==
  ASSUME NEW inner \in Seq(Tokens), \A j \in 1..Len(inner) : inner[j] # RightBrace,
         NEW rest \in Seq(Tokens), NEW e, EnvOf(e)
  PROVE  /\ Reference(inner) \in Seq(Tokens)
         /\ Replaced(Reference(inner) \o rest, e) = Replacement(inner, e) \o Replaced(rest, e)
<1> DEFINE a == <<"$", LeftBrace>>
           b == a \o inner
           w == <<RightBrace>>
           f == b \o w
           t == f \o rest
           L == Len(inner)
<1>1. /\ a \in Seq(Tokens) /\ w \in Seq(Tokens)
      /\ Len(a) = 2 /\ Len(w) = 1 /\ a[1] = "$" /\ a[2] = LeftBrace /\ w[1] = RightBrace
  <2>1. "$" \in Tokens /\ LeftBrace \in Tokens /\ RightBrace \in Tokens
    BY TokensHold
  <2> QED BY <2>1
<1>2. L \in Nat
  OBVIOUS
<1>0. Len(inner) = L
  OBVIOUS
<1> HIDE DEF a, w, L
<1>3. /\ b \in Seq(Tokens) /\ Len(b) = L + 2
      /\ \A i \in 1..(2 + L) : b[i] = IF i <= 2 THEN a[i] ELSE inner[i - 2]
  <2>1. /\ b \in Seq(Tokens) /\ Len(b) = Len(a) + Len(inner)
        /\ \A i \in 1..(Len(a) + Len(inner)) : b[i] = IF i <= Len(a) THEN a[i] ELSE inner[i - Len(a)]
    BY <1>1, ConcatProperties
  <2> HIDE DEF b
  <2> QED BY <1>0, <1>1, <1>2, <2>1
<1> HIDE DEF b
<1>4. /\ f \in Seq(Tokens) /\ Len(f) = L + 3
      /\ \A i \in 1..(L + 2) : f[i] = b[i]
      /\ f[L + 3] = RightBrace
  <2>1. /\ f \in Seq(Tokens) /\ Len(f) = Len(b) + Len(w)
        /\ \A i \in 1..(Len(b) + Len(w)) : f[i] = IF i <= Len(b) THEN b[i] ELSE w[i - Len(b)]
    BY <1>1, <1>3, ConcatProperties
  <2> HIDE DEF f
  <2>2. f[L + 3] = w[1]
    <3>1. L + 3 \in 1..(Len(b) + Len(w)) /\ ~(L + 3 <= Len(b)) /\ (L + 3) - Len(b) = 1
      BY <1>1, <1>2, <1>3
    <3> QED BY <2>1, <3>1
  <2>3. \A i \in 1..(L + 2) : i \in 1..(Len(b) + Len(w)) /\ i <= Len(b)
    BY <1>1, <1>2, <1>3
  <2> QED BY <1>1, <1>2, <1>3, <2>1, <2>2, <2>3
<1> HIDE DEF f
<1>5. /\ t \in Seq(Tokens) /\ Len(t) >= L + 3 /\ Len(t) \in Nat
      /\ \A i \in 1..(L + 3) : t[i] = f[i]
  <2>1. /\ t \in Seq(Tokens) /\ Len(t) = Len(f) + Len(rest) /\ Len(rest) \in Nat
        /\ \A i \in 1..(Len(f) + Len(rest)) : t[i] = IF i <= Len(f) THEN f[i] ELSE rest[i - Len(f)]
    <3>1. f \in Seq(Tokens)
      BY <1>4
    <3> QED BY <3>1, ConcatProperties
  <2> HIDE DEF t
  <2> QED BY <1>2, <1>4, <2>1
<1>6. After(t, L + 3) = rest
  <2>1. After(t, Len(f)) = rest
    BY <1>4, AfterFirst
  <2> QED BY <1>4, <2>1
<1> HIDE DEF t
<1>7. t[1] = "$" /\ t[2] = LeftBrace /\ t[L + 3] = RightBrace
      /\ \A i \in 3..(L + 2) : t[i] = inner[i - 2]
  <2>1. \A i \in 1..(L + 2) : i \in 1..(L + 3) /\ i \in 1..(2 + L)
    BY <1>2
  <2>2. \A i \in 1..(L + 2) : t[i] = IF i <= 2 THEN a[i] ELSE inner[i - 2]
    BY <1>3, <1>4, <1>5, <2>1
  <2>3. 1 \in 1..(L + 2) /\ 2 \in 1..(L + 2) /\ L + 3 \in 1..(L + 3)
        /\ \A i \in 3..(L + 2) : i \in 1..(L + 2) /\ ~(i <= 2)
    BY <1>2
  <2>4. t[1] = a[1] /\ t[2] = a[2] /\ \A i \in 3..(L + 2) : t[i] = inner[i - 2]
    BY <2>2, <2>3
  <2> QED BY <1>1, <1>4, <1>5, <2>3, <2>4
<1> DEFINE one == 1
<1>8. one = 1 /\ one < Len(t) /\ one + 1 = 2 /\ one + 2 = 3 /\ t # <<>>
  BY <1>2, <1>5
<1> HIDE DEF one
<1>9. Closings(t, one) \in SUBSET Nat /\ L + 3 \in Closings(t, one)
      /\ \A j \in Closings(t, one) : L + 3 <= j
  <2>1. Closings(t, one) = {j \in 3..Len(t) : t[j] = RightBrace}
    BY <1>8, Signs
  <2>2. L + 3 \in 3..Len(t)
    BY <1>2, <1>5
  <2>3. ASSUME NEW j \in Closings(t, one) PROVE L + 3 <= j
    <3>1. j \in 3..Len(t) /\ t[j] = RightBrace
      BY <2>1, <2>3
    <3>2. SUFFICES ASSUME ~(L + 3 <= j) PROVE FALSE
      OBVIOUS
    <3>3. j \in 3..(L + 2) /\ j - 2 \in 1..L
      BY <1>2, <3>1, <3>2
    <3> QED BY <1>7, <3>1, <3>3 DEF L
  <2> QED BY <1>7, <2>1, <2>2, <2>3
<1>10. Min(Closings(t, one)) = L + 3
  BY <1>9, MinIs
<1>11. IsReference(t, one)
  <2>1. Opens(t, one)
    BY <1>7, <1>8, Signs
  <2> QED BY <1>9, <2>1 DEF IsReference
<1>12. SubSeq(t, 3, L + 2) = inner
  <2> DEFINE u == SubSeq(t, 3, L + 2)
             m == 3
             n == L + 2
  <2>1. m = 3 /\ m \in Int /\ n \in Int /\ \A i \in m..n : t[i] \in Tokens
    BY <1>2, <1>5
  <2>2. (m <= n \/ L = 0) /\ n - m + 1 = L /\ n = L + 2
    BY <1>2
  <2> HIDE DEF m, n
  <2>3. /\ SubSeq(t, m, n) \in Seq(Tokens)
        /\ Len(SubSeq(t, m, n)) = IF m <= n THEN n - m + 1 ELSE 0
        /\ \A i \in 1..(n - m + 1) : SubSeq(t, m, n)[i] = t[m + i - 1]
    BY <2>1, SubSeqProperties
  <2>4. u = SubSeq(t, m, n)
    BY <2>1, <2>2
  <2> HIDE DEF u
  <2>5. u \in Seq(Tokens) /\ Len(u) = L /\ \A i \in 1..L : u[i] = t[m + i - 1]
    BY <2>2, <2>3, <2>4
  <2>6. \A i \in 1..L : u[i] = inner[i]
    <3> TAKE i \in 1..L
    <3>1. m + i - 1 \in 3..(L + 2) /\ (m + i - 1) - 2 = i
      BY <1>2, <2>1
    <3> QED BY <1>7, <2>5, <3>1
  <2>7. u = inner
    BY <2>5, <2>6, SeqEqual DEF L
  <2> QED BY <2>7 DEF u
<1>13. Replaced(t, e) = Replacement(inner, e) \o Replaced(rest, e)
  <2> DEFINE c == Min(Closings(t, 1))
  <2>1. IsReference(t, 1) /\ c = L + 3 /\ c - 1 = L + 2
    BY <1>2, <1>8, <1>10, <1>11
  <2>2. Replaced(t, e) = Replacement(SubSeq(t, 3, c - 1), e) \o Replaced(After(t, c), e)
    BY <1>5, <1>8, <2>1, ReplacedUnrolled
  <2> HIDE DEF c
  <2> QED BY <1>6, <1>12, <2>1, <2>2
<1> QED BY <1>4, <1>13 DEF Reference, a, b, f, w, t

(* What a reference names, and what replaces it.                           *)
Inner(p) == IF p.default = None THEN <<p.ref>> ELSE <<p.ref>> \o (<<":-">> \o p.default)

IsRef(p) ==
  /\ DOMAIN p = {"ref", "default"}
  /\ p.ref \in STRING \ {RightBrace, ":-", Blank}
  /\ p.default = None \/ p.default \in Seq(STRING \ {RightBrace})

Given(p, e) == p.ref \in DOMAIN e /\ (e[p.ref] # <<>> \/ p.default = None)

LEMMA InnerIs ==
  ASSUME NEW p, IsRef(p)
  PROVE  /\ Inner(p) \in Seq(Tokens) /\ \A j \in 1..Len(Inner(p)) : Inner(p)[j] # RightBrace
         /\ p.default = None => Marks(Inner(p)) = {}
         /\ p.default # None =>
              /\ Min(Marks(Inner(p))) = 2 /\ Marks(Inner(p)) # {}
              /\ SubSeq(Inner(p), 2 + 1, Len(Inner(p))) = p.default
         /\ NameIn(Inner(p)) = <<p.ref>> /\ IsName(<<p.ref>>)
<1> DEFINE r == p.ref
           d == p.default
           u == <<r>>
           i == Inner(p)
           One == 1
<1>1. r \in Tokens /\ r # RightBrace /\ r # ":-" /\ r # Blank /\ RightBrace # ":-" /\ ":-" \in Tokens
  <2>1. RightBrace # ":-"
    BY Zenon DEF RightBrace
  <2> QED BY <2>1, TokensHold DEF IsRef
<1>2. u \in Seq(Tokens) /\ Len(u) = 1 /\ u[1] = r /\ u # <<>> /\ DOMAIN u = {1}
  BY <1>1
<1>3. Trim(u) = u
  BY <1>1, TrimOfWord
<1>4. IsName(u)
  BY <1>1, <1>2 DEF IsName
<1> HIDE DEF r, u
<1>5. CASE d = None
  <2>1. i = u
    BY <1>5 DEF Inner, u, r
  <2>2. \A j \in 1..Len(u) : u[j] = r
    BY <1>2
  <2>3. Marks(u) = {}
    BY <1>1, <1>2 DEF Marks
  <2>4. NameIn(u) = u
    BY <1>3, <2>3 DEF NameIn
  <2> QED BY <1>1, <1>2, <1>4, <1>5, <2>1, <2>2, <2>3, <2>4 DEF u, r
<1>6. CASE d # None
  <2> DEFINE m == <<":-">>
             md == m \o d
             L == Len(d)
  <2>1. /\ d \in Seq(Tokens) /\ L \in Nat /\ \A j \in 1..L : d[j] # RightBrace
        /\ \A j \in 1..L : d[j] \in Tokens
    <3>1. d \in Seq(STRING \ {RightBrace})
      BY <1>6 DEF IsRef
    <3>2. STRING \ {RightBrace} \subseteq Tokens
      BY TokensHold
    <3>3. d \in Seq(Tokens)
      BY <3>1, <3>2, SeqMonotonic
    <3> QED BY <3>1, <3>3
  <2>2. m \in Seq(Tokens) /\ Len(m) = 1 /\ m[1] = ":-"
    BY <1>1
  <2>3. i = u \o md
    BY <1>6 DEF Inner, u, r
  <2>0. Len(d) = L
    OBVIOUS
  <2> HIDE DEF m, L, d, i
  <2>4. /\ md \in Seq(Tokens) /\ Len(md) = L + 1
        /\ \A j \in 1..(1 + L) : md[j] = IF j <= 1 THEN m[j] ELSE d[j - 1]
    <3>1. /\ md \in Seq(Tokens) /\ Len(md) = Len(m) + Len(d)
          /\ \A j \in 1..(Len(m) + Len(d)) : md[j] = IF j <= Len(m) THEN m[j] ELSE d[j - Len(m)]
      BY <2>1, <2>2, ConcatProperties
    <3> HIDE DEF md
    <3> QED BY <2>0, <2>1, <2>2, <3>1
  <2> HIDE DEF md
  <2>5. /\ i \in Seq(Tokens) /\ Len(i) = L + 2
        /\ \A j \in 1..(L + 2) : i[j] = IF j <= 1 THEN u[j] ELSE md[j - 1]
    <3>1. /\ u \o md \in Seq(Tokens) /\ Len(u \o md) = Len(u) + Len(md)
          /\ \A j \in 1..(Len(u) + Len(md)) : (u \o md)[j] = IF j <= Len(u) THEN u[j] ELSE md[j - Len(u)]
      <4>1. u \in Seq(Tokens) /\ md \in Seq(Tokens)
        BY <1>2, <2>4
      <4> QED BY <4>1, ConcatProperties
    <3>2. Len(u) + Len(md) = L + 2 /\ Len(u) = 1
      BY <1>2, <2>1, <2>4
    <3> QED BY <2>3, <3>1, <3>2
  <2>6. i[1] = r /\ i[2] = ":-" /\ \A j \in 3..(L + 2) : i[j] = d[j - 2]
    <3>1. 1 \in 1..(L + 2) /\ 2 \in 1..(L + 2) /\ 1 \in 1..(1 + L) /\ ~(2 <= 1) /\ 2 - 1 = 1
      BY <2>1
    <3>2. i[1] = r
      BY <1>2, <2>5, <3>1
    <3>3. i[2] = ":-"
      BY <2>2, <2>4, <2>5, <3>1
    <3>4. ASSUME NEW j \in 3..(L + 2) PROVE i[j] = d[j - 2]
      <4>1. j \in 1..(L + 2) /\ ~(j <= 1) /\ j - 1 \in 1..(1 + L) /\ ~(j - 1 <= 1) /\ (j - 1) - 1 = j - 2
        BY <2>1
      <4> QED BY <2>4, <2>5, <4>1
    <3> QED BY <3>2, <3>3, <3>4
  <2>7. \A j \in 1..Len(i) : i[j] # RightBrace
    <3> TAKE j \in 1..Len(i)
    <3>1. j = 1 \/ j = 2 \/ (j \in 3..(L + 2) /\ j - 2 \in 1..L)
      BY <2>1, <2>5
    <3> QED BY <1>1, <2>1, <2>6, <3>1
  <2>8. Marks(i) # {} /\ Min(Marks(i)) = 2
    <3>1. DOMAIN i = 1..(L + 2)
      BY <2>5
    <3>2. Marks(i) \in SUBSET Nat /\ 2 \in Marks(i)
      BY <2>1, <2>6, <3>1 DEF Marks
    <3>3. \A j \in Marks(i) : 2 <= j
      <4> TAKE j \in Marks(i)
      <4>1. j \in 1..(L + 2) /\ i[j] = ":-"
        BY <3>1 DEF Marks
      <4>2. j # 1
        BY <1>1, <2>6, <4>1
      <4> QED BY <4>1, <4>2
    <3> QED BY <3>2, <3>3, MinIs
  <2>9. SubSeq(i, 2 + 1, Len(i)) = d
    <3> DEFINE a == 2 + 1
               b == Len(i)
               v == SubSeq(i, a, b)
    <3>1. a = 3 /\ a \in Int /\ b \in Int /\ b = L + 2 /\ \A j \in a..b : i[j] \in Tokens
      <4>1. \A j \in 1..Len(i) : i[j] \in Tokens
        BY <2>5
      <4> QED BY <2>1, <2>5, <4>1
    <3>2. (a <= b \/ L = 0) /\ b - a + 1 = L
      BY <2>1, <3>1
    <3> HIDE DEF a, b
    <3>3. /\ v \in Seq(Tokens) /\ Len(v) = IF a <= b THEN b - a + 1 ELSE 0
          /\ \A j \in 1..(b - a + 1) : v[j] = i[a + j - 1]
      BY <3>1, SubSeqProperties
    <3> HIDE DEF v
    <3>4. Len(v) = L
      BY <3>2, <3>3
    <3>5. \A j \in 1..L : v[j] = d[j]
      <4> TAKE j \in 1..L
      <4>1. a + j - 1 \in 3..(L + 2) /\ (a + j - 1) - 2 = j
        BY <2>1, <3>1
      <4> QED BY <2>6, <3>2, <3>3, <4>1
    <3>6. v = d
      BY <2>0, <2>1, <3>3, <3>4, <3>5, SeqEqual
    <3> QED BY <3>6 DEF v, a, b
  <2>10. NameIn(i) = u
    <3> DEFINE a == 1
               v == SubSeq(i, a, a)
    <3>1. a \in Int /\ a = 1 /\ \A j \in a..a : i[j] \in Tokens
      BY <1>1, <2>6
    <3>2. a <= a /\ a - a + 1 = 1 /\ a + 1 - 1 = 1 /\ 1 \in 1..(a - a + 1)
      BY <3>1
    <3> HIDE DEF a
    <3>3. /\ v \in Seq(Tokens) /\ Len(v) = IF a <= a THEN a - a + 1 ELSE 0
          /\ \A j \in 1..(a - a + 1) : v[j] = i[a + j - 1]
      BY <3>1, SubSeqProperties
    <3> HIDE DEF v
    <3>4. v \in Seq(Tokens) /\ Len(v) = 1 /\ v[1] = r
      BY <2>6, <3>2, <3>3
    <3>5. \A j \in 1..Len(v) : v[j] = u[j]
      <4>1. \A j \in 1..1 : j = 1
        OBVIOUS
      <4> QED BY <1>2, <3>4, <4>1
    <3>6. v = u
      BY <1>2, <3>4, <3>5, SeqEqual
    <3>7. v = SubSeq(i, 1, 1)
      BY <3>1 DEF v
    <3>8. 2 - 1 = 1
      OBVIOUS
    <3> QED BY <1>3, <2>8, <3>6, <3>7, <3>8 DEF NameIn
  <2> QED BY <1>4, <1>6, <2>5, <2>7, <2>8, <2>9, <2>10 DEF d, i, u, r
<1> QED BY <1>5, <1>6

LEMMA ReplacementIs ==
  ASSUME NEW p, IsRef(p), NEW e
  PROVE  Replacement(Inner(p), e) =
           IF Given(p, e) THEN e[p.ref] ELSE IF p.default = None THEN <<Error>> ELSE p.default
<1> DEFINE inner == Inner(p)
           marks == Marks(inner)
           name == NameIn(inner)
           default == SubSeq(inner, Min(marks) + 1, Len(inner))
           isSet == Len(name) = 1 /\ name[1] \in DOMAIN e
<1>1. Replacement(inner, e) =
        CASE ~IsName(name) -> <<Error>>
          [] IsName(name) /\ isSet /\ (marks = {} \/ e[name[1]] # <<>>) -> e[name[1]]
          [] IsName(name) /\ isSet /\ marks # {} /\ e[name[1]] = <<>> -> default
          [] IsName(name) /\ ~isSet -> IF marks = {} THEN <<Error>> ELSE default
  BY Zenon DEF Replacement
<1>2. name = <<p.ref>> /\ IsName(name)
  BY InnerIs
<1>3. p.default = None => marks = {}
  BY InnerIs
<1>4. p.default # None => marks # {} /\ default = p.default
  BY InnerIs
<1> HIDE DEF inner, marks, name, default
<1>5. name[1] = p.ref /\ (isSet <=> p.ref \in DOMAIN e)
  BY <1>2
<1> HIDE DEF isSet
<1>6. CASE p.default = None /\ isSet
  BY <1>1, <1>2, <1>3, <1>5, <1>6 DEF Given, inner
<1>7. CASE p.default = None /\ ~isSet
  BY <1>1, <1>2, <1>3, <1>5, <1>7 DEF Given, inner
<1>8. CASE p.default # None /\ isSet
  BY <1>1, <1>2, <1>4, <1>5, <1>8 DEF Given, inner
<1>9. CASE p.default # None /\ ~isSet
  BY <1>1, <1>2, <1>4, <1>5, <1>9 DEF Given, inner
<1> QED BY <1>6, <1>7, <1>8, <1>9

(* A piece is of one of three kinds.                                       *)
LEMMA PieceKinds ==
  ASSUME NEW p \in Piece
  PROVE  \/ DOMAIN p = {"lit"} /\ p.lit \in Seq(Tokens)
         \/ DOMAIN p = {"raw"} /\ p.raw \in Seq(Tokens)
         \/ IsRef(p)
<1>1. CASE p \in [lit : Seq(STRING)]
  <2>1. DOMAIN p = {"lit"} /\ p.lit \in Seq(STRING)
    BY <1>1
  <2> QED BY <2>1, TokensHold
<1>2. CASE p \in [raw : Seq(STRING)]
  <2>1. DOMAIN p = {"raw"} /\ p.raw \in Seq(STRING)
    BY <1>2
  <2> QED BY <2>1, TokensHold
<1>3. CASE p \in [ref : STRING \ {"}", ":-", Blank}, default : {None} \union Seq(STRING \ {"}"})]
  <2>1. p \in [ref : STRING \ {RightBrace, ":-", Blank}, default : {None} \union Seq(STRING \ {RightBrace})]
    BY <1>3, Zenon DEF RightBrace
  <2>2. /\ DOMAIN p = {"ref", "default"} /\ p.ref \in STRING \ {RightBrace, ":-", Blank}
        /\ p.default = None \/ p.default \in Seq(STRING \ {RightBrace})
    BY <2>1
  <2> QED BY <2>2 DEF IsRef
<1> QED BY <1>1, <1>2, <1>3, Zenon DEF Piece

LEMMA SourceOfPiece ==
  ASSUME NEW p \in Piece
  PROVE  /\ DOMAIN p = {"lit"} => SourceOf(p) = Mapped(Doubled, p.lit)
         /\ DOMAIN p = {"raw"} => SourceOf(p) = p.raw
         /\ IsRef(p) => SourceOf(p) = Reference(Inner(p))
         /\ SourceOf(p) \in Seq(Tokens)
<1>1. ASSUME DOMAIN p = {"lit"}, p.lit \in Seq(Tokens)
      PROVE  SourceOf(p) = Mapped(Doubled, p.lit) /\ SourceOf(p) \in Seq(Tokens)
  <2> DEFINE l == p.lit
  <2>1. SourceOf(p) = FlattenSeq([i \in DOMAIN l |->
                        IF l[i] = "$" THEN <<"$", "$">> ELSE <<l[i]>>])
    <3>1. "lit" \in DOMAIN p /\ "ref" \notin DOMAIN p /\ "raw" \notin DOMAIN p
      BY <1>1
    <3> QED BY <3>1, Zenon DEF SourceOf
  <2>2. \A i \in DOMAIN l : l[i] \in Tokens
    BY <1>1
  <2>3. \A i \in DOMAIN l : Doubled[l[i]] = IF l[i] = "$" THEN <<"$", "$">> ELSE <<l[i]>>
    BY <2>2 DEF Doubled
  <2>4. [i \in DOMAIN l |-> IF l[i] = "$" THEN <<"$", "$">> ELSE <<l[i]>>] =
          [i \in DOMAIN l |-> Doubled[l[i]]]
    BY <2>3
  <2>5. SourceOf(p) = Mapped(Doubled, l)
    BY <2>1, <2>4 DEF Mapped
  <2>6. Mapped(Doubled, l) \in Seq(Tokens)
    BY <1>1, DoubledType, MappedType
  <2> QED BY <2>5, <2>6
<1>2. ASSUME DOMAIN p = {"raw"}, p.raw \in Seq(Tokens)
      PROVE  SourceOf(p) = p.raw
  <2>1. "lit" \notin DOMAIN p /\ "ref" \notin DOMAIN p /\ "raw" \in DOMAIN p
    BY <1>2
  <2> QED BY <2>1, Zenon DEF SourceOf
<1>3. ASSUME IsRef(p)
      PROVE  SourceOf(p) = Reference(Inner(p)) /\ SourceOf(p) \in Seq(Tokens)
  <2> DEFINE r == p.ref
             d == p.default
             u == <<r>>
             a == <<"$", LeftBrace>>
             b == <<"$", LeftBrace, r>>
             x == IF d = None THEN <<>> ELSE <<":-">> \o d
  <2>1. SourceOf(p) = (b \o x) \o <<RightBrace>>
    <3>1. "lit" \notin DOMAIN p /\ "ref" \in DOMAIN p /\ "raw" \notin DOMAIN p
      BY <1>3 DEF IsRef
    <3> QED BY <3>1, Zenon DEF SourceOf, LeftBrace, RightBrace
  <2>2. r \in Tokens /\ "$" \in Tokens /\ LeftBrace \in Tokens /\ ":-" \in Tokens
    BY <1>3, TokensHold DEF IsRef
  <2>3. a \in Seq(Tokens) /\ u \in Seq(Tokens) /\ b \in Seq(Tokens) /\ <<":-">> \in Seq(Tokens)
    BY <2>2
  <2>4. a \o u = b
    <3>1. /\ Len(a) = 2 /\ Len(u) = 1 /\ Len(b) = 3
          /\ b[1] = a[1] /\ b[2] = a[2] /\ b[3] = u[1]
      OBVIOUS
    <3> HIDE DEF a, b, u
    <3>2. \A i \in 1..Len(a) : b[i] = a[i]
      <4>1. \A i \in 1..2 : i = 1 \/ i = 2
        OBVIOUS
      <4> QED BY <3>1, <4>1
    <3>3. \A i \in 1..Len(u) : b[Len(a) + i] = u[i]
      <4>1. \A i \in 1..1 : i = 1
        OBVIOUS
      <4> QED BY <3>1, <4>1
    <3>4. b = a \o u
      <4>1. Len(b) = Len(a) + Len(u)
        BY <3>1
      <4> QED BY <2>3, <3>2, <3>3, <4>1, ConcatIs
    <3> QED BY <3>4
  <2>5. x \in Seq(Tokens) /\ Inner(p) = u \o x
    <3>1. CASE d = None
      <4>1. u \o <<>> = u
        BY <2>3, ConcatEmptySeq
      <4>2. x = <<>> /\ Inner(p) = u
        BY <3>1 DEF Inner
      <4> QED BY <4>1, <4>2
    <3>2. CASE d # None
      <4>1. d \in Seq(Tokens)
        <5>1. d \in Seq(STRING \ {RightBrace}) /\ STRING \ {RightBrace} \subseteq Tokens
          BY <1>3, <3>2, TokensHold DEF IsRef
        <5> QED BY <5>1, SeqMonotonic
      <4>2. x = <<":-">> \o d /\ Inner(p) = u \o (<<":-">> \o d)
        BY <3>2 DEF Inner
      <4>3. <<":-">> \o d \in Seq(Tokens)
        BY <2>3, <4>1, ConcatProperties
      <4> QED BY <4>2, <4>3
    <3> QED BY <3>1, <3>2
  <2> HIDE DEF a, u, x
  <2>6. (a \o u) \o x = a \o (u \o x)
    BY <2>3, <2>5, Associative
  <2>7. SourceOf(p) = Reference(Inner(p))
    BY <2>1, <2>4, <2>5, <2>6 DEF Reference, a
  <2>8. Reference(Inner(p)) \in Seq(Tokens)
    <3>1. a \o Inner(p) \in Seq(Tokens)
      BY <1>3, <2>3, InnerIs, ConcatProperties
    <3>2. <<RightBrace>> \in Seq(Tokens)
      BY TokensHold
    <3>3. (a \o Inner(p)) \o <<RightBrace>> \in Seq(Tokens)
      BY <3>1, <3>2, ConcatProperties
    <3> QED BY <3>3 DEF Reference, a
  <2> QED BY <2>7, <2>8
<1>4. IsRef(p) => DOMAIN p # {"lit"} /\ DOMAIN p # {"raw"}
  <2>1. {"ref", "default"} # {"lit"} /\ {"ref", "default"} # {"raw"}
    OBVIOUS
  <2> QED BY <2>1 DEF IsRef
<1>5. {"lit"} # {"raw"}
  OBVIOUS
<1> QED BY <1>1, <1>2, <1>3, <1>4, <1>5, PieceKinds

(* What a piece means in an environment, if it means anything in it.       *)
Means(p, e) ==
  CASE "lit" \in DOMAIN p -> p.lit
    [] "raw" \in DOMAIN p -> p.raw
    [] "ref" \in DOMAIN p ->
         IF Given(p, e) THEN e[p.ref] ELSE IF p.default = None THEN <<Error>> ELSE p.default

Says(p, e) == "ref" \in DOMAIN p => Given(p, e) \/ p.default # None

LEMMA MeansIs ==
  ASSUME NEW p \in Piece, NEW e, EnvOf(e)
  PROVE  /\ DOMAIN p = {"lit"} => Means(p, e) = p.lit /\ Says(p, e)
         /\ DOMAIN p = {"raw"} => Means(p, e) = p.raw /\ Says(p, e)
         /\ IsRef(p) => Means(p, e) = Replacement(Inner(p), e)
                        /\ (~Says(p, e) => Means(p, e) = <<Error>>)
         /\ Means(p, e) \in Seq(Tokens)
<1>1. ASSUME DOMAIN p = {"lit"} PROVE Means(p, e) = p.lit /\ Says(p, e)
  <2>1. "lit" \in DOMAIN p /\ "raw" \notin DOMAIN p /\ "ref" \notin DOMAIN p
    BY <1>1
  <2> QED BY <2>1, Zenon DEF Means, Says
<1>2. ASSUME DOMAIN p = {"raw"} PROVE Means(p, e) = p.raw /\ Says(p, e)
  <2>1. "lit" \notin DOMAIN p /\ "raw" \in DOMAIN p /\ "ref" \notin DOMAIN p
    BY <1>2
  <2> QED BY <2>1, Zenon DEF Means, Says
<1>3. ASSUME IsRef(p)
      PROVE  /\ Means(p, e) = Replacement(Inner(p), e) /\ Means(p, e) \in Seq(Tokens)
             /\ ~Says(p, e) => Means(p, e) = <<Error>>
  <2>1. "lit" \notin DOMAIN p /\ "raw" \notin DOMAIN p /\ "ref" \in DOMAIN p
    BY <1>3 DEF IsRef
  <2>2. Means(p, e) = IF Given(p, e) THEN e[p.ref]
                      ELSE IF p.default = None THEN <<Error>> ELSE p.default
    BY <2>1, Zenon DEF Means
  <2>3. Means(p, e) = Replacement(Inner(p), e)
    BY <1>3, <2>2, ReplacementIs
  <2>4. Replacement(Inner(p), e) \in Seq(Tokens)
    <3>1. Inner(p) \in Seq(Tokens)
      BY <1>3, InnerIs
    <3> QED BY <3>1, ReplacementType
  <2>5. ~Says(p, e) => Means(p, e) = <<Error>>
    BY <2>1, <2>2 DEF Says
  <2> QED BY <2>3, <2>4, <2>5
<1> QED BY <1>1, <1>2, <1>3, PieceKinds

(* The scanner makes of a piece what it means, or the text is refused.     *)
LEMMA PieceReplaced ==
  ASSUME NEW p \in Piece, NEW rest \in Seq(Tokens), NEW e, EnvOf(e),
         "raw" \in DOMAIN p => RawBefore(p.raw, rest)
  PROVE  \/ Bad(Replaced(SourceOf(p) \o rest, e))
         \/ /\ Replaced(SourceOf(p) \o rest, e) = Means(p, e) \o Replaced(rest, e)
            /\ Says(p, e)
<1>1. CASE DOMAIN p = {"lit"} /\ p.lit \in Seq(Tokens)
  <2>1. SourceOf(p) = Mapped(Doubled, p.lit) /\ Means(p, e) = p.lit /\ Says(p, e)
    BY <1>1, SourceOfPiece, MeansIs
  <2>2. Replaced(Mapped(Doubled, p.lit) \o rest, e) = p.lit \o Replaced(rest, e)
    BY <1>1, LitReplaced
  <2> QED BY <2>1, <2>2
<1>2. CASE DOMAIN p = {"raw"} /\ p.raw \in Seq(Tokens)
  <2>1. SourceOf(p) = p.raw /\ Means(p, e) = p.raw /\ Says(p, e)
    BY <1>2, SourceOfPiece, MeansIs
  <2>2. "raw" \in DOMAIN p
    BY <1>2
  <2> DEFINE raw == p.raw
  <2>3. raw \in Seq(Tokens) /\ RawBefore(raw, rest)
    BY <1>2, <2>2
  <2> HIDE DEF raw
  <2>4. Bad(Replaced(raw \o rest, e)) \/ Replaced(raw \o rest, e) = raw \o Replaced(rest, e)
    BY <2>3, RawReplaced
  <2> QED BY <2>1, <2>4 DEF raw
<1>3. CASE IsRef(p)
  <2> DEFINE i == Inner(p)
             out == Replaced(rest, e)
  <2>1. SourceOf(p) = Reference(i) /\ Means(p, e) = Replacement(i, e)
    BY <1>3, SourceOfPiece, MeansIs
  <2>2. i \in Seq(Tokens) /\ \A j \in 1..Len(i) : i[j] # RightBrace
    BY <1>3, InnerIs
  <2> HIDE DEF i
  <2>3. Replaced(Reference(i) \o rest, e) = Replacement(i, e) \o out
    BY <2>2, RefReplaced
  <2>4. ASSUME ~Says(p, e) PROVE Bad(Replacement(i, e) \o out)
    <3>1. Replacement(i, e) = <<Error>>
      BY <1>3, <2>1, <2>4, MeansIs
    <3>2. <<Error>> \in Seq(Tokens) /\ out \in Seq(Tokens)
      <4>1. Error \in Tokens
        BY TokensHold
      <4> QED BY <4>1, ReplacedType, TokensHold
    <3>3. Bad(<<Error>>)
      <4>1. 1 \in DOMAIN <<Error>> /\ <<Error>>[1] = Error
        OBVIOUS
      <4> QED BY <4>1 DEF Bad
    <3> QED BY <3>1, <3>2, <3>3, BadStays
  <2> QED BY <2>1, <2>3, <2>4
<1> QED BY <1>1, <1>2, <1>3, PieceKinds

(* A text that is not refused is what its pieces mean.                     *)
SourceMap == [p \in Piece |-> SourceOf(p)]
MeaningMap(e) == [p \in Piece |-> Means(p, e)]

LEMMA SourceIsMapped ==
  ASSUME NEW pieces \in Seq(Piece)
  PROVE  /\ SourceMap \in [Piece -> Seq(Tokens)]
         /\ Source(pieces) = Mapped(SourceMap, pieces) /\ Source(pieces) \in Seq(Tokens)
<1>1. \A p \in Piece : SourceOf(p) \in Seq(Tokens)
  BY SourceOfPiece
<1>2. SourceMap \in [Piece -> Seq(Tokens)]
  BY <1>1 DEF SourceMap
<1>3. \A i \in DOMAIN pieces : pieces[i] \in Piece
  OBVIOUS
<1>4. \A i \in DOMAIN pieces : SourceMap[pieces[i]] = SourceOf(pieces[i])
  BY <1>3 DEF SourceMap
<1>5. [i \in DOMAIN pieces |-> SourceMap[pieces[i]]] = [i \in DOMAIN pieces |-> SourceOf(pieces[i])]
  BY <1>4
<1>6. Source(pieces) = Mapped(SourceMap, pieces)
  BY <1>5, Zenon DEF Source, Mapped
<1>7. Mapped(SourceMap, pieces) \in Seq(Tokens)
  BY <1>2, MappedType
<1> QED BY <1>2, <1>6, <1>7

(* For every text and environment: a text that is not refused comes out as *)
(* what its pieces mean - literals as they were written, a variable as its *)
(* value, or as its default when it is not set or is empty -, and every    *)
(* variable without a default is set (interpolate_with).                   *)
THEOREM TextReplaced ==
  ASSUME NEW pieces, InPieces(pieces), NEW e, EnvOf(e), ~Refuses(Source(pieces), e)
  PROVE  /\ Replaced(Source(pieces), e) = Mapped(MeaningMap(e), pieces)
         /\ \A k \in DOMAIN pieces : Says(pieces[k], e)
<1> DEFINE L == Len(pieces)
           F == MeaningMap(e)
           T(k) == Source(After(pieces, k))
           P(k) == \/ Bad(Replaced(T(k), e))
                   \/ /\ Replaced(T(k), e) = Mapped(F, After(pieces, k))
                      /\ \A j \in (k + 1)..L : Says(pieces[j], e)
           S == {k \in 0..L : P(k)}
<1>1. pieces \in Seq(Piece) /\ L \in Nat /\ DOMAIN pieces = 1..L
  BY DEF InPieces
<1>2. F \in [Piece -> Seq(Tokens)] /\ \A p \in Piece : F[p] = Means(p, e)
  <2>1. \A p \in Piece : Means(p, e) \in Seq(Tokens)
    BY MeansIs
  <2> QED BY <2>1 DEF MeaningMap
<1> HIDE DEF F
<1>3. L \in S
  <2>1. After(pieces, L) = <<>>
    BY <1>1, AfterAll
  <2>2. T(L) = <<>> /\ Mapped(F, <<>>) = <<>>
    <3>1. <<>> \in Seq(Piece)
      OBVIOUS
    <3>2. Source(<<>>) = Mapped(SourceMap, <<>>)
      BY <3>1, SourceIsMapped
    <3> QED BY <2>1, <3>2, MappedNothing
  <2>3. Replaced(T(L), e) = Mapped(F, After(pieces, L))
    BY <2>1, <2>2, ReplacedNothing
  <2>4. \A j \in (L + 1)..L : Says(pieces[j], e)
    BY <1>1
  <2>5. P(L)
    BY <2>3, <2>4, Zenon
  <2>6. L \in 0..L
    BY <1>1
  <2> QED BY <2>5, <2>6
<1>4. ASSUME NEW k \in 0..(L - 1), k + 1 \in S PROVE k \in S
  <2> DEFINE p == pieces[k + 1]
             rest == T(k + 1)
             m == Means(p, e)
             out == Replaced(rest, e)
  <2>1. P(k + 1)
    BY <1>4
  <2>2. p \in Piece /\ k + 1 \in DOMAIN pieces
    BY <1>1
  <2>3. T(k) = SourceOf(p) \o rest /\ rest \in Seq(Tokens)
    <3> DEFINE q == k + 1
    <3>1. q \in 0..Len(pieces)
      BY <1>1
    <3> HIDE DEF q
    <3>2. After(pieces, k) \in Seq(Piece) /\ After(pieces, q) \in Seq(Piece)
      <4>1. k \in 0..Len(pieces)
        BY <1>1
      <4> QED BY <1>1, <3>1, <4>1, AfterIs
    <3>3. /\ T(k) = Mapped(SourceMap, After(pieces, k))
          /\ T(q) = Mapped(SourceMap, After(pieces, q)) /\ T(q) \in Seq(Tokens)
      BY <3>2, SourceIsMapped
    <3>4. Mapped(SourceMap, After(pieces, k)) = SourceMap[p] \o Mapped(SourceMap, After(pieces, k + 1))
      BY <1>1, SourceIsMapped, MappedNext
    <3>5. SourceMap[p] = SourceOf(p)
      BY <2>2 DEF SourceMap
    <3> QED BY <3>3, <3>4, <3>5 DEF q
  <2>4. Mapped(F, After(pieces, k)) = m \o Mapped(F, After(pieces, k + 1))
    <3>1. Mapped(F, After(pieces, k)) = F[p] \o Mapped(F, After(pieces, k + 1))
      BY <1>1, <1>2, MappedNext
    <3> QED BY <1>2, <2>2, <3>1
  <2>5. "raw" \in DOMAIN p => RawBefore(p.raw, rest)
    <3>1. \A j \in DOMAIN pieces :
            "raw" \in DOMAIN pieces[j] => RawBefore(pieces[j].raw, T(j))
      BY Zenon DEF InPieces, After
    <3> QED BY <2>2, <3>1, Zenon
  <2>6. m \in Seq(Tokens) /\ out \in Seq(Tokens)
    BY <2>2, <2>3, MeansIs, ReplacedType
  <2>7. \/ Bad(Replaced(T(k), e))
        \/ Replaced(T(k), e) = m \o out /\ Says(p, e)
    <3> HIDE DEF p, rest, T
    <3>1. \/ Bad(Replaced(SourceOf(p) \o rest, e))
          \/ Replaced(SourceOf(p) \o rest, e) = m \o out /\ Says(p, e)
      BY <2>2, <2>3, <2>5, PieceReplaced
    <3> QED BY <2>3, <3>1
  <2>8. P(k)
    <3>1. CASE Bad(Replaced(T(k), e))
      BY <3>1
    <3>2. CASE Replaced(T(k), e) = m \o out /\ Says(p, e)
      <4>1. CASE Bad(out)
        <5>1. Bad(m \o out)
          BY <2>6, <4>1, BadStays
        <5> QED BY <3>2, <5>1
      <4>2. CASE /\ out = Mapped(F, After(pieces, k + 1))
                 /\ \A j \in ((k + 1) + 1)..L : Says(pieces[j], e)
        <5>1. Replaced(T(k), e) = Mapped(F, After(pieces, k))
          BY <2>4, <3>2, <4>2
        <5>2. \A j \in (k + 1)..L : j = k + 1 \/ j \in ((k + 1) + 1)..L
          BY <1>1
        <5>3. \A j \in (k + 1)..L : Says(pieces[j], e)
          BY <3>2, <4>2, <5>2
        <5> QED BY <5>1, <5>3
      <4> QED BY <2>1, <4>1, <4>2
    <3> QED BY <2>7, <3>1, <3>2
  <2> QED BY <2>8
<1>5. 0 \in S
  <2> HIDE DEF S, L
  <2> QED BY <1>1, <1>3, <1>4, SuffixInduction
<1>6. After(pieces, 0) = pieces
  BY <1>1, AfterAll
<1>7. ~Bad(Replaced(Source(pieces), e))
  BY Zenon DEF Refuses, Bad
<1>8. /\ Replaced(Source(pieces), e) = Mapped(F, pieces)
      /\ \A j \in (0 + 1)..L : Says(pieces[j], e)
  BY <1>5, <1>6, <1>7
<1> QED BY <1>1, <1>8 DEF F

---------------------------------------------------------------------------
(* The templates of init: a text is one piece.                             *)
LEMMA OnePiece ==
  ASSUME NEW p \in Piece, "raw" \notin DOMAIN p
  PROVE  /\ InPieces(<<p>>)
         /\ \A e : EnvOf(e) /\ ~Refuses(Source(<<p>>), e) =>
              Replaced(Source(<<p>>), e) = Means(p, e) /\ Says(p, e)
<1> DEFINE s == <<p>>
<1>1. s \in Seq(Piece) /\ DOMAIN s = {1} /\ s[1] = p
  OBVIOUS
<1> HIDE DEF s
<1>2. InPieces(s)
  BY <1>1, Zenon DEF InPieces
<1>3. ASSUME NEW e, EnvOf(e), ~Refuses(Source(s), e)
      PROVE  Replaced(Source(s), e) = Means(p, e) /\ Says(p, e)
  <2>1. Replaced(Source(s), e) = Mapped(MeaningMap(e), s) /\ Says(p, e)
    BY <1>1, <1>2, <1>3, TextReplaced
  <2>2. Mapped(MeaningMap(e), s) = Means(p, e)
    <3> DEFINE w == Means(p, e)
               m == [k \in DOMAIN s |-> MeaningMap(e)[s[k]]]
    <3>1. MeaningMap(e)[p] = w
      BY DEF MeaningMap
    <3> HIDE DEF w
    <3>2. m = <<w>>
      BY <1>1, <3>1
    <3>3. Mapped(MeaningMap(e), s) = FlattenSeq(m)
      BY Zenon DEF Mapped
    <3> HIDE DEF m
    <3>4. Mapped(MeaningMap(e), s) = w
      BY <3>2, <3>3, FlattenOne
    <3> QED BY <3>4 DEF w
  <2> QED BY <2>1, <2>2
<1> QED BY <1>2, <1>3, Zenon DEF s

LEMMA MinimalTexts ==
  LET t == MinimalTemplate.texts
  IN /\ DOMAIN t = RequiredTexts /\ DOMAIN MinimalRefs = RequiredTexts \ {"model.tokenizer.path"}
     /\ \A n \in DOMAIN MinimalRefs :
          t[n] = <<Ref(MinimalRefs[n])>> /\ Ref(MinimalRefs[n]) \in Piece
     /\ t["model.tokenizer.path"] = <<Lit(MinimalTokenizer)>> /\ Lit(MinimalTokenizer) \in Piece
<1> DEFINE t == MinimalTemplate.texts
<1>1. /\ DOMAIN t = RequiredTexts
      /\ t["model.base_url"] = <<Ref("LOCAL_ROUTER_BASEURL")>>
      /\ t["model.api_key"] = <<Ref("LOCAL_ROUTER_API_KEY")>>
      /\ t["model.model_name"] = <<Ref("LLM_MODEL")>>
      /\ t["model.tokenizer.path"] = <<Lit(MinimalTokenizer)>>
  BY DEF MinimalTemplate, RequiredTexts, MinimalTokenizer
<1>2. /\ DOMAIN MinimalRefs = {"model.base_url", "model.api_key", "model.model_name"}
      /\ MinimalRefs["model.base_url"] = "LOCAL_ROUTER_BASEURL"
      /\ MinimalRefs["model.api_key"] = "LOCAL_ROUTER_API_KEY"
      /\ MinimalRefs["model.model_name"] = "LLM_MODEL"
  BY DEF MinimalRefs
<1> HIDE DEF t
<1>3. DOMAIN MinimalRefs = RequiredTexts \ {"model.tokenizer.path"}
  BY <1>2 DEF RequiredTexts
<1>4. \A n \in DOMAIN MinimalRefs : t[n] = <<Ref(MinimalRefs[n])>>
  BY <1>1, <1>2
<1>5. \A x \in {"LOCAL_ROUTER_BASEURL", "LOCAL_ROUTER_API_KEY", "LLM_MODEL"} : Ref(x) \in Piece
  <2>1. \A x \in {"LOCAL_ROUTER_BASEURL", "LOCAL_ROUTER_API_KEY", "LLM_MODEL"} :
          x \in STRING /\ x \notin {"}", ":-", Blank}
    <3>1. \A x \in {"LOCAL_ROUTER_BASEURL", "LOCAL_ROUTER_API_KEY", "LLM_MODEL"} :
            x \notin {"}", ":-", Blank}
      BY Zenon DEF Blank
    <3> QED BY <3>1, WordsAssumption, Zenon
  <2> DEFINE N == STRING \ {"}", ":-", Blank}
             D == {None} \union Seq(STRING \ {"}"})
  <2>2. \A x \in {"LOCAL_ROUTER_BASEURL", "LOCAL_ROUTER_API_KEY", "LLM_MODEL"} : x \in N
    BY <2>1, Zenon
  <2>3. None \in D
    BY Zenon
  <2>4. [ref : N, default : D] \subseteq Piece
    BY Zenon DEF Piece
  <2> HIDE DEF N, D
  <2>5. \A x \in N : Ref(x) \in [ref : N, default : D]
    BY <2>3 DEF Ref
  <2> QED BY <2>2, <2>4, <2>5
<1>6. \A n \in DOMAIN MinimalRefs : Ref(MinimalRefs[n]) \in Piece
  BY <1>2, <1>5
<1>7. Lit(MinimalTokenizer) \in Piece
  <2>1. MinimalTokenizer \in Seq(STRING)
    <3> DEFINE S == STRING
    <3> HIDE DEF S
    <3>1. \A w \in S : <<w>> \in Seq(S)
      OBVIOUS
    <3> QED BY <3>1, WordsAssumption, Zenon DEF MinimalTokenizer, S
  <2>2. Lit(MinimalTokenizer) \in [lit : Seq(STRING)]
    BY <2>1 DEF Lit
  <2> QED BY <2>2, Zenon DEF Piece
<1> QED BY <1>1, <1>3, <1>4, <1>6, <1>7 DEF t

LEMMA TemplatesInPieces ==
  \A f \in {MinimalTemplate, FullTemplate} : \A n \in DOMAIN f.texts : InPieces(f.texts[n])
<1> DEFINE t == MinimalTemplate.texts
<1>1. FullTemplate.texts = t
  BY DEF FullTemplate
<1>2. ASSUME NEW n \in DOMAIN t PROVE InPieces(t[n])
  <2>1. CASE n \in DOMAIN MinimalRefs
    <3> DEFINE p == Ref(MinimalRefs[n])
    <3>1. p \in Piece /\ t[n] = <<p>>
      BY <2>1, MinimalTexts
    <3>2. "raw" \notin DOMAIN p
      BY DEF Ref
    <3> HIDE DEF p
    <3> QED BY <3>1, <3>2, OnePiece
  <2>2. CASE n = "model.tokenizer.path"
    <3>1. "raw" \notin DOMAIN Lit(MinimalTokenizer)
      BY DEF Lit
    <3> QED BY <2>2, <3>1, MinimalTexts, OnePiece
  <2> QED BY <2>1, <2>2, MinimalTexts
<1> QED BY <1>1, <1>2

(* When the text of the template is not refused, its variables are set and *)
(* it is their values.                                                     *)
LEMMA EnvTexts == EnvTyped => EnvOf(env)
BY TokensHold DEF EnvTyped, EnvOf

LEMMA MinimalReplaced ==
  ASSUME EnvTyped,
         ~ \E n \in DOMAIN MinimalTemplate.texts : Refuses(Source(MinimalTemplate.texts[n]), env)
  PROVE  /\ RefsSet
         /\ \A n \in DOMAIN MinimalRefs :
              Replaced(Source(MinimalTemplate.texts[n]), env) = env[MinimalRefs[n]]
         /\ Replaced(Source(MinimalTemplate.texts["model.tokenizer.path"]), env) = MinimalTokenizer
<1> DEFINE t == MinimalTemplate.texts
<1>1. EnvOf(env)
  BY EnvTexts
<1>2. ASSUME NEW n \in DOMAIN MinimalRefs
      PROVE  MinimalRefs[n] \in DOMAIN env
             /\ Replaced(Source(t[n]), env) = env[MinimalRefs[n]]
  <2> DEFINE p == Ref(MinimalRefs[n])
  <2>1. p \in Piece /\ t[n] = <<p>> /\ n \in DOMAIN t
    BY MinimalTexts
  <2>2. DOMAIN p = {"ref", "default"} /\ p.ref = MinimalRefs[n] /\ p.default = None
    BY DEF Ref
  <2> HIDE DEF p
  <2>3. Replaced(Source(t[n]), env) = Means(p, env) /\ Says(p, env)
    BY <1>1, <2>1, <2>2, OnePiece
  <2>4. Given(p, env)
    BY <2>2, <2>3 DEF Says
  <2>5. Means(p, env) = env[p.ref]
    <3>1. "lit" \notin DOMAIN p /\ "raw" \notin DOMAIN p /\ "ref" \in DOMAIN p
      BY <2>2
    <3> QED BY <2>4, <3>1, Zenon DEF Means
  <2> QED BY <2>2, <2>3, <2>4, <2>5 DEF Given
<1>3. Replaced(Source(t["model.tokenizer.path"]), env) = MinimalTokenizer
  <2> DEFINE p == Lit(MinimalTokenizer)
  <2>1. p \in Piece /\ t["model.tokenizer.path"] = <<p>> /\ "model.tokenizer.path" \in DOMAIN t
    BY MinimalTexts DEF RequiredTexts
  <2>2. DOMAIN p = {"lit"} /\ p.lit = MinimalTokenizer
    BY DEF Lit
  <2> HIDE DEF p
  <2>3. Replaced(Source(t["model.tokenizer.path"]), env) = Means(p, env)
    BY <1>1, <2>1, <2>2, OnePiece
  <2>4. Means(p, env) = p.lit
    BY <1>1, <2>1, <2>2, MeansIs
  <2> QED BY <2>2, <2>3, <2>4
<1> QED BY <1>2, <1>3 DEF RefsSet

---------------------------------------------------------------------------
(* The settings the minimal template leaves out have the defaults of a     *)
(* file, those of default_config.                                          *)
LEMMA MinimalParsed ==
  ASSUME NEW texts, RefsSet,
         \A n \in DOMAIN MinimalRefs : texts[n] = env[MinimalRefs[n]],
         texts["model.tokenizer.path"] = MinimalTokenizer
  PROVE  LET g == MinimalTemplate.given
             Text(n) == Trim(texts[n])
         IN ConfigWith(Setting(g, "version", 1),
              ModelSection(Text("model.base_url"), Text("model.api_key"), Text("model.model_name"),
                           Text("model.tokenizer.path"), g),
              DocRunnerSection(g["doc_runner.allow_programs"], g), g) = MinimalConfig
<1> DEFINE g == MinimalTemplate.given
<1>1. DOMAIN g = {"doc_runner.allow_programs"} /\ g["doc_runner.allow_programs"] = DefaultAllowPrograms
  BY DEF MinimalTemplate, DefaultAllowPrograms
<1>2. \A n, d : n # "doc_runner.allow_programs" => Setting(g, n, d) = d /\ Setting(NoSettings, n, d) = d
  <2> HIDE DEF g
  <2> QED BY <1>1 DEF Setting, NoSettings
<1> HIDE DEF g
<1>3. Setting(g, "version", 1) = 1
  BY <1>2
<1>4. \A u, k, m, t : ModelSection(u, k, m, t, g) = ModelSection(u, k, m, t, NoSettings)
  BY <1>2 DEF ModelSection
<1>5. \A p : DocRunnerSection(p, g) = DocRunnerSection(p, NoSettings)
  BY <1>2 DEF DocRunnerSection
<1>6. \A v, m, r : ConfigWith(v, m, r, g) = ConfigWith(v, m, r, NoSettings)
  <2> DEFINE none == NoSettings
  <2>0. \A n, d : n # "doc_runner.allow_programs" => Setting(g, n, d) = Setting(none, n, d)
    BY <1>2
  <2> HIDE DEF none
  <2>1. ThinkingSection(g) = ThinkingSection(none)
    BY <2>0 DEF ThinkingSection
  <2>2. RuntimeSection(g) = RuntimeSection(none)
    BY <2>0, ZenonT(30) DEF RuntimeSection
  <2>3. SearchSection(g) = SearchSection(none)
    BY <2>0, Zenon DEF SearchSection
  <2>4. DocStoreSection(g) = DocStoreSection(none)
    BY <2>0, Zenon DEF DocStoreSection
  <2>5. SubagentsSection(g) = SubagentsSection(none)
    BY <2>0, Zenon DEF SubagentsSection
  <2>6. ProposalSection(g) = ProposalSection(none)
    BY <2>0, Zenon DEF ProposalSection
  <2>7. ApprovalSection(g) = ApprovalSection(none)
    BY <2>0, Zenon DEF ApprovalSection
  <2>8. ExecutionRunnerSection(g) = ExecutionRunnerSection(none)
    BY <2>0 DEF ExecutionRunnerSection
  <2>9. RiskSection(g) = RiskSection(none)
    BY <2>0 DEF RiskSection
  <2> QED
    BY <2>1, <2>2, <2>3, <2>4, <2>5, <2>6, <2>7, <2>8, <2>9, Zenon DEF ConfigWith, none
<1>7. \A n \in {"model.base_url", "model.api_key", "model.model_name"} : n \in DOMAIN MinimalRefs
  BY DEF MinimalRefs
<1>8. Trim(MinimalTokenizer) = MinimalTokenizer
  <2>1. "~/.local/share/models/qwen/tokenizer.json" # Blank
    BY Zenon DEF Blank
  <2> QED BY <2>1, TrimOfWord DEF MinimalTokenizer
<1>9. MinimalConfig =
        ConfigWith(1, ModelSection(Trim(env[MinimalRefs["model.base_url"]]),
                                   Trim(env[MinimalRefs["model.api_key"]]),
                                   Trim(env[MinimalRefs["model.model_name"]]),
                                   MinimalTokenizer, NoSettings),
                   DocRunnerSection(DefaultAllowPrograms, NoSettings), NoSettings)
  BY Zenon DEF MinimalConfig
<1>10. /\ texts["model.base_url"] = env[MinimalRefs["model.base_url"]]
       /\ texts["model.api_key"] = env[MinimalRefs["model.api_key"]]
       /\ texts["model.model_name"] = env[MinimalRefs["model.model_name"]]
  BY <1>7
<1>11. ConfigWith(Setting(g, "version", 1),
         ModelSection(Trim(texts["model.base_url"]), Trim(texts["model.api_key"]),
                      Trim(texts["model.model_name"]), Trim(texts["model.tokenizer.path"]), g),
         DocRunnerSection(g["doc_runner.allow_programs"], g), g) = MinimalConfig
  <2>1. ModelSection(Trim(texts["model.base_url"]), Trim(texts["model.api_key"]),
                     Trim(texts["model.model_name"]), Trim(texts["model.tokenizer.path"]), g) =
          ModelSection(Trim(env[MinimalRefs["model.base_url"]]), Trim(env[MinimalRefs["model.api_key"]]),
                       Trim(env[MinimalRefs["model.model_name"]]), MinimalTokenizer, NoSettings)
    BY <1>4, <1>8, <1>10, ZenonT(30)
  <2>2. DocRunnerSection(g["doc_runner.allow_programs"], g) =
          DocRunnerSection(DefaultAllowPrograms, NoSettings)
    BY <1>1, <1>5, Zenon
  <2> QED BY <1>3, <1>6, <1>9, <2>1, <2>2, Zenon
<1> QED BY <1>11 DEF g

(* The overrides of the environment, section by section.                   *)
LEMMA ModelBySettings ==
  \A u, k, m, t :
    ModelWithEnvironment(ModelSection(u, k, m, t, NoSettings)) =
      ModelSection(OrElse(FirstNonEmpty(BaseUrlVars), u), OrElse(FirstValue(ApiKeyVars), k),
                   OrElse(FirstNonEmpty(ModelNameVars), m), OrElse(FirstNonEmpty(TokenizerVars), t),
                   NoSettings)
<1> DEFINE U == FirstNonEmpty(BaseUrlVars)
           K == FirstValue(ApiKeyVars)
           N == FirstNonEmpty(ModelNameVars)
           P == FirstNonEmpty(TokenizerVars)
<1> HIDE DEF U, K, N, P
<1>1. \A m : ModelWithEnvironment(m) =
               [[[[m EXCEPT !.base_url = OrElse(U, @)] EXCEPT !.api_key = OrElse(K, @)]
                    EXCEPT !.model_name = OrElse(N, @)] EXCEPT !.tokenizer.path = OrElse(P, @)]
  BY DEF ModelWithEnvironment, U, K, N, P
<1>2. \A u, k, m, t :
        [ModelSection(u, k, m, t, NoSettings) EXCEPT !.base_url = OrElse(U, @)] =
          ModelSection(OrElse(U, u), k, m, t, NoSettings)
  BY DEF ModelSection
<1>3. \A u, k, m, t :
        [ModelSection(u, k, m, t, NoSettings) EXCEPT !.api_key = OrElse(K, @)] =
          ModelSection(u, OrElse(K, k), m, t, NoSettings)
  BY DEF ModelSection
<1>4. \A u, k, m, t :
        [ModelSection(u, k, m, t, NoSettings) EXCEPT !.model_name = OrElse(N, @)] =
          ModelSection(u, k, OrElse(N, m), t, NoSettings)
  BY DEF ModelSection
<1>5. \A u, k, m, t :
        [ModelSection(u, k, m, t, NoSettings) EXCEPT !.tokenizer.path = OrElse(P, @)] =
          ModelSection(u, k, m, OrElse(P, t), NoSettings)
  BY DEF ModelSection
<1>6. \A u, k, m, t :
        ModelWithEnvironment(ModelSection(u, k, m, t, NoSettings)) =
          ModelSection(OrElse(U, u), OrElse(K, k), OrElse(N, m), OrElse(P, t), NoSettings)
  <2> TAKE u, k, m, t
  <2> DEFINE s0 == ModelSection(u, k, m, t, NoSettings)
             s1 == ModelSection(OrElse(U, u), k, m, t, NoSettings)
             s2 == ModelSection(OrElse(U, u), OrElse(K, k), m, t, NoSettings)
             s3 == ModelSection(OrElse(U, u), OrElse(K, k), OrElse(N, m), t, NoSettings)
             s4 == ModelSection(OrElse(U, u), OrElse(K, k), OrElse(N, m), OrElse(P, t), NoSettings)
  <2>1. /\ [s0 EXCEPT !.base_url = OrElse(U, @)] = s1 /\ [s1 EXCEPT !.api_key = OrElse(K, @)] = s2
        /\ [s2 EXCEPT !.model_name = OrElse(N, @)] = s3
        /\ [s3 EXCEPT !.tokenizer.path = OrElse(P, @)] = s4
    <3>1. [s0 EXCEPT !.base_url = OrElse(U, @)] = s1
      BY <1>2
    <3>2. [s1 EXCEPT !.api_key = OrElse(K, @)] = s2
      BY <1>3
    <3>3. [s2 EXCEPT !.model_name = OrElse(N, @)] = s3
      BY <1>4
    <3>4. [s3 EXCEPT !.tokenizer.path = OrElse(P, @)] = s4
      BY <1>5
    <3> HIDE DEF s0, s1, s2, s3, s4
    <3> QED BY <3>1, <3>2, <3>3, <3>4
  <2> HIDE DEF s0, s1, s2, s3, s4
  <2>2. ModelWithEnvironment(s0) = s4
    BY <1>1, <2>1
  <2> QED BY <2>2 DEF s0, s4
<1> QED BY <1>6 DEF U, K, N, P

LEMMA ConfigBySections ==
  \A m, r :
    WithEnvironment(ConfigWith(1, m, r, NoSettings)) =
      [ConfigWith(1, ModelWithEnvironment(m),
                  [r EXCEPT !.allow_programs = EnvList(ProgramsVar, @)], NoSettings)
         EXCEPT !.search.default_enabled = EnvBool(SearchVar, @)]
<1> DEFINE L(x) == EnvList(ProgramsVar, x)
           B(x) == EnvBool(SearchVar, x)
<1> HIDE DEF L, B
<1>1. \A c : WithEnvironment(c) =
               [[[c EXCEPT !.model = ModelWithEnvironment(@)]
                    EXCEPT !.doc_runner.allow_programs = L(@)]
                    EXCEPT !.search.default_enabled = B(@)]
  BY DEF WithEnvironment, L, B
<1>2. \A m, r : [ConfigWith(1, m, r, NoSettings) EXCEPT !.model = ModelWithEnvironment(@)] =
                  ConfigWith(1, ModelWithEnvironment(m), r, NoSettings)
  BY DEF ConfigWith
<1>3. \A m, r : [ConfigWith(1, m, r, NoSettings) EXCEPT !.doc_runner.allow_programs = L(@)] =
                  ConfigWith(1, m, [r EXCEPT !.allow_programs = L(@)], NoSettings)
  BY DEF ConfigWith
<1>4. \A m, r :
        WithEnvironment(ConfigWith(1, m, r, NoSettings)) =
          [ConfigWith(1, ModelWithEnvironment(m), [r EXCEPT !.allow_programs = L(@)], NoSettings)
             EXCEPT !.search.default_enabled = B(@)]
  <2> TAKE m, r
  <2> DEFINE n == ModelWithEnvironment(m)
             c0 == ConfigWith(1, m, r, NoSettings)
             c1 == ConfigWith(1, n, r, NoSettings)
             c2 == ConfigWith(1, n, [r EXCEPT !.allow_programs = L(@)], NoSettings)
  <2>1. [c0 EXCEPT !.model = ModelWithEnvironment(@)] = c1
    BY <1>2
  <2>2. [c1 EXCEPT !.doc_runner.allow_programs = L(@)] = c2
    <3> HIDE DEF n
    <3> QED BY <1>3
  <2> HIDE DEF c0, c1, c2
  <2>3. WithEnvironment(c0) = [c2 EXCEPT !.search.default_enabled = B(@)]
    BY <1>1, <2>1, <2>2
  <2> QED BY <2>3 DEF c0, c2
<1> QED BY <1>4 DEF L, B

(* What default_config writes out is what a file's sections default to.    *)
LEMMA DefaultsAgree ==
  DefaultConfig =
    ConfigWith(1,
      ModelSection(OrElse(FirstNonEmpty(BaseUrlVars), <<"http://localhost:8317/v1">>),
                   OrElse(FirstValue(ApiKeyVars), <<>>),
                   OrElse(FirstNonEmpty(ModelNameVars), <<"qwen3.6-27b">>),
                   OrElse(FirstNonEmpty(TokenizerVars), <<"~/.local/share/models/qwen/tokenizer.json">>),
                   NoSettings),
      DocRunnerSection(EnvList(ProgramsVar, DefaultAllowPrograms), NoSettings),
      NoSettings)
<1> DEFINE u == OrElse(FirstNonEmpty(BaseUrlVars), <<"http://localhost:8317/v1">>)
           k == OrElse(FirstValue(ApiKeyVars), <<>>)
           m == OrElse(FirstNonEmpty(ModelNameVars), <<"qwen3.6-27b">>)
           t == OrElse(FirstNonEmpty(TokenizerVars), <<"~/.local/share/models/qwen/tokenizer.json">>)
           p == EnvList(ProgramsVar, DefaultAllowPrograms)
           model == [base_url |-> u, api_key |-> k, model_name |-> m,
                     provider |-> "local_openai_compatible", max_context_tokens |-> 200000,
                     tokenizer |-> [path |-> t, type |-> "huggingface_tokenizer_json"]]
           runner == [allow_programs |-> p, sandbox |-> "bwrap", timeout_ms |-> 60000,
                      max_output_bytes |-> 10485760,
                      allow_doc_actions |-> <<"help", "man", "info">>, extra_bind_ro |-> <<>>]
<1>1. DefaultConfig = ConfigWith(1, model, runner, NoSettings)
  BY DEF DefaultConfig
<1> HIDE DEF u, k, m, t, p
<1>2. \A n, d : Setting(NoSettings, n, d) = d
  BY DEF Setting, NoSettings
<1>3. ModelSection(u, k, m, t, NoSettings) = model
  <2>1. /\ Setting(NoSettings, "model.provider", "local_openai_compatible") = "local_openai_compatible"
        /\ Setting(NoSettings, "model.max_context_tokens", 200000) = 200000
        /\ Setting(NoSettings, "model.tokenizer.type", "huggingface_tokenizer_json") =
             "huggingface_tokenizer_json"
    BY <1>2
  <2> QED BY <2>1 DEF ModelSection
<1>4. DocRunnerSection(p, NoSettings) = runner
  <2>1. /\ Setting(NoSettings, "doc_runner.sandbox", "bwrap") = "bwrap"
        /\ Setting(NoSettings, "doc_runner.timeout_ms", 60000) = 60000
        /\ Setting(NoSettings, "doc_runner.max_output_bytes", 10485760) = 10485760
        /\ Setting(NoSettings, "doc_runner.allow_doc_actions", DefaultAllowDocActions) =
             <<"help", "man", "info">>
        /\ Setting(NoSettings, "doc_runner.extra_bind_ro", <<>>) = <<>>
    BY <1>2 DEF DefaultAllowDocActions
  <2> QED BY <2>1 DEF DocRunnerSection
<1> HIDE DEF model, runner
<1>5. DefaultConfig = ConfigWith(1, ModelSection(u, k, m, t, NoSettings),
                                 DocRunnerSection(p, NoSettings), NoSettings)
  BY <1>1, <1>3, <1>4
<1> QED BY <1>5 DEF u, k, m, t, p

(* The variables that make the template valid override what it says of     *)
(* them, and they override the defaults with the same values.              *)
LEMMA MinimalOverridden ==
  ASSUME EnvTyped, RefsSet, Valid(MinimalConfig)
  PROVE  WithEnvironment(MinimalConfig) = WithEnvironment(DefaultConfig)
<1>1. /\ MinimalRefs["model.base_url"] = "LOCAL_ROUTER_BASEURL"
      /\ MinimalRefs["model.api_key"] = "LOCAL_ROUTER_API_KEY"
      /\ MinimalRefs["model.model_name"] = "LLM_MODEL"
      /\ DOMAIN MinimalRefs = {"model.base_url", "model.api_key", "model.model_name"}
  BY DEF MinimalRefs
<1>2. /\ "LOCAL_ROUTER_BASEURL" \in DOMAIN env /\ "LOCAL_ROUTER_API_KEY" \in DOMAIN env
      /\ "LLM_MODEL" \in DOMAIN env
  BY <1>1 DEF RefsSet
<1>3. /\ MinimalConfig.model.base_url = Trim(env["LOCAL_ROUTER_BASEURL"])
      /\ MinimalConfig.model.model_name = Trim(env["LLM_MODEL"])
  BY <1>1 DEF MinimalConfig, ConfigWith, ModelSection
<1>4. Solid("LOCAL_ROUTER_BASEURL") /\ Solid("LLM_MODEL")
  BY <1>2, <1>3 DEF Valid, Solid
<1>5. FirstNonEmpty(BaseUrlVars) # None /\ FirstNonEmpty(ModelNameVars) # None
  <2>1. DOMAIN BaseUrlVars = {1, 2} /\ BaseUrlVars[2] = "LOCAL_ROUTER_BASEURL"
        /\ DOMAIN ModelNameVars = {1, 2} /\ ModelNameVars[2] = "LLM_MODEL"
    BY DEF BaseUrlVars, ModelNameVars
  <2>2. DOMAIN BaseUrlVars \subseteq Nat /\ DOMAIN ModelNameVars \subseteq Nat
    BY <2>1
  <2> QED BY <1>4, <2>1, <2>2, FirstNonEmptyFinds
<1>6. FirstValue(ApiKeyVars) # None
  BY <1>2, ApiKeyFound
<1>7. \A v, x : v # None => OrElse(v, x) = v
  BY DEF OrElse
<1>8. /\ \A v, x : OrElse(v, OrElse(v, x)) = OrElse(v, x)
      /\ \A n, x : EnvList(n, EnvList(n, x)) = EnvList(n, x)
  BY DEF OrElse, EnvList
<1> DEFINE Built(u, k, m, t, p) ==
      ConfigWith(1, ModelSection(u, k, m, t, NoSettings), DocRunnerSection(p, NoSettings), NoSettings)
           Search(c) == [c EXCEPT !.search.default_enabled = EnvBool(SearchVar, @)]
<1>9. \A u, k, m, t, p :
        WithEnvironment(Built(u, k, m, t, p)) =
          Search(Built(OrElse(FirstNonEmpty(BaseUrlVars), u), OrElse(FirstValue(ApiKeyVars), k),
                       OrElse(FirstNonEmpty(ModelNameVars), m),
                       OrElse(FirstNonEmpty(TokenizerVars), t), EnvList(ProgramsVar, p)))
  <2> TAKE u, k, m, t, p
  <2> DEFINE old == ModelSection(u, k, m, t, NoSettings)
             new == ModelSection(OrElse(FirstNonEmpty(BaseUrlVars), u), OrElse(FirstValue(ApiKeyVars), k),
                                 OrElse(FirstNonEmpty(ModelNameVars), m),
                                 OrElse(FirstNonEmpty(TokenizerVars), t), NoSettings)
             q == EnvList(ProgramsVar, p)
  <2>1. ModelWithEnvironment(old) = new
    BY ModelBySettings
  <2>2. [DocRunnerSection(p, NoSettings) EXCEPT !.allow_programs = EnvList(ProgramsVar, @)] =
          DocRunnerSection(q, NoSettings)
    BY DEF DocRunnerSection
  <2> HIDE DEF old, new, q
  <2>3. WithEnvironment(ConfigWith(1, old, DocRunnerSection(p, NoSettings), NoSettings)) =
          Search(ConfigWith(1, new, DocRunnerSection(q, NoSettings), NoSettings))
    BY <2>1, <2>2, ConfigBySections, ZenonT(30)
  <2> QED BY <2>3 DEF old, new, q
<1>10. MinimalConfig = Built(Trim(env["LOCAL_ROUTER_BASEURL"]), Trim(env["LOCAL_ROUTER_API_KEY"]),
                             Trim(env["LLM_MODEL"]), MinimalTokenizer, DefaultAllowPrograms)
  BY <1>1 DEF MinimalConfig
<1>11. DefaultConfig = Built(OrElse(FirstNonEmpty(BaseUrlVars), <<"http://localhost:8317/v1">>),
                             OrElse(FirstValue(ApiKeyVars), <<>>),
                             OrElse(FirstNonEmpty(ModelNameVars), <<"qwen3.6-27b">>),
                             OrElse(FirstNonEmpty(TokenizerVars), MinimalTokenizer),
                             EnvList(ProgramsVar, DefaultAllowPrograms))
  BY DefaultsAgree DEF MinimalTokenizer
<1> HIDE DEF Built, Search
<1> QED BY <1>5, <1>6, <1>7, <1>8, <1>9, <1>10, <1>11

---------------------------------------------------------------------------
(* The steps.                                                              *)
Overridden == WithCommandLine(WithEnvironment(DefaultConfig))

Sources == <<shell, dotenv, cli, files, env>>

LEMMA SourcesStay ==
  ASSUME UNCHANGED Sources
  PROVE  /\ Governing' = Governing /\ WithDotenv' = WithDotenv
         /\ (RefsSet <=> RefsSet') /\ MinimalConfig' = MinimalConfig /\ Overridden' = Overridden
<1>1. shell' = shell /\ dotenv' = dotenv /\ cli' = cli /\ files' = files /\ env' = env
  BY DEF Sources
<1>2. Governing' = Governing
  BY <1>1 DEF Governing, IsGiven, IsDefined, ValueOf, LinesBeforeFault
<1>3. WithDotenv' = WithDotenv
  BY <1>1 DEF WithDotenv, DotenvVars
<1>4. (RefsSet <=> RefsSet') /\ MinimalConfig' = MinimalConfig
  BY <1>1 DEF RefsSet, MinimalConfig
<1>5. Overridden' = Overridden
  <2>1. /\ FirstNonEmpty(BaseUrlVars)' = FirstNonEmpty(BaseUrlVars)
        /\ FirstNonEmpty(ModelNameVars)' = FirstNonEmpty(ModelNameVars)
        /\ FirstNonEmpty(TokenizerVars)' = FirstNonEmpty(TokenizerVars)
        /\ FirstValue(ApiKeyVars)' = FirstValue(ApiKeyVars)
    BY <1>1 DEF FirstNonEmpty, FirstValue, FirstOf
  <2>2. env' = env /\ cli' = cli
    BY <1>1
  <2>3. DefaultConfig' = DefaultConfig
    BY <2>1, <2>2 DEF DefaultConfig, EnvList
  <2> QED BY <2>1, <2>2, <2>3
          DEF Overridden, WithCommandLine, WithEnvironment, ModelWithEnvironment, EnvList, EnvBool
<1> QED BY <1>2, <1>3, <1>4, <1>5

LEMMA InitInv == Init => StartupInv
<1> SUFFICES ASSUME Init PROVE StartupInv
  OBVIOUS
<1>1. pc = "dotenv" /\ files \in Disks /\ failed = None
      /\ shell \in Shells /\ dotenv \in DotEnvs /\ cli \in CommandLines
  BY DEF Init
<1>2. EnvironmentInv
  BY <1>1, StartupAssumption DEF EnvironmentInv
<1>3. None # "overrides"
  BY StartupAssumption
<1> QED BY <1>1, <1>2, <1>3 DEF StartupInv, FileInv, ConfigInv, MinimalInv, OverridesKeepItValid

(* Where pc is before a configuration, or after one: nothing to carry.     *)
Idle == {"dotenv", "arguments", "resolve", "printed", "failed"}

LEMMA IdleStep ==
  ASSUME EnvironmentInv', pc' \in Idle, failed' # "overrides"
  PROVE  StartupInv'
BY DEF Idle, StartupInv, FileInv, ConfigInv, MinimalInv, OverridesKeepItValid

LEMMA EnvironmentStep ==
  ASSUME StartupInv, [Next]_vars
  PROVE  EnvironmentInv'
<1> USE DEF StartupInv, EnvironmentInv
<1>1. CASE LoadDotenv
  <2>1. UNCHANGED <<shell, dotenv, cli, files>> /\ env' = WithDotenv
    BY <1>1 DEF LoadDotenv, given
  <2>2. WithDotenv' = WithDotenv
    <3>1. DotenvVars' = DotenvVars
      BY <2>1 DEF DotenvVars
    <3> QED BY <2>1, <3>1 DEF WithDotenv
  <2> QED BY <2>1, <2>2
<1>2. CASE PrintTemplate
  <2>1. UNCHANGED <<shell, dotenv, cli, env>> /\ pc = "arguments"
    BY <1>2 DEF PrintTemplate, given
  <2>2. WithDotenv' = WithDotenv
    BY <2>1 DEF WithDotenv, DotenvVars
  <2>3. DOMAIN MinimalTemplate = {"texts", "given"} /\ DOMAIN FullTemplate = {"texts", "given"}
    BY DEF MinimalTemplate, FullTemplate
  <2>4. files' = [p \in DOMAIN files \union {Local} |->
                    IF p # Local THEN files[p]
                    ELSE IF cli.init = "full" THEN FullTemplate ELSE MinimalTemplate]
    BY <1>2 DEF PrintTemplate
  <2>5. \A p \in DOMAIN files' : files'[p] = Unreadable \/ DOMAIN files'[p] = {"texts", "given"}
    BY <2>3, <2>4
  <2> QED BY <2>1, <2>2, <2>5
<1>3. CASE Again
  <2>1. UNCHANGED <<shell, dotenv, files>> /\ cli' \in CommandLines /\ pc' = "dotenv"
    BY <1>3 DEF Again, given
  <2> QED BY <2>1
<1>4. CASE UNCHANGED Sources /\ (pc = "dotenv" => pc' = "dotenv")
  <2>1. UNCHANGED <<shell, dotenv, cli, files, env>>
    BY <1>4 DEF Sources
  <2>2. WithDotenv' = WithDotenv
    BY <2>1 DEF WithDotenv, DotenvVars
  <2> QED BY <1>4, <2>1, <2>2
<1>5. \/ LoadDotenv \/ PrintTemplate \/ Again
      \/ UNCHANGED Sources /\ (pc = "dotenv" => pc' = "dotenv")
  <2>1. CASE ParseArguments
    BY <2>1 DEF ParseArguments, Sources, given
  <2>2. CASE ResolveConfigPath
    BY <2>2 DEF ResolveConfigPath, Sources, given
  <2>3. CASE UseDefaults
    BY <2>3 DEF UseDefaults, Sources, given
  <2>4. CASE ReadFile
    BY <2>4 DEF ReadFile, Sources, given
  <2>5. CASE InterpolateFile
    BY <2>5 DEF InterpolateFile, Sources, given
  <2>6. CASE ParseFile
    BY <2>6 DEF ParseFile, Sources, given
  <2>7. CASE ValidateFile
    BY <2>7 DEF ValidateFile, Sources, given
  <2>8. CASE Override
    BY <2>8 DEF Override, Sources, given
  <2>9. CASE Start
    BY <2>9 DEF Start, Sources, given
  <2>10. CASE InitialiseFails
    BY <2>10 DEF InitialiseFails, Sources, given
  <2>11. CASE UNCHANGED vars
    BY <2>11 DEF vars, Sources, given
  <2> QED BY <2>1, <2>2, <2>3, <2>4, <2>5, <2>6, <2>7, <2>8, <2>9, <2>10, <2>11 DEF Next
<1> QED BY <1>1, <1>2, <1>3, <1>4, <1>5

(* A configuration as it is built has the fields that are overridden, and  *)
(* its approvals are those of the file.                                    *)
BuiltAsFile(c, g) ==
  HasOverridden(c) /\ c.approval.execute_enabled = Setting(g, "approval.execute_enabled", FALSE)

LEMMA BuiltConfig ==
  ASSUME NEW v, NEW u, NEW k, NEW m, NEW t, NEW p, NEW g
  PROVE  BuiltAsFile(ConfigWith(v, ModelSection(u, k, m, t, g), DocRunnerSection(p, g), g), g)
<1> DEFINE c == ConfigWith(v, ModelSection(u, k, m, t, g), DocRunnerSection(p, g), g)
<1>1. /\ {"model", "doc_runner", "search", "approval", "thinking"} \subseteq DOMAIN c
      /\ c.model = ModelSection(u, k, m, t, g) /\ c.doc_runner = DocRunnerSection(p, g)
      /\ c.search = SearchSection(g) /\ c.approval = ApprovalSection(g)
  BY DEF ConfigWith
<1>2. /\ {"base_url", "api_key", "model_name", "tokenizer", "max_context_tokens"} \subseteq
           DOMAIN ModelSection(u, k, m, t, g)
      /\ "path" \in DOMAIN ModelSection(u, k, m, t, g).tokenizer
  BY DEF ModelSection
<1>3. "allow_programs" \in DOMAIN DocRunnerSection(p, g) /\ "default_enabled" \in DOMAIN SearchSection(g)
  BY DEF DocRunnerSection, SearchSection
<1>4. ApprovalSection(g).execute_enabled = Setting(g, "approval.execute_enabled", FALSE)
  BY DEF ApprovalSection
<1> HIDE DEF c
<1>5. HasOverridden(c)
  BY <1>1, <1>2, <1>3 DEF HasOverridden
<1>6. c.approval.execute_enabled = Setting(g, "approval.execute_enabled", FALSE)
  BY <1>1, <1>4, Zenon
<1>7. BuiltAsFile(c, g)
  BY <1>5, <1>6, Zenon DEF BuiltAsFile
<1> QED BY <1>7 DEF c

(* Finding the file, and doing without one.                                *)
LEMMA FindStep ==
  ASSUME StartupInv, EnvironmentInv', ResolveConfigPath \/ UseDefaults
  PROVE  StartupInv'
<1>1. CASE ResolveConfigPath
  <2>1. /\ pc = "resolve" /\ UNCHANGED Sources /\ failed' = failed
        /\ pc' = IF path' = None THEN "defaults" ELSE "read"
    BY <1>1 DEF ResolveConfigPath, Sources, given
  <2>2. shell \in Shells /\ dotenv \in DotEnvs /\ env = WithDotenv
    BY <2>1 DEF StartupInv, EnvironmentInv
  <2>3. path' = Governing
    BY <1>1, <2>2, FoundGoverns DEF ResolveConfigPath, EnvironmentRead
  <2>4. path' = Governing'
    BY <2>1, <2>3, SourcesStay
  <2>5. failed' # "overrides"
    BY <2>1 DEF StartupInv, ConfigInv, OverridesKeepItValid
  <2> QED BY <2>1, <2>4, <2>5 DEF StartupInv, FileInv, ConfigInv, MinimalInv, OverridesKeepItValid
<1>2. CASE UseDefaults
  <2>1. /\ pc = "defaults" /\ pc' = "override" /\ UNCHANGED Sources /\ failed' = failed
        /\ config' = DefaultConfig /\ path' = path
    BY <1>2 DEF UseDefaults, Sources, given
  <2>2. EnvTyped
    <3>1. shell \in Shells /\ dotenv \in DotEnvs /\ env = WithDotenv
      BY <2>1 DEF StartupInv, EnvironmentInv
    <3> QED BY <3>1, DotenvDefines DEF EnvTyped
  <2>3. path = Governing /\ path = None /\ failed # "overrides"
    BY <2>1 DEF StartupInv, FileInv, ConfigInv, OverridesKeepItValid
  <2>4. Valid(DefaultConfig) /\ DefaultConfig.approval.execute_enabled = FALSE
    BY <2>2, DefaultsValid
  <2>5. HasOverridden(DefaultConfig)
    BY DefaultsAgree, BuiltConfig DEF BuiltAsFile
  <2>6. FileInv'
    BY <2>1, <2>3, SourcesStay DEF FileInv
  <2>7. ConfigInv'
    BY <2>1, <2>3, <2>4, <2>5 DEF ConfigInv, OverridesKeepItValid
  <2>8. MinimalInv'
    BY <2>1, <2>3 DEF MinimalInv
  <2> QED BY <2>6, <2>7, <2>8 DEF StartupInv
<1> QED BY <1>1, <1>2

(* Reading the file and replacing its references.                          *)
LEMMA ReadStep ==
  ASSUME StartupInv, EnvironmentInv', ReadFile \/ InterpolateFile
  PROVE  StartupInv'
<1>1. CASE ReadFile
  <2>1. pc = "read" /\ UNCHANGED Sources /\ path' = path /\ config' = config
    BY <1>1 DEF ReadFile, Sources, given
  <2>2. path = Governing /\ path # None /\ failed # "overrides"
    BY <2>1 DEF StartupInv, FileInv, ConfigInv, OverridesKeepItValid
  <2>3. CASE IsRead
    <3>1. pc' = "interpolate" /\ read' = files[path] /\ failed' = failed /\ files' = files
      BY <1>1, <2>3 DEF ReadFile, IsRead
    <3>2. IsRead'
      BY <2>1, <2>3, <3>1 DEF IsRead
    <3>3. DOMAIN read' = {"texts", "given"}
      BY <2>3, <3>1 DEF IsRead, StartupInv, EnvironmentInv
    <3>4. FileInv'
      BY <2>1, <2>2, <3>1, <3>2, <3>3, SourcesStay DEF FileInv
    <3>5. ConfigInv'
      BY <2>2, <3>1 DEF ConfigInv, OverridesKeepItValid
    <3>6. MinimalInv'
      BY <2>1, <3>1 DEF MinimalInv
    <3> QED BY <3>4, <3>5, <3>6 DEF StartupInv
  <2>4. CASE ~IsRead
    <3>1. pc' = "failed" /\ failed' = "read"
      BY <1>1, <2>4 DEF ReadFile, IsRead, Fail
    <3> QED BY <3>1, IdleStep DEF Idle
  <2> QED BY <2>3, <2>4
<1>2. CASE InterpolateFile
  <2>1. pc = "interpolate" /\ UNCHANGED Sources /\ path' = path /\ config' = config
    BY <1>2 DEF InterpolateFile, Sources, given
  <2>2. /\ path = Governing /\ path # None /\ failed # "overrides" /\ IsRead
        /\ DOMAIN read = {"texts", "given"} /\ read.given = files[path].given
    BY <2>1 DEF StartupInv, FileInv, ConfigInv, OverridesKeepItValid
  <2> DEFINE Refused == \E n \in DOMAIN read.texts : Refuses(Source(read.texts[n]), env)
             new == [n \in DOMAIN read.texts |-> Replaced(Source(read.texts[n]), env)]
  <2>3. CASE Refused
    <3>1. pc' = "failed" /\ failed' = "interpolate"
      BY <1>2, <2>3 DEF InterpolateFile, Fail
    <3> QED BY <3>1, IdleStep DEF Idle
  <2>4. CASE ~Refused
    <3>1. pc' = "parse" /\ read' = [read EXCEPT !.texts = new] /\ failed' = failed /\ files' = files
      BY <1>2, <2>1, <2>4 DEF InterpolateFile, Sources
    <3>2. IsRead' /\ DOMAIN read' = {"texts", "given"} /\ read'.given = files'[path'].given
          /\ read'.texts = new
      <4> HIDE DEF new
      <4> QED BY <2>1, <2>2, <3>1 DEF IsRead
    <3>3. FileInv'
      BY <2>1, <2>2, <3>1, <3>2, SourcesStay DEF FileInv
    <3>4. ConfigInv'
      BY <2>2, <3>1 DEF ConfigInv, OverridesKeepItValid
    <3>5. ASSUME files[path] = MinimalTemplate
          PROVE  /\ RefsSet
                 /\ read'.given = MinimalTemplate.given
                 /\ DOMAIN read'.texts = RequiredTexts
                 /\ \A n \in DOMAIN MinimalRefs : read'.texts[n] = env[MinimalRefs[n]]
                 /\ read'.texts["model.tokenizer.path"] = MinimalTokenizer
      <4>1. read = MinimalTemplate
        BY <2>1, <2>2, <3>5 DEF StartupInv, MinimalInv
      <4>2. EnvTyped
        <5>1. shell \in Shells /\ dotenv \in DotEnvs /\ env = WithDotenv
          BY <2>1 DEF StartupInv, EnvironmentInv
        <5> QED BY <5>1, DotenvDefines DEF EnvTyped
      <4>3. /\ RefsSet
            /\ \A n \in DOMAIN MinimalRefs :
                 Replaced(Source(read.texts[n]), env) = env[MinimalRefs[n]]
            /\ Replaced(Source(read.texts["model.tokenizer.path"]), env) = MinimalTokenizer
        BY <2>4, <4>1, <4>2, MinimalReplaced
      <4>4. DOMAIN read.texts = RequiredTexts /\ DOMAIN MinimalRefs \subseteq RequiredTexts
        BY <4>1, MinimalTexts
      <4>5. "model.tokenizer.path" \in RequiredTexts
        BY DEF RequiredTexts
      <4> QED BY <2>2, <3>2, <3>1, <3>5, <4>3, <4>4, <4>5
    <3>6. MinimalInv'
      <4>1. RefsSet <=> RefsSet'
        BY <2>1, SourcesStay
      <4>2. env' = env
        BY <2>1 DEF Sources
      <4> QED BY <2>1, <3>1, <3>5, <4>1, <4>2 DEF MinimalInv
    <3> QED BY <3>3, <3>4, <3>6 DEF StartupInv
  <2> QED BY <2>3, <2>4
<1> QED BY <1>1, <1>2

(* Making the file a configuration, and judging it.                        *)
LEMMA ParseStep ==
  ASSUME StartupInv, EnvironmentInv', ParseFile \/ ValidateFile
  PROVE  StartupInv'
<1>1. CASE ParseFile
  <2>1. pc = "parse" /\ UNCHANGED Sources /\ path' = path /\ read' = read
    BY <1>1 DEF ParseFile, Sources, given
  <2>2. /\ path = Governing /\ path # None /\ failed # "overrides" /\ IsRead
        /\ read.given = files[path].given
    BY <2>1 DEF StartupInv, FileInv, ConfigInv, OverridesKeepItValid
  <2> DEFINE g == read.given
             Text(n) == Trim(read.texts[n])
             built == ConfigWith(Setting(g, "version", 1),
                        ModelSection(Text("model.base_url"), Text("model.api_key"),
                                     Text("model.model_name"), Text("model.tokenizer.path"), g),
                        DocRunnerSection(g["doc_runner.allow_programs"], g), g)
             Complete == RequiredTexts \subseteq DOMAIN read.texts
                         /\ "doc_runner.allow_programs" \in DOMAIN read.given
  <2>3. CASE Complete
    <3>1. pc' = "validate" /\ config' = built /\ failed' = failed
      BY <1>1, <2>3 DEF ParseFile
    <3>2. /\ HasOverridden(built)
          /\ built.approval.execute_enabled = Setting(g, "approval.execute_enabled", FALSE)
      <4>1. BuiltAsFile(built, g)
        BY BuiltConfig
      <4> HIDE DEF built, g
      <4> QED BY <4>1, Zenon DEF BuiltAsFile
    <3>3. ASSUME files[path] = MinimalTemplate PROVE RefsSet /\ built = MinimalConfig
      <4>1. /\ RefsSet /\ g = MinimalTemplate.given
            /\ \A n \in DOMAIN MinimalRefs : read.texts[n] = env[MinimalRefs[n]]
            /\ read.texts["model.tokenizer.path"] = MinimalTokenizer
        BY <2>1, <2>2, <3>3 DEF StartupInv, MinimalInv
      <4> QED BY <4>1, MinimalParsed
    <3> HIDE DEF built
    <3>4. IsRead' /\ files' = files
      BY <2>1, <2>2 DEF IsRead, Sources
    <3>5. FileInv'
      BY <2>1, <2>2, <3>1, <3>4, SourcesStay DEF FileInv
    <3>6. config'.approval.execute_enabled =>
            Setting(files[path].given, "approval.execute_enabled", FALSE)
      BY <2>2, <3>1, <3>2, Zenon
    <3>7. ConfigInv'
      <4>1. config'.approval.execute_enabled =>
              path' # None /\ Setting(files'[path'].given, "approval.execute_enabled", FALSE)
        BY <2>1, <2>2, <3>4, <3>6, Zenon
      <4>2. HasOverridden(config') /\ pc' = "validate" /\ failed' # "overrides"
        BY <2>2, <3>1, <3>2
      <4>3. pc' \notin {"override", "initialise", "started"}
        BY <4>2
      <4> QED BY <4>1, <4>2, <4>3, Zenon DEF ConfigInv, OverridesKeepItValid
    <3>8. MinimalInv'
      <4>1. (RefsSet <=> RefsSet') /\ MinimalConfig' = MinimalConfig
        BY <2>1, SourcesStay
      <4> QED BY <2>1, <3>1, <3>3, <3>4, <4>1 DEF MinimalInv
    <3> QED BY <3>5, <3>7, <3>8 DEF StartupInv
  <2>4. CASE ~Complete
    <3>1. pc' = "failed" /\ failed' = "parse"
      BY <1>1, <2>4 DEF ParseFile, Fail
    <3> QED BY <3>1, IdleStep DEF Idle
  <2> QED BY <2>3, <2>4
<1>2. CASE ValidateFile
  <2>1. pc = "validate" /\ UNCHANGED Sources /\ path' = path /\ config' = config
    BY <1>2 DEF ValidateFile, Sources, given
  <2>2. CASE Valid(config)
    <3>1. pc' = "override" /\ failed' = failed
      BY <1>2, <2>2 DEF ValidateFile
    <3>2. files' = files /\ (IsRead <=> IsRead')
      BY <2>1 DEF IsRead, Sources
    <3>3. FileInv'
      BY <2>1, <3>1, <3>2, SourcesStay DEF StartupInv, FileInv
    <3>4. ConfigInv'
      <4>1. /\ config.approval.execute_enabled =>
                 path # None /\ Setting(files[path].given, "approval.execute_enabled", FALSE)
            /\ HasOverridden(config) /\ failed # "overrides"
        BY <2>1, Zenon DEF StartupInv, ConfigInv, OverridesKeepItValid
      <4> QED BY <2>1, <2>2, <3>1, <3>2, <4>1, Zenon DEF ConfigInv, OverridesKeepItValid
    <3>5. MinimalInv'
      <4>1. (RefsSet <=> RefsSet') /\ MinimalConfig' = MinimalConfig
        BY <2>1, SourcesStay
      <4> QED BY <2>1, <3>1, <3>2, <4>1 DEF StartupInv, MinimalInv
    <3> QED BY <3>3, <3>4, <3>5 DEF StartupInv
  <2>3. CASE ~Valid(config)
    <3>1. pc' = "failed" /\ failed' = "validate"
      BY <1>2, <2>3 DEF ValidateFile, Fail
    <3> QED BY <3>1, IdleStep DEF Idle
  <2> QED BY <2>2, <2>3
<1> QED BY <1>1, <1>2

(* Overriding the configuration, and starting with it.                     *)
LEMMA UseStep ==
  ASSUME StartupInv, EnvironmentInv', Override \/ Start
  PROVE  StartupInv'
<1>1. CASE Override
  <2> DEFINE new == WithCommandLine(WithEnvironment(config))
  <2>1. pc = "override" /\ UNCHANGED Sources /\ path' = path /\ config' = new
    BY <1>1 DEF Override, Sources, given
  <2>2. EnvTyped
    <3>1. shell \in Shells /\ dotenv \in DotEnvs /\ env = WithDotenv
      BY <2>1 DEF StartupInv, EnvironmentInv
    <3> QED BY <3>1, DotenvDefines DEF EnvTyped
  <2>3. HasOverridden(config) /\ Valid(config)
    BY <2>1 DEF StartupInv, ConfigInv
  <2>4. Valid(new) /\ new.approval = config.approval
    BY <2>2, <2>3, OverridesKeepValid
  <2>5. ASSUME path # None, IsRead, files[path] = MinimalTemplate PROVE new = Overridden
    <3>1. RefsSet /\ config = MinimalConfig
      BY <2>1, <2>5 DEF StartupInv, MinimalInv
    <3>2. WithEnvironment(config) = WithEnvironment(DefaultConfig)
      BY <2>2, <2>3, <3>1, MinimalOverridden
    <3> QED BY <3>2 DEF Overridden
  <2> HIDE DEF new
  <2>6. pc' = "initialise" /\ failed' = failed
    BY <1>1, <2>1, <2>4 DEF Override
  <2>7. files' = files /\ (IsRead <=> IsRead')
    BY <2>1 DEF IsRead, Sources
  <2>8. FileInv'
    BY <2>1, <2>6, <2>7, SourcesStay DEF StartupInv, FileInv
  <2>9. ConfigInv'
    <3>1. /\ config.approval.execute_enabled =>
               path # None /\ Setting(files[path].given, "approval.execute_enabled", FALSE)
          /\ failed # "overrides"
      BY <2>1, Zenon DEF StartupInv, ConfigInv, OverridesKeepItValid
    <3>2. config'.approval = config.approval /\ Valid(config')
      BY <2>1, <2>4
    <3>3. pc' \notin {"validate", "override"}
      BY <2>6
    <3> QED BY <2>1, <2>6, <2>7, <3>1, <3>2, <3>3, Zenon DEF ConfigInv, OverridesKeepItValid
  <2>10. MinimalInv'
    <3>1. Overridden' = Overridden
      BY <2>1, SourcesStay
    <3> QED BY <2>1, <2>5, <2>6, <2>7, <3>1 DEF MinimalInv, Overridden
  <2> QED BY <2>8, <2>9, <2>10 DEF StartupInv
<1>2. CASE Start
  <2>1. /\ pc = "initialise" /\ UNCHANGED Sources /\ path' = path /\ config' = config
        /\ pc' = "started" /\ failed' = failed
    BY <1>2 DEF Start, Sources, given
  <2>2. files' = files /\ (IsRead <=> IsRead')
    BY <2>1 DEF IsRead, Sources
  <2>3. FileInv'
    BY <2>1, <2>2, SourcesStay DEF StartupInv, FileInv
  <2>4. ConfigInv'
    <3>1. /\ config.approval.execute_enabled =>
               path # None /\ Setting(files[path].given, "approval.execute_enabled", FALSE)
          /\ Valid(config) /\ failed # "overrides"
      BY <2>1, Zenon DEF StartupInv, ConfigInv, OverridesKeepItValid
    <3>2. pc' \notin {"validate", "override"}
      BY <2>1
    <3> QED BY <2>1, <2>2, <3>1, <3>2, Zenon DEF ConfigInv, OverridesKeepItValid
  <2>5. MinimalInv'
    <3>1. Overridden' = Overridden
      BY <2>1, SourcesStay
    <3> QED BY <2>1, <2>2, <3>1 DEF StartupInv, MinimalInv, Overridden
  <2> QED BY <2>3, <2>4, <2>5 DEF StartupInv
<1> QED BY <1>1, <1>2

LEMMA StartupStep == StartupInv /\ [Next]_vars => StartupInv'
<1> SUFFICES ASSUME StartupInv, [Next]_vars PROVE StartupInv'
  OBVIOUS
<1>1. EnvironmentInv'
  BY EnvironmentStep
<1>2. failed # "overrides" /\ None # "overrides"
  BY StartupAssumption DEF StartupInv, ConfigInv, OverridesKeepItValid
<1>3. CASE LoadDotenv
  BY <1>1, <1>2, <1>3, IdleStep DEF LoadDotenv, Idle
<1>4. CASE ParseArguments
  BY <1>1, <1>2, <1>4, IdleStep DEF ParseArguments, Fail, Idle
<1>5. CASE PrintTemplate
  BY <1>1, <1>2, <1>5, IdleStep DEF PrintTemplate, Idle
<1>6. CASE InitialiseFails
  BY <1>1, <1>2, <1>6, IdleStep DEF InitialiseFails, Fail, Idle
<1>7. CASE Again
  BY <1>1, <1>2, <1>7, IdleStep DEF Again, Idle
<1>8. CASE UNCHANGED vars
  <2>1. /\ UNCHANGED Sources
        /\ UNCHANGED <<pc, path, read, config, failed>>
    BY <1>8 DEF vars, given, Sources
  <2>2. files' = files /\ env' = env /\ (IsRead <=> IsRead')
    BY <2>1 DEF IsRead, Sources
  <2>3. FileInv'
    BY <2>1, <2>2, SourcesStay DEF StartupInv, FileInv
  <2>4. ConfigInv'
    <3>1. ConfigInv
      BY DEF StartupInv
    <3> QED BY <2>1, <2>2, <3>1, Zenon DEF ConfigInv, OverridesKeepItValid
  <2>5. MinimalInv'
    <3>1. /\ (RefsSet <=> RefsSet') /\ MinimalConfig' = MinimalConfig
          /\ Overridden' = Overridden
      BY <2>1, SourcesStay
    <3> QED BY <2>1, <2>2, <3>1 DEF StartupInv, MinimalInv, Overridden
  <2> QED BY <1>1, <2>3, <2>4, <2>5 DEF StartupInv
<1> QED BY <1>1, <1>3, <1>4, <1>5, <1>6, <1>7, <1>8, FindStep, ReadStep, ParseStep, UseStep DEF Next

---------------------------------------------------------------------------
(* The ranks of the sources.                                               *)

(* A value that the variables override, and that is the file's or the      *)
(* default's when they do not, has its rank.                               *)
LEMMA RankedByVariables ==
  ASSUME EnvironmentRead, NEW found, NEW x, NEW setting, NEW a, NEW b, NEW default,
         found = IF Solid(a) THEN env[a] ELSE IF Solid(b) THEN env[b] ELSE None,
         found = None => x = IF Governing = None THEN default ELSE Written(setting)
  PROVE  Ranked(OrElse(found, x), setting, a, b, default)
<1> DEFINE value == OrElse(found, x)
           last == IF Governing = None THEN default ELSE Written(setting)
<1>1. \A n : Solid(n) <=> IsGiven(n)
  BY EnvironmentSays
<1>2. \A n : Solid(n) => env[n] = ValueOf(n) /\ env[n] # None
  BY EnvironmentSays
<1>3. IsGiven(a) => value = ValueOf(a)
  BY <1>1, <1>2 DEF OrElse
<1>4. ~IsGiven(a) /\ IsGiven(b) => value = ValueOf(b)
  BY <1>1, <1>2 DEF OrElse
<1>5. ~IsGiven(a) /\ ~IsGiven(b) => value = last
  BY <1>1 DEF OrElse
<1> HIDE DEF value, last
<1>6. Ranked(value, setting, a, b, default) =
        CASE IsGiven(a) -> value = ValueOf(a)
          [] ~IsGiven(a) /\ IsGiven(b) -> value = ValueOf(b)
          [] OTHER -> value = last
  BY Zenon DEF Ranked, last
<1>7. Ranked(value, setting, a, b, default)
  <2>1. CASE IsGiven(a)
    BY <1>3, <1>6, <2>1, Zenon
  <2>2. CASE ~IsGiven(a) /\ IsGiven(b)
    BY <1>4, <1>6, <2>2, Zenon
  <2>3. CASE ~IsGiven(a) /\ ~IsGiven(b)
    BY <1>5, <1>6, <2>3, Zenon
  <2> QED BY <2>1, <2>2, <2>3
<1> QED BY <1>7 DEF value

(* The key, which a variable may also set empty.                           *)
KeyRanked(key) ==
  CASE IsDefined(ApiKeyVars[1]) -> key = ValueOf(ApiKeyVars[1])
    [] ~IsDefined(ApiKeyVars[1]) /\ IsDefined(ApiKeyVars[2]) -> key = ValueOf(ApiKeyVars[2])
    [] OTHER -> key = IF Governing = None THEN <<>> ELSE Written("model.api_key")

LEMMA KeyRankedByVariables ==
  ASSUME EnvironmentRead, NEW x,
         FirstValue(ApiKeyVars) = None =>
           x = IF Governing = None THEN <<>> ELSE Written("model.api_key")
  PROVE  KeyRanked(OrElse(FirstValue(ApiKeyVars), x))
<1> DEFINE a == ApiKeyVars[1]
           b == ApiKeyVars[2]
           found == FirstValue(ApiKeyVars)
           value == OrElse(found, x)
           last == IF Governing = None THEN <<>> ELSE Written("model.api_key")
<1>1. ApiKeyVars = <<a, b>>
  BY DEF ApiKeyVars
<1> HIDE DEF a, b
<1>2. found = IF a \in DOMAIN env THEN env[a] ELSE IF b \in DOMAIN env THEN env[b] ELSE None
  BY <1>1, FirstSetOfTwo
<1>3. \A n : n \in DOMAIN env <=> IsDefined(n)
  BY EnvironmentSays
<1>4. \A n : n \in DOMAIN env => env[n] = ValueOf(n) /\ env[n] # None
  BY EnvironmentSays
<1>5. found = None => x = last
  OBVIOUS
<1> HIDE DEF found, last
<1>6. IsDefined(a) => value = ValueOf(a)
  BY <1>2, <1>3, <1>4 DEF OrElse
<1>7. ~IsDefined(a) /\ IsDefined(b) => value = ValueOf(b)
  BY <1>2, <1>3, <1>4 DEF OrElse
<1>8. ~IsDefined(a) /\ ~IsDefined(b) => value = last
  BY <1>2, <1>3, <1>5 DEF OrElse
<1> HIDE DEF value
<1>9. KeyRanked(value) =
        CASE IsDefined(a) -> value = ValueOf(a)
          [] ~IsDefined(a) /\ IsDefined(b) -> value = ValueOf(b)
          [] OTHER -> value = last
  BY Zenon DEF KeyRanked, last, a, b
<1>10. KeyRanked(value)
  <2>1. CASE IsDefined(a)
    BY <1>6, <1>9, <2>1, Zenon
  <2>2. CASE ~IsDefined(a) /\ IsDefined(b)
    BY <1>7, <1>9, <2>2, Zenon
  <2>3. CASE ~IsDefined(a) /\ ~IsDefined(b)
    BY <1>8, <1>9, <2>3, Zenon
  <2> QED BY <2>1, <2>2, <2>3
<1> QED BY <1>10 DEF value, found

(* The programs, and the search switch.                                    *)
ListedPrograms == files[Governing].given["doc_runner.allow_programs"]
SearchDefault == Setting(files[Governing].given, "search.default_enabled", TRUE)

LEMMA ProgramsRankedByVariable ==
  ASSUME EnvironmentRead, NEW x,
         x = IF Governing = None THEN EnvList(ProgramsVar, DefaultAllowPrograms) ELSE ListedPrograms
  PROVE  ProgramsRanked(EnvList(ProgramsVar, x))
<1> DEFINE items == IF IsDefined(ProgramsVar) THEN Items(ValueOf(ProgramsVar)) ELSE <<>>
           value == EnvList(ProgramsVar, x)
<1>1. \A d : EnvList(ProgramsVar, d) = IF items = <<>> THEN d ELSE items
  <2>1. /\ ProgramsVar \in DOMAIN env <=> IsDefined(ProgramsVar)
        /\ ProgramsVar \in DOMAIN env => env[ProgramsVar] = ValueOf(ProgramsVar)
    BY EnvironmentSays
  <2>2. items = IF ProgramsVar \in DOMAIN env THEN Items(env[ProgramsVar]) ELSE <<>>
    BY <2>1
  <2> HIDE DEF items
  <2> QED BY <2>2 DEF EnvList
<1> HIDE DEF items
<1>2. value = IF items # <<>> THEN items
              ELSE IF Governing = None THEN DefaultAllowPrograms ELSE ListedPrograms
  BY <1>1
<1> HIDE DEF value
<1>3. ProgramsRanked(value) =
        CASE items # <<>> -> value = items
          [] items = <<>> /\ Governing = None -> value = DefaultAllowPrograms
          [] OTHER -> value = ListedPrograms
  BY Zenon DEF ProgramsRanked, ListedPrograms, items
<1>4. ProgramsRanked(value)
  <2>1. CASE items # <<>>
    BY <1>2, <1>3, <2>1, Zenon
  <2>2. CASE items = <<>> /\ Governing = None
    BY <1>2, <1>3, <2>2, Zenon
  <2>3. CASE items = <<>> /\ Governing # None
    BY <1>2, <1>3, <2>3, Zenon
  <2> QED BY <2>1, <2>2, <2>3
<1> QED BY <1>4 DEF value

LEMMA SearchRankedByVariable ==
  ASSUME EnvironmentRead, ~(cli.offline /\ cli.online), NEW x,
         x = IF Governing = None THEN TRUE ELSE SearchDefault
  PROVE  SearchRanked(IF cli.online THEN TRUE ELSE IF cli.offline THEN FALSE
                      ELSE EnvBool(SearchVar, x))
<1> DEFINE word == IF IsDefined(SearchVar) THEN Trim(ValueOf(SearchVar)) ELSE <<>>
           flagged == cli.online \/ cli.offline
           read0 == EnvBool(SearchVar, x)
           value == IF cli.online THEN TRUE ELSE IF cli.offline THEN FALSE ELSE read0
<1>1. word = IF SearchVar \in DOMAIN env THEN Trim(env[SearchVar]) ELSE <<>>
  BY EnvironmentSays
<1> HIDE DEF word
<1>2. read0 = CASE word \in YesWords -> TRUE
                [] word \in NoWords -> FALSE
                [] OTHER -> x
  BY <1>1, Zenon DEF EnvBool
<1>3. ~(word \in YesWords /\ word \in NoWords)
  BY DEF YesWords, NoWords
<1>4. /\ word \in YesWords => read0 = TRUE
      /\ word \in NoWords => read0 = FALSE
      /\ word \notin YesWords \union NoWords => read0 = x
  <2>1. CASE word \in YesWords
    BY <1>2, <1>3, <2>1, Zenon
  <2>2. CASE word \in NoWords
    BY <1>2, <1>3, <2>2, Zenon
  <2>3. CASE word \notin YesWords /\ word \notin NoWords
    BY <1>2, <2>3, Zenon
  <2> QED BY <2>1, <2>2, <2>3
<1> HIDE DEF read0, flagged
<1>5. SearchRanked(value) =
        CASE flagged -> value <=> cli.online
          [] ~flagged /\ word \in YesWords \union NoWords -> value <=> word \in YesWords
          [] OTHER -> value = IF Governing = None THEN TRUE ELSE SearchDefault
  BY Zenon DEF SearchRanked, SearchDefault, word, flagged
<1>6. SearchRanked(value)
  <2>1. CASE flagged
    <3>1. value <=> cli.online
      BY <2>1, Zenon DEF flagged
    <3> QED BY <1>5, <2>1, <3>1, Zenon
  <2>2. CASE ~flagged /\ word \in YesWords \union NoWords
    <3>1. value = read0
      BY <2>2, Zenon DEF flagged
    <3>2. value <=> word \in YesWords
      BY <1>3, <1>4, <2>2, <3>1, Zenon
    <3> QED BY <1>5, <2>2, <3>2, Zenon
  <2>3. CASE ~flagged /\ word \notin YesWords \union NoWords
    <3>1. value = read0
      BY <2>3, Zenon DEF flagged
    <3>2. value = IF Governing = None THEN TRUE ELSE SearchDefault
      BY <1>4, <2>3, <3>1, Zenon
    <3> QED BY <1>5, <2>3, <3>2, Zenon
  <2> QED BY <2>1, <2>2, <2>3, Zenon
<1> QED BY <1>6, Zenon DEF value, read0

(* A text that is not refused is replaced by what its writer meant.        *)
LEMMA MeansMeaning ==
  ASSUME EnvironmentRead, NEW p \in Piece, Says(p, env)
  PROVE  Means(p, env) = Meaning(p)
<1>1. CASE DOMAIN p = {"lit"}
  <2>1. "lit" \in DOMAIN p /\ "raw" \notin DOMAIN p /\ "ref" \notin DOMAIN p
    BY <1>1
  <2> QED BY <2>1, Zenon DEF Means, Meaning
<1>2. CASE DOMAIN p = {"raw"}
  <2>1. "lit" \notin DOMAIN p /\ "raw" \in DOMAIN p /\ "ref" \notin DOMAIN p
    BY <1>2
  <2> QED BY <2>1, Zenon DEF Means, Meaning
<1>3. CASE IsRef(p)
  <2> DEFINE n == p.ref
             Set == IsDefined(n) /\ (ValueOf(n) # <<>> \/ p.default = None)
  <2>1. "lit" \notin DOMAIN p /\ "raw" \notin DOMAIN p /\ "ref" \in DOMAIN p
    BY <1>3 DEF IsRef
  <2>2. Meaning(p) = IF Set THEN ValueOf(n) ELSE p.default
    BY <2>1, Zenon DEF Meaning
  <2>3. Means(p, env) = IF Given(p, env) THEN env[n]
                        ELSE IF p.default = None THEN <<Error>> ELSE p.default
    BY <2>1, Zenon DEF Means
  <2>4. /\ n \in DOMAIN env <=> IsDefined(n)
        /\ n \in DOMAIN env => env[n] = ValueOf(n)
    BY EnvironmentSays
  <2>5. Given(p, env) <=> Set
    BY <2>4 DEF Given
  <2>6. Given(p, env) \/ p.default # None
    BY <2>1 DEF Says
  <2> HIDE DEF Set
  <2>7. Given(p, env) => env[n] = ValueOf(n)
    BY <2>4 DEF Given
  <2> QED BY <2>2, <2>3, <2>5, <2>6, <2>7
<1> QED BY <1>1, <1>2, <1>3, PieceKinds

LEMMA ReplacedAsWritten ==
  ASSUME EnvironmentRead, NEW pieces, InPieces(pieces), ~Refuses(Source(pieces), env)
  PROVE  Replaced(Source(pieces), env) = FlattenSeq([i \in DOMAIN pieces |-> Meaning(pieces[i])])
<1>1. EnvOf(env)
  BY EnvironmentSays, EnvTexts
<1>2. /\ Replaced(Source(pieces), env) = Mapped(MeaningMap(env), pieces)
      /\ \A k \in DOMAIN pieces : Says(pieces[k], env)
  BY <1>1, TextReplaced
<1>3. \A k \in DOMAIN pieces : pieces[k] \in Piece
  BY DEF InPieces
<1>4. \A k \in DOMAIN pieces : MeaningMap(env)[pieces[k]] = Meaning(pieces[k])
  <2> TAKE k \in DOMAIN pieces
  <2>1. MeaningMap(env)[pieces[k]] = Means(pieces[k], env)
    BY <1>3 DEF MeaningMap
  <2> QED BY <1>2, <1>3, <2>1, MeansMeaning
<1>5. [k \in DOMAIN pieces |-> MeaningMap(env)[pieces[k]]] =
        [k \in DOMAIN pieces |-> Meaning(pieces[k])]
  BY <1>4
<1> QED BY <1>2, <1>5, Zenon DEF Mapped

(* What the overrides make of the fields that are ranked.                  *)
LEMMA OverriddenFields ==
  ASSUME NEW c, HasOverridden(c)
  PROVE  LET o == WithCommandLine(WithEnvironment(c))
         IN /\ o.model.base_url = OrElse(FirstNonEmpty(BaseUrlVars), c.model.base_url)
            /\ o.model.api_key = OrElse(FirstValue(ApiKeyVars), c.model.api_key)
            /\ o.model.model_name = OrElse(FirstNonEmpty(ModelNameVars), c.model.model_name)
            /\ o.model.tokenizer.path = OrElse(FirstNonEmpty(TokenizerVars), c.model.tokenizer.path)
            /\ o.doc_runner.allow_programs = EnvList(ProgramsVar, c.doc_runner.allow_programs)
            /\ o.search.default_enabled =
                 IF cli.online THEN TRUE ELSE IF cli.offline THEN FALSE
                 ELSE EnvBool(SearchVar, c.search.default_enabled)
<1> DEFINE e == WithEnvironment(c)
           o == WithCommandLine(e)
           enabled == IF cli.online THEN TRUE ELSE IF cli.offline THEN FALSE
                      ELSE e.search.default_enabled
<1>1. /\ e.model.base_url = OrElse(FirstNonEmpty(BaseUrlVars), c.model.base_url)
      /\ e.model.api_key = OrElse(FirstValue(ApiKeyVars), c.model.api_key)
      /\ e.model.model_name = OrElse(FirstNonEmpty(ModelNameVars), c.model.model_name)
      /\ e.model.tokenizer.path = OrElse(FirstNonEmpty(TokenizerVars), c.model.tokenizer.path)
      /\ e.doc_runner.allow_programs = EnvList(ProgramsVar, c.doc_runner.allow_programs)
      /\ {"model", "doc_runner", "search"} \subseteq DOMAIN e
      /\ "default_enabled" \in DOMAIN e.search
  BY DEF WithEnvironment, ModelWithEnvironment, HasOverridden
<1>2. e.search.default_enabled = EnvBool(SearchVar, c.search.default_enabled)
  BY DEF WithEnvironment, HasOverridden
<1> HIDE DEF e, enabled
<1>3. o = [e EXCEPT !.search.default_enabled = enabled]
  BY Zenon DEF WithCommandLine, enabled
<1> HIDE DEF o
<1>4. o.model = e.model /\ o.doc_runner = e.doc_runner /\ o.search.default_enabled = enabled
  BY <1>1, <1>3
<1>5. o.search.default_enabled =
        IF cli.online THEN TRUE ELSE IF cli.offline THEN FALSE
        ELSE EnvBool(SearchVar, c.search.default_enabled)
  BY <1>2, <1>4, Zenon DEF enabled
<1> QED BY <1>1, <1>4, <1>5, Zenon DEF o, e

(* The ranks of an overridden configuration.                               *)
LEMMA OverriddenRanked ==
  ASSUME EnvironmentRead, NEW c, HasOverridden(c), ~(cli.offline /\ cli.online),
         path = Governing, SettingsOfFile(c)
  PROVE  EachRanked(WithCommandLine(WithEnvironment(c)))
<1> DEFINE o == WithCommandLine(WithEnvironment(c))
           Lowest(setting, default) == IF Governing = None THEN default ELSE Written(setting)
<1>1. ASSUME Governing = None
      PROVE  /\ c.model.base_url = OrElse(FirstNonEmpty(BaseUrlVars), <<"http://localhost:8317/v1">>)
             /\ c.model.api_key = OrElse(FirstValue(ApiKeyVars), <<>>)
             /\ c.model.model_name = OrElse(FirstNonEmpty(ModelNameVars), <<"qwen3.6-27b">>)
             /\ c.model.tokenizer.path =
                  OrElse(FirstNonEmpty(TokenizerVars), <<"~/.local/share/models/qwen/tokenizer.json">>)
             /\ c.doc_runner.allow_programs = EnvList(ProgramsVar, DefaultAllowPrograms)
             /\ c.search.default_enabled = TRUE
  <2>1. c = DefaultConfig
    BY <1>1 DEF SettingsOfFile
  <2>2. c.search = SearchSection(NoSettings)
    BY <2>1 DEF DefaultConfig, ConfigWith
  <2>3. c.search.default_enabled = TRUE
    <3>1. SearchSection(NoSettings).default_enabled =
            Setting(NoSettings, "search.default_enabled", TRUE)
      BY DEF SearchSection
    <3>2. \A n, d : Setting(NoSettings, n, d) = d
      BY DEF Setting, NoSettings
    <3> QED BY <2>2, <3>1, <3>2, Zenon
  <2> QED BY <2>1, <2>3 DEF DefaultConfig, ConfigWith
<1>2. ASSUME Governing # None
      PROVE  /\ c.model.base_url = Written("model.base_url")
             /\ c.model.api_key = Written("model.api_key")
             /\ c.model.model_name = Written("model.model_name")
             /\ c.model.tokenizer.path = Written("model.tokenizer.path")
             /\ c.doc_runner.allow_programs = ListedPrograms
             /\ c.search.default_enabled = SearchDefault
  BY <1>2, Zenon DEF SettingsOfFile, SettingsWritten, ListedPrograms, SearchDefault
<1>3. /\ FirstNonEmpty(BaseUrlVars) = None =>
           c.model.base_url = Lowest("model.base_url", <<"http://localhost:8317/v1">>)
      /\ FirstNonEmpty(ModelNameVars) = None =>
           c.model.model_name = Lowest("model.model_name", <<"qwen3.6-27b">>)
      /\ FirstNonEmpty(TokenizerVars) = None =>
           c.model.tokenizer.path =
             Lowest("model.tokenizer.path", <<"~/.local/share/models/qwen/tokenizer.json">>)
      /\ FirstValue(ApiKeyVars) = None => c.model.api_key = Lowest("model.api_key", <<>>)
  BY <1>1, <1>2 DEF OrElse
<1>4. EnvTyped
  BY EnvironmentSays
<1>5. Ranked(o.model.base_url, "model.base_url",
             "CMD_PROPOSER_MODEL_BASE_URL", "LOCAL_ROUTER_BASEURL", <<"http://localhost:8317/v1">>)
  <2> DEFINE found == FirstNonEmpty(BaseUrlVars)
  <2>1. found = IF Solid("CMD_PROPOSER_MODEL_BASE_URL") THEN env["CMD_PROPOSER_MODEL_BASE_URL"]
                ELSE IF Solid("LOCAL_ROUTER_BASEURL") THEN env["LOCAL_ROUTER_BASEURL"] ELSE None
    BY <1>4, FirstOfTwo DEF BaseUrlVars
  <2>2. o.model.base_url = OrElse(found, c.model.base_url)
    BY OverriddenFields
  <2> HIDE DEF found, o
  <2> QED BY <1>3, <2>1, <2>2, RankedByVariables DEF found
<1>6. Ranked(o.model.model_name, "model.model_name",
             "CMD_PROPOSER_MODEL_NAME", "LLM_MODEL", <<"qwen3.6-27b">>)
  <2> DEFINE found == FirstNonEmpty(ModelNameVars)
  <2>1. found = IF Solid("CMD_PROPOSER_MODEL_NAME") THEN env["CMD_PROPOSER_MODEL_NAME"]
                ELSE IF Solid("LLM_MODEL") THEN env["LLM_MODEL"] ELSE None
    BY <1>4, FirstOfTwo DEF ModelNameVars
  <2>2. o.model.model_name = OrElse(found, c.model.model_name)
    BY OverriddenFields
  <2> HIDE DEF found, o
  <2> QED BY <1>3, <2>1, <2>2, RankedByVariables DEF found
<1>7. Ranked(o.model.tokenizer.path, "model.tokenizer.path",
             "CMD_PROPOSER_TOKENIZER_PATH", "CMD_PROPOSER_TOKENIZER_PATH",
             <<"~/.local/share/models/qwen/tokenizer.json">>)
  <2> DEFINE found == FirstNonEmpty(TokenizerVars)
             v == "CMD_PROPOSER_TOKENIZER_PATH"
  <2>1. found = IF Solid(v) THEN env[v] ELSE IF Solid(v) THEN env[v] ELSE None
    BY <1>4, FirstOfOne DEF TokenizerVars
  <2>2. o.model.tokenizer.path = OrElse(found, c.model.tokenizer.path)
    BY OverriddenFields
  <2> HIDE DEF found, o
  <2> QED BY <1>3, <2>1, <2>2, RankedByVariables DEF found
<1>8. KeyRanked(o.model.api_key)
  <2>1. o.model.api_key = OrElse(FirstValue(ApiKeyVars), c.model.api_key)
    BY OverriddenFields
  <2> HIDE DEF o
  <2> QED BY <1>3, <2>1, KeyRankedByVariables
<1>9. ProgramsRanked(o.doc_runner.allow_programs)
  <2>1. o.doc_runner.allow_programs = EnvList(ProgramsVar, c.doc_runner.allow_programs)
    BY OverriddenFields
  <2>2. c.doc_runner.allow_programs =
          IF Governing = None THEN EnvList(ProgramsVar, DefaultAllowPrograms) ELSE ListedPrograms
    BY <1>1, <1>2
  <2> HIDE DEF o
  <2> QED BY <2>1, <2>2, ProgramsRankedByVariable
<1>10. SearchRanked(o.search.default_enabled)
  <2>1. o.search.default_enabled =
          IF cli.online THEN TRUE ELSE IF cli.offline THEN FALSE
          ELSE EnvBool(SearchVar, c.search.default_enabled)
    BY OverriddenFields, Zenon
  <2>2. c.search.default_enabled = IF Governing = None THEN TRUE ELSE SearchDefault
    BY <1>1, <1>2, Zenon
  <2>3. SearchRanked(IF cli.online THEN TRUE ELSE IF cli.offline THEN FALSE
                     ELSE EnvBool(SearchVar, c.search.default_enabled))
    BY <2>2, SearchRankedByVariable, Zenon
  <2> HIDE DEF o
  <2> QED BY <2>1, <2>3, Zenon
<1> HIDE DEF o
<1>11. EachRanked(o)
  BY <1>5, <1>6, <1>7, <1>8, <1>9, <1>10, Zenon DEF EachRanked, KeyRanked
<1> QED BY <1>11 DEF o

(* What is written and ranked stays so as long as its sources stay.        *)
LEMMA RanksStay ==
  ASSUME UNCHANGED Sources
  PROVE  /\ \A n : Written(n)' = Written(n)
         /\ EachRanked(config)' <=> EachRanked(config')
         /\ path' = path => (SettingsOfFile(config)' <=> SettingsOfFile(config'))
<1>1. shell' = shell /\ dotenv' = dotenv /\ cli' = cli /\ files' = files /\ env' = env
  BY DEF Sources
<1>2. Governing' = Governing
  BY SourcesStay
<1>3. ASSUME NEW n PROVE Written(n)' = Written(n)
  BY <1>1, <1>2 DEF Written, Meaning, IsDefined, ValueOf, LinesBeforeFault
<1>4. EachRanked(config)' <=> EachRanked(config')
  BY <1>1, <1>2, <1>3
     DEF EachRanked, Ranked, ProgramsRanked, SearchRanked,
         Written, Meaning, IsGiven, IsDefined, ValueOf, LinesBeforeFault
<1>5. DefaultConfig' = DefaultConfig
  <2>1. /\ FirstNonEmpty(BaseUrlVars)' = FirstNonEmpty(BaseUrlVars)
        /\ FirstNonEmpty(ModelNameVars)' = FirstNonEmpty(ModelNameVars)
        /\ FirstNonEmpty(TokenizerVars)' = FirstNonEmpty(TokenizerVars)
        /\ FirstValue(ApiKeyVars)' = FirstValue(ApiKeyVars)
    BY <1>1 DEF FirstNonEmpty, FirstValue, FirstOf
  <2>2. EnvList(ProgramsVar, DefaultAllowPrograms)' = EnvList(ProgramsVar, DefaultAllowPrograms)
    <3>1. env' = env
      BY <1>1
    <3> QED BY <3>1 DEF EnvList
  <2> QED BY <2>1, <2>2 DEF DefaultConfig
<1>6. SettingsWritten(config)' <=> SettingsWritten(config')
  BY <1>1, <1>2, <1>3 DEF SettingsWritten
<1>7. path' = path => (SettingsOfFile(config)' <=> SettingsOfFile(config'))
  BY <1>5, <1>6 DEF SettingsOfFile
<1> QED BY <1>3, <1>4, <1>7

---------------------------------------------------------------------------
(* The steps, for the ranks.                                               *)
LEMMA RankInit == Init => RankInv
<1> SUFFICES ASSUME Init PROVE RankInv
  OBVIOUS
<1>1. pc = "dotenv" /\ files \in Disks
  BY DEF Init
<1>2. FilesWritten
  BY <1>1, TextsAssumption DEF FilesWritten
<1>3. ReadWritten
  BY <1>1 DEF ReadWritten
<1> QED BY <1>1, <1>2, <1>3 DEF RankInv

(* No file comes to be but what init prints.                               *)
LEMMA FilesStep ==
  ASSUME FilesWritten, [Next]_vars
  PROVE  FilesWritten'
<1>1. CASE PrintTemplate
  <2> DEFINE printed == IF cli.init = "full" THEN FullTemplate ELSE MinimalTemplate
  <2>1. files' = [p \in DOMAIN files \union {Local} |-> IF p # Local THEN files[p] ELSE printed]
    BY <1>1 DEF PrintTemplate
  <2>2. \A n \in DOMAIN printed.texts : InPieces(printed.texts[n])
    BY TemplatesInPieces
  <2> HIDE DEF printed
  <2>3. ASSUME NEW p \in DOMAIN files', files'[p] # Unreadable
        PROVE  \A n \in DOMAIN files'[p].texts : InPieces(files'[p].texts[n])
    <3>1. CASE p = Local
      BY <2>1, <2>2, <3>1
    <3>2. CASE p # Local
      <4>1. p \in DOMAIN files /\ files'[p] = files[p]
        BY <2>1, <3>2
      <4> QED BY <2>3, <4>1 DEF FilesWritten
    <3> QED BY <3>1, <3>2
  <2> QED BY <2>3 DEF FilesWritten
<1>2. CASE files' = files
  BY <1>2 DEF FilesWritten
<1> QED BY <1>1, <1>2
    DEF Next, LoadDotenv, ParseArguments, ResolveConfigPath, UseDefaults, ReadFile,
        InterpolateFile, ParseFile, ValidateFile, Override, Start, InitialiseFails, Again, vars

(* Before a configuration is looked for, and after a failure.              *)
LEMMA RestStep ==
  ASSUME FilesWritten', pc' \in {"dotenv", "arguments", "printed", "failed"}
  PROVE  RankInv'
BY DEF RankInv, ReadWritten

(* From the command line to the text of the file.                          *)
LEMMA RankFind ==
  ASSUME StartupInv, RankInv, FilesWritten',
         ParseArguments \/ ResolveConfigPath \/ UseDefaults \/ ReadFile
  PROVE  RankInv'
<1>1. CASE ParseArguments
  <2>1. CASE Conflicting(cli)
    <3>1. pc' = "failed"
      BY <1>1, <2>1 DEF ParseArguments, Fail
    <3> QED BY <3>1, RestStep
  <2>2. CASE ~Conflicting(cli)
    <3>1. pc' = "resolve" /\ cli' = cli
      BY <1>1, <2>2 DEF ParseArguments
    <3>2. ~(cli'.offline /\ cli'.online)
      BY <2>2, <3>1, Zenon DEF Conflicting
    <3> QED BY <3>1, <3>2 DEF RankInv, ReadWritten
  <2> QED BY <2>1, <2>2
<1>2. CASE ResolveConfigPath
  <2>1. pc = "resolve" /\ pc' \in {"defaults", "read"} /\ cli' = cli
    BY <1>2 DEF ResolveConfigPath
  <2>2. ~(cli.offline /\ cli.online)
    BY <2>1 DEF RankInv
  <2> QED BY <2>1, <2>2 DEF RankInv, ReadWritten
<1>3. CASE UseDefaults
  <2>1. /\ pc = "defaults" /\ pc' = "override" /\ UNCHANGED Sources /\ path' = path
        /\ config' = DefaultConfig /\ cli' = cli
    BY <1>3 DEF UseDefaults, Sources, given
  <2>2. path = None
    BY <2>1 DEF StartupInv, FileInv
  <2>3. SettingsOfFile(config)'
    BY <2>1, <2>2, RanksStay DEF SettingsOfFile
  <2>4. ~(cli.offline /\ cli.online)
    BY <2>1 DEF RankInv
  <2> QED BY <2>1, <2>3, <2>4 DEF RankInv, ReadWritten
<1>4. CASE ReadFile
  <2>1. pc = "read" /\ cli' = cli /\ path' = path /\ files' = files
    BY <1>4 DEF ReadFile
  <2>2. ~(cli.offline /\ cli.online)
    BY <2>1 DEF RankInv
  <2>3. CASE path \in DOMAIN files /\ files[path] # Unreadable
    <3>1. pc' = "interpolate" /\ read' = files[path]
      BY <1>4, <2>3 DEF ReadFile
    <3> QED BY <2>1, <2>2, <3>1 DEF RankInv, ReadWritten
  <2>4. CASE ~(path \in DOMAIN files /\ files[path] # Unreadable)
    <3>1. pc' = "failed"
      BY <1>4, <2>4 DEF ReadFile, Fail
    <3> QED BY <3>1, RestStep
  <2> QED BY <2>3, <2>4
<1> QED BY <1>1, <1>2, <1>3, <1>4

(* From the text to the configuration it is: the references are replaced   *)
(* by what they mean.                                                      *)
LEMMA RankText ==
  ASSUME StartupInv, RankInv, FilesWritten', InterpolateFile
  PROVE  RankInv'
<1>1. /\ pc = "interpolate" /\ UNCHANGED Sources /\ path' = path
      /\ cli' = cli /\ files' = files
  BY DEF InterpolateFile, Sources, given
<1>2. /\ EnvironmentRead /\ path = Governing /\ path \in DOMAIN files /\ files[path] # Unreadable
      /\ read = files[path] /\ ~(cli.offline /\ cli.online) /\ "texts" \in DOMAIN read
  BY <1>1 DEF StartupInv, EnvironmentInv, FileInv, IsRead, EnvironmentRead, RankInv, ReadWritten
<1> DEFINE Refused == \E n \in DOMAIN read.texts : Refuses(Source(read.texts[n]), env)
           new == [n \in DOMAIN read.texts |-> Replaced(Source(read.texts[n]), env)]
<1>3. CASE Refused
  <2>1. pc' = "failed"
    BY <1>3 DEF InterpolateFile, Fail
  <2> QED BY <2>1, RestStep
<1>4. CASE ~Refused
  <2>1. pc' = "parse" /\ read' = [read EXCEPT !.texts = new]
    BY <1>4 DEF InterpolateFile
  <2>2. ASSUME NEW n \in DOMAIN new PROVE Trim(new[n]) = Written(n)
    <3> DEFINE pieces == read.texts[n]
    <3>1. InPieces(pieces) /\ ~Refuses(Source(pieces), env)
      BY <1>2, <1>4 DEF RankInv, FilesWritten
    <3>2. new[n] = Replaced(Source(pieces), env)
      OBVIOUS
    <3>3. pieces = files[Governing].texts[n]
      BY <1>2
    <3> HIDE DEF pieces, new
    <3>4. new[n] = FlattenSeq([i \in DOMAIN pieces |-> Meaning(pieces[i])])
      BY <1>2, <3>1, <3>2, ReplacedAsWritten
    <3>5. Written(n) = Trim(FlattenSeq([i \in DOMAIN pieces |-> Meaning(pieces[i])]))
      BY <3>3, Zenon DEF Written
    <3> QED BY <3>4, <3>5
  <2> HIDE DEF new
  <2>3. read'.texts = new
    BY <1>2, <2>1
  <2>4. \A n \in DOMAIN read'.texts : Trim(read'.texts[n]) = Written(n)'
    BY <1>1, <2>2, <2>3, RanksStay
  <2>5. ReadWritten'
    BY <2>1, <2>4 DEF ReadWritten
  <2> QED BY <1>1, <1>2, <2>1, <2>5 DEF RankInv
<1> QED BY <1>3, <1>4

LEMMA RankParse ==
  ASSUME StartupInv, RankInv, FilesWritten', ParseFile \/ ValidateFile
  PROVE  RankInv'
<1>1. CASE ParseFile
  <2>1. pc = "parse" /\ UNCHANGED Sources /\ path' = path /\ cli' = cli
    BY <1>1 DEF ParseFile, Sources, given
  <2>2. /\ path # None /\ ~(cli.offline /\ cli.online)
        /\ \A n \in DOMAIN read.texts : Trim(read.texts[n]) = Written(n)
        /\ path = Governing /\ read.given = files[Governing].given
    BY <2>1 DEF StartupInv, FileInv, RankInv, ReadWritten
  <2> DEFINE g == read.given
             Text(n) == Trim(read.texts[n])
             model == ModelSection(Text("model.base_url"), Text("model.api_key"),
                                   Text("model.model_name"), Text("model.tokenizer.path"), g)
             built == ConfigWith(Setting(g, "version", 1), model,
                        DocRunnerSection(g["doc_runner.allow_programs"], g), g)
             Complete == RequiredTexts \subseteq DOMAIN read.texts
                         /\ "doc_runner.allow_programs" \in DOMAIN read.given
  <2>3. CASE Complete
    <3>1. pc' = "validate" /\ config' = built
      BY <1>1, <2>3 DEF ParseFile
    <3>2. \A n \in RequiredTexts : Text(n) = Written(n)
      BY <2>2, <2>3
    <3>3. /\ built.model = model
          /\ built.doc_runner = DocRunnerSection(g["doc_runner.allow_programs"], g)
          /\ built.search = SearchSection(g)
      BY DEF ConfigWith
    <3>4. /\ model.base_url = Text("model.base_url") /\ model.api_key = Text("model.api_key")
          /\ model.model_name = Text("model.model_name")
          /\ model.tokenizer.path = Text("model.tokenizer.path")
      BY DEF ModelSection
    <3>5. built.doc_runner.allow_programs = g["doc_runner.allow_programs"]
      BY <3>3 DEF DocRunnerSection
    <3>6. SearchSection(g).default_enabled = Setting(g, "search.default_enabled", TRUE)
      BY DEF SearchSection
    <3> HIDE DEF built, model
    <3>7. built.search.default_enabled = SearchDefault
      BY <2>2, <3>3, <3>6, Zenon DEF SearchDefault
    <3>8. /\ built.model.base_url = Written("model.base_url")
          /\ built.model.api_key = Written("model.api_key")
          /\ built.model.model_name = Written("model.model_name")
          /\ built.model.tokenizer.path = Written("model.tokenizer.path")
          /\ built.doc_runner.allow_programs = ListedPrograms
      BY <2>2, <3>2, <3>3, <3>4, <3>5 DEF RequiredTexts, ListedPrograms
    <3>9. SettingsWritten(config')
      BY <3>1, <3>7, <3>8, Zenon DEF SettingsWritten, SearchDefault, ListedPrograms
    <3>10. SettingsOfFile(config')
      BY <2>2, <3>9, Zenon DEF SettingsOfFile
    <3>11. SettingsOfFile(config)'
      BY <2>1, <3>10, RanksStay
    <3> QED BY <2>1, <2>2, <3>1, <3>11 DEF RankInv, ReadWritten
  <2>4. CASE ~Complete
    <3>1. pc' = "failed"
      BY <1>1, <2>4 DEF ParseFile, Fail
    <3> QED BY <3>1, RestStep
  <2> QED BY <2>3, <2>4
<1>2. CASE ValidateFile
  <2>1. pc = "validate" /\ UNCHANGED Sources /\ path' = path /\ cli' = cli /\ config' = config
    BY <1>2 DEF ValidateFile, Sources, given
  <2>2. ~(cli.offline /\ cli.online) /\ SettingsOfFile(config)
    BY <2>1 DEF RankInv
  <2>3. CASE Valid(config)
    <3>1. pc' = "override"
      BY <1>2, <2>3 DEF ValidateFile
    <3>2. SettingsOfFile(config)'
      BY <2>1, <2>2, RanksStay
    <3> QED BY <2>1, <2>2, <3>1, <3>2 DEF RankInv, ReadWritten
  <2>4. CASE ~Valid(config)
    <3>1. pc' = "failed"
      BY <1>2, <2>4 DEF ValidateFile, Fail
    <3> QED BY <3>1, RestStep
  <2> QED BY <2>3, <2>4
<1> QED BY <1>1, <1>2

(* From the configuration to the ranks of its settings.                    *)
LEMMA RankUse ==
  ASSUME StartupInv, RankInv, FilesWritten', Override \/ Start
  PROVE  RankInv'
<1>1. CASE Override
  <2> DEFINE new == WithCommandLine(WithEnvironment(config))
  <2>1. pc = "override" /\ UNCHANGED Sources /\ path' = path /\ cli' = cli /\ config' = new
    BY <1>1 DEF Override, Sources, given
  <2>2. EnvironmentRead /\ path = Governing /\ HasOverridden(config)
    BY <2>1 DEF StartupInv, EnvironmentInv, FileInv, ConfigInv, EnvironmentRead
  <2>3. ~(cli.offline /\ cli.online) /\ SettingsOfFile(config)
    BY <2>1 DEF RankInv
  <2>4. EachRanked(new)
    BY <2>2, <2>3, OverriddenRanked
  <2> HIDE DEF new
  <2>5. pc' = "initialise" \/ pc' = "failed"
    BY <1>1 DEF Override, Fail
  <2>6. EachRanked(config)'
    BY <2>1, <2>4, RanksStay
  <2> QED BY <2>1, <2>3, <2>5, <2>6 DEF RankInv, ReadWritten
<1>2. CASE Start
  <2>1. /\ pc = "initialise" /\ pc' = "started" /\ UNCHANGED Sources
        /\ cli' = cli /\ config' = config
    BY <1>2 DEF Start, Sources, given
  <2>2. ~(cli.offline /\ cli.online) /\ EachRanked(config)
    BY <2>1 DEF RankInv
  <2>3. EachRanked(config)'
    BY <2>1, <2>2, RanksStay
  <2> QED BY <2>1, <2>2, <2>3 DEF RankInv, ReadWritten
<1> QED BY <1>1, <1>2

LEMMA RankStep == StartupInv /\ RankInv /\ [Next]_vars => RankInv'
<1> SUFFICES ASSUME StartupInv, RankInv, [Next]_vars PROVE RankInv'
  OBVIOUS
<1>1. FilesWritten'
  BY FilesStep DEF RankInv
<1>2. CASE LoadDotenv
  BY <1>1, <1>2, RestStep DEF LoadDotenv
<1>3. CASE PrintTemplate
  BY <1>1, <1>3, RestStep DEF PrintTemplate
<1>4. CASE InitialiseFails
  BY <1>1, <1>4, RestStep DEF InitialiseFails, Fail
<1>5. CASE Again
  BY <1>1, <1>5, RestStep DEF Again
<1>6. CASE UNCHANGED vars
  <2>1. /\ UNCHANGED Sources /\ cli' = cli /\ files' = files
        /\ UNCHANGED <<pc, path, read, config>>
    BY <1>6 DEF vars, given, Sources
  <2>2. ReadWritten'
    BY <2>1, RanksStay DEF RankInv, ReadWritten
  <2>3. /\ EachRanked(config)' <=> EachRanked(config)
        /\ SettingsOfFile(config)' <=> SettingsOfFile(config)
    BY <2>1, RanksStay
  <2> QED BY <1>1, <2>1, <2>2, <2>3 DEF RankInv
<1> QED BY <1>1, <1>2, <1>3, <1>4, <1>5, <1>6, RankFind, RankText, RankParse, RankUse DEF Next

---------------------------------------------------------------------------
(* What each step leaves to the next (run() of main.rs).                   *)
THEOREM StartupHolds == Spec => []StartupInv
<1> QED BY InitInv, StartupStep, PTL DEF Spec

(* Only the file that governs enables execution, never another file, the   *)
(* defaults or an override, and not without the confirmation of risky      *)
(* commands (validate of cps-config, load_runtime_config_with_paths).      *)
THEOREM ExecutionIsOptedIn == Spec => []ExecutionOptedIn
<1>1. StartupInv => ExecutionOptedIn
  <2> SUFFICES ASSUME StartupInv, pc = "started", config.approval.execute_enabled
               PROVE  /\ Governing \in DOMAIN files
                      /\ files[Governing] # Unreadable
                      /\ Setting(files[Governing].given, "approval.execute_enabled", FALSE)
                      /\ config.approval.high_risk_requires_typed_confirmation
    BY Zenon DEF ExecutionOptedIn
  <2>1. path = Governing
    BY DEF StartupInv, FileInv
  <2>2. path # None /\ Setting(files[path].given, "approval.execute_enabled", FALSE) /\ Valid(config)
    BY Zenon DEF StartupInv, ConfigInv
  <2>3. IsRead
    BY <2>2 DEF StartupInv, FileInv
  <2>4. config.approval.high_risk_requires_typed_confirmation
    BY <2>2, Zenon DEF Valid
  <2> QED BY <2>1, <2>2, <2>3, <2>4, Zenon DEF IsRead
<1> QED BY <1>1, StartupHolds, PTL

(* No variable and no flag makes a valid configuration invalid             *)
(* (apply_env_overrides and apply_cli_overrides, then validate).           *)
THEOREM OverridesAreHarmless == Spec => []OverridesKeepItValid
<1>1. StartupInv => OverridesKeepItValid
  BY DEF StartupInv, ConfigInv
<1> QED BY <1>1, StartupHolds, PTL

(* A start with the file that init prints is a start without a file: what  *)
(* default_config writes out for the model and the documentation runner is *)
(* what cps-config's defaults and the template say (default_config of      *)
(* main.rs against the serde defaults: DefaultsAgree, MinimalParsed).      *)
THEOREM MinimalFileChangesNothing == Spec => []NoFileIsMinimalFile
<1>1. StartupInv => NoFileIsMinimalFile
  BY DEF StartupInv, FileInv, MinimalInv, NoFileIsMinimalFile
<1> QED BY <1>1, StartupHolds, PTL

(* The six settings that variables and flags override have their ranks in  *)
(* a started program: the text of the file is replaced by what its writer  *)
(* meant (interpolate_with), parsed, and overridden in the order of        *)
(* apply_env_overrides and apply_cli_overrides.                            *)
THEOREM SettingsAreRanked == Spec => []SettingsRanked
<1>1. RankInv => SettingsRanked
  BY DEF RankInv, SettingsRanked
<1>2. Spec => []RankInv
  BY StartupHolds, RankInit, RankStep, PTL DEF Spec
<1> QED BY <1>1, <1>2, PTL
=============================================================================
