---------------------------- MODULE PolicyProofs ----------------------------
(***************************************************************************)
(* Proofs about the policy gate: what it says of a proposal (Policy) and   *)
(* what it lets through of the model's tool calls (ToolGate).              *)
(*                                                                         *)
(* For every set of arguments and of evidence, a command is never made to  *)
(* look less risky by adding to it, support for it never raises its risk,  *)
(* and what is approved may be executed.  The first rests on the           *)
(* classification being monotone in the set of the arguments; the second   *)
(* on writing the adjusted risk as a function of six facts about a         *)
(* proposal, of which support changes three.                               *)
(***************************************************************************)
EXTENDS Policy, ToolGate, TLAPS


\* A set of arguments has all the patterns of its subsets.
LEMMA PatternsMonotone ==
  ASSUME NEW A, NEW B, A \subseteq B
  PROVE  /\ Lowered(A) \subseteq Lowered(B)
         /\ HasCriticalPattern(A) => HasCriticalPattern(B)
         /\ HasHighPattern(A) => HasHighPattern(B)
         /\ Mutates(A) => Mutates(B)
         /\ ReadsOnly(A) => ReadsOnly(B)
<1>1. Lowered(A) \subseteq Lowered(B)
  BY DEF Lowered
<1>2. \A words : Within(A, words) => Within(B, words)
  BY DEF Within
<1>3. IsRmRecursiveForce(A) => IsRmRecursiveForce(B)
  BY <1>1 DEF IsRmRecursiveForce
<1>4. HasCriticalPattern(A) => HasCriticalPattern(B)
  BY <1>1, <1>2, <1>3 DEF HasCriticalPattern
<1> QED
  BY <1>1, <1>4 DEF HasHighPattern, Mutates, ReadsOnly

\* A classification is a risk.
LEMMA ClassifyType == \A A : Classify(A) \in 0..3
BY DEF Classify, Low, Medium, High, Critical

\* Once something is recognised, more arguments never lower the risk.
LEMMA ClassifyMonotone ==
  ASSUME NEW A, NEW B, A \subseteq B,
         HasCriticalPattern(A) \/ HasHighPattern(A) \/ Mutates(A) \/ ReadsOnly(A)
  PROVE  Classify(A) <= Classify(B)
<1>1. CASE Lowered(A) = {}
  BY <1>1, ClassifyType DEF Classify, Low
<1>2. CASE Lowered(A) # {}
  <2>1. Lowered(B) # {}
    BY <1>2, PatternsMonotone
  <2> QED
    BY <1>2, <2>1, PatternsMonotone DEF Classify, Low, Medium, High, Critical
<1> QED
  BY <1>1, <1>2

\* An appended sequence has one value more.
LEMMA RangeAppend ==
  ASSUME NEW S, NEW s \in Seq(S), NEW e \in S
  PROVE  /\ Range(s) \subseteq Range(Append(s, e))
         /\ \A x \in Range(Append(s, e)) : x \in Range(s) \/ x = e
         /\ Append(s, e) # <<>>
<1> DEFINE t == Append(s, e)
<1>1. /\ t \in Seq(S) /\ Len(t) = Len(s) + 1 /\ Len(s) \in Nat
      /\ \A i \in 1..Len(s) : t[i] = s[i]
      /\ t[Len(s) + 1] = e
  OBVIOUS
<1>2. DOMAIN s = 1..Len(s) /\ DOMAIN t = 1..(Len(s) + 1)
  BY <1>1
<1>3. t # <<>>
  BY <1>1
<1> HIDE DEF t
<1>4. Range(s) \subseteq Range(t)
  BY <1>1, <1>2 DEF Range
<1>5. ASSUME NEW x \in Range(t) PROVE x \in Range(s) \/ x = e
  <2>1. PICK i \in DOMAIN t : x = t[i]
    BY DEF Range
  <2>2. CASE i = Len(s) + 1
    BY <1>1, <2>1, <2>2
  <2>3. CASE i # Len(s) + 1
    BY <1>1, <1>2, <2>1, <2>3 DEF Range
  <2> QED
    BY <2>2, <2>3
<1> QED
  BY <1>3, <1>4, <1>5 DEF t

\* The parts of a proposal are sequences.
THEOREM PolicyTyped == ProposalSpec => []ProposalOK
<1> USE PolicyAssumption DEF ProposalOK
<1>1. ProposalInit => ProposalOK
  BY DEF ProposalInit
<1>2. ASSUME ProposalOK, [Revise]_proposalVars PROVE ProposalOK'
  <2>1. ASSUME NEW a \in Arguments, AddArgument(a) PROVE ProposalOK'
    BY <1>2, <2>1 DEF AddArgument
  <2>2. ASSUME NEW e \in EvidenceItems, AddEvidence(e) PROVE ProposalOK'
    BY <1>2, <2>2 DEF AddEvidence
  <2>3. ASSUME NEW c \in Preflights, AddPreflight(c) PROVE ProposalOK'
    BY <1>2, <2>3 DEF AddPreflight
  <2>4. ASSUME NEW words \in Assumptions, AddAssumption(words) PROVE ProposalOK'
    BY <1>2, <2>4 DEF AddAssumption
  <2>5. CASE UNCHANGED proposalVars
    BY <1>2, <2>5 DEF proposalVars
  <2> QED
    BY <1>2, <2>1, <2>2, <2>3, <2>4, <2>5 DEF Revise
<1> QED
  BY <1>1, <1>2, PTL DEF ProposalSpec

\* What is added to a command never hides the risk of the rest.
THEOREM RiskStaysVisible == ProposalSpec => RiskNeverHidden
<1>1. ASSUME ProposalOK, [Revise]_proposalVars, Recognised(proposal.argv)
      PROVE  ClassifyRisk(proposal.argv) <= ClassifyRisk(proposal.argv')
  <2>1. CASE proposal'.argv = proposal.argv
    BY <2>1, ClassifyType DEF ClassifyRisk
  <2>2. ASSUME NEW a \in Arguments, AddArgument(a)
        PROVE  ClassifyRisk(proposal.argv) <= ClassifyRisk(proposal.argv')
    <3>1. proposal'.argv = Append(proposal.argv, a) /\ proposal.argv \in Seq(Arguments)
      BY <1>1, <2>2 DEF ProposalOK, AddArgument
    <3>2. Range(proposal.argv) \subseteq Range(proposal'.argv)
      BY <3>1, RangeAppend
    <3> QED
      BY <1>1, <3>2, ClassifyMonotone DEF ClassifyRisk, Recognised
  <2>3. ASSUME NEW e \in EvidenceItems, AddEvidence(e) PROVE proposal'.argv = proposal.argv
    BY <2>3 DEF AddEvidence
  <2>4. ASSUME NEW c \in Preflights, AddPreflight(c) PROVE proposal'.argv = proposal.argv
    BY <2>4 DEF AddPreflight
  <2>5. ASSUME NEW words \in Assumptions, AddAssumption(words)
        PROVE  proposal'.argv = proposal.argv
    BY <2>5 DEF AddAssumption
  <2> QED
    BY <1>1, <2>1, <2>2, <2>3, <2>4, <2>5 DEF Revise, proposalVars
<1> QED
  BY <1>1, PolicyTyped, PTL DEF ProposalSpec, RiskNeverHidden

\* A rejection is looked for wherever the execute gate looks.
LEMMA NotRejected ==
  ASSUME NEW p, ~Rejected(CheckProposal(p)), p.argv \in Seq(Arguments)
  PROVE  ExecuteAllowed(p.argv, TRUE)
<1>1. p.argv # <<>>
  BY DEF Rejected, CheckProposal, Finding
<1>2. Rejections(p.argv) \subseteq CheckProposal(p)
  BY <1>1 DEF CheckProposal
<1>3. \A f \in Rejections(p.argv) : f.severity = "reject"
  <2>1. \A code : Finding("reject", code, "").severity = "reject"
    BY DEF Finding
  <2>2. ASSUME NEW f \in Rejections(p.argv)
        PROVE  \E code : f = Finding("reject", code, "")
    BY <2>2 DEF Rejections, If
  <2> QED
    BY <2>1, <2>2
<1>4. Rejections(p.argv) = {}
  BY <1>2, <1>3 DEF Rejected
<1> QED
  BY <1>1, <1>4 DEF Rejections, If, ExecuteAllowed, LooksLikeShellString

\* What the checker approves, the execute gate lets through.
THEOREM ApprovedRuns == ProposalSpec => []ApprovedMayRun
<1>1. ProposalOK => ApprovedMayRun
  <2> SUFFICES ASSUME ProposalOK, Check(proposal).approved
               PROVE  ExecuteAllowed(proposal.argv, TRUE)
    BY DEF ApprovedMayRun
  <2>1. ~Rejected(CheckProposal(proposal))
    BY DEF Check, Rejected
  <2> QED
    BY <2>1, NotRejected DEF ProposalOK
<1> QED
  BY <1>1, PolicyTyped, PTL

---------------------------------------------------------------------------
(* The adjusted risk as a function of facts about the proposal.            *)

Findings(p) == CheckProposal(p) \cup QualityFindings(p)

Unscoped(p) ==
  /\ p.argv # <<>>
  /\ \E scope \in {"namespace", "context", "region", "profile"} : MissingScope(p.argv, scope)

Weak(p) == WebOnly(p) \/ (p.argv # <<>> /\ p.evidence = <<>>)

Prepared(p) == p.preflight # <<>> /\ p.evidence # <<>>

Backed(p) == \E e \in Range(p.evidence) : Strong(e)

Raised(b, unscoped, weak) ==
  LET scoped == IF unscoped /\ b < High THEN Escalate(b) ELSE b
  IN  IF weak /\ scoped >= Medium THEN Escalate(scoped) ELSE scoped

Eased(level, eases) == IF eases THEN DeEscalate(level) ELSE level

Adjusted(b, p) ==
  Eased(Eased(Eased(Raised(b, Unscoped(p), Weak(p)), Uses(p, DRY_RUN_FLAGS)), Prepared(p)),
        Backed(p))

\* Weaker evidence raises a risk further, and within the scale.
LEMMA RaisedMonotone ==
  ASSUME NEW b \in 0..3, NEW u \in BOOLEAN, NEW w \in BOOLEAN, NEW v \in BOOLEAN, v => w
  PROVE  /\ Raised(b, u, w) \in 0..3
         /\ Raised(b, u, v) <= Raised(b, u, w)
BY DEF Raised, Escalate, Low, Medium, High, Critical

\* What eases a risk keeps it on the scale and lowers it.
LEMMA EasedMonotone ==
  ASSUME NEW l \in 0..3, NEW m \in 0..3, m <= l,
         NEW c \in BOOLEAN, NEW d \in BOOLEAN, c => d
  PROVE  /\ Eased(l, c) \in 0..3
         /\ Eased(m, d) <= Eased(l, c)
BY DEF Eased, DeEscalate, Low

\* Of a command's findings, two decide on its risk.
LEMMA DecidingFindings ==
  ASSUME NEW p
  PROVE  /\ (\E f \in Findings(p) : f.code = "MissingScope") <=> Unscoped(p)
         /\ NoEvidence(Findings(p)) <=> p.argv # <<>> /\ p.evidence = <<>>
<1>1. \A severity, code, about :
        /\ Finding(severity, code, about).code = code
        /\ Finding(severity, code, about).about = about
  BY DEF Finding
<1>q. ASSUME NEW f \in QualityFindings(p)
      PROVE  f.code # "MissingScope" /\ ~(f.code = "MissingEvidence" /\ f.about = "proposal")
  <2>1. \/ f = Finding("warn", "MissingEvidence", "unknown doc")
        \/ f = Finding("escalate", "RiskEscalation", "confidence")
    BY <1>q DEF QualityFindings, If
  <2>2. \/ f.code = "MissingEvidence" /\ f.about = "unknown doc"
        \/ f.code = "RiskEscalation"
    <3>1. CASE f = Finding("warn", "MissingEvidence", "unknown doc")
      <4>1. f = [severity |-> "warn", code |-> "MissingEvidence", about |-> "unknown doc"]
        BY <3>1, Zenon DEF Finding
      <4> QED
        BY <4>1
    <3>2. CASE f = Finding("escalate", "RiskEscalation", "confidence")
      BY <1>1, <3>2, ZenonT(30)
    <3> QED
      BY <2>1, <3>1, <3>2
  <2> QED
    BY <2>2
<1>2. CASE p.argv = <<>>
  <2>1. ASSUME NEW f \in Findings(p)
        PROVE  f.code # "MissingScope" /\ ~(f.code = "MissingEvidence" /\ f.about = "proposal")
    <3>1. f \in QualityFindings(p) \/ f = Finding("reject", "EmptyArgv", "")
      BY <1>2, <2>1 DEF Findings, CheckProposal
    <3>2. f \in QualityFindings(p) \/ f.code = "EmptyArgv"
      <4>1. CASE f = Finding("reject", "EmptyArgv", "")
        BY <1>1, <4>1
      <4> QED
        BY <3>1, <4>1
    <3> QED
      BY <1>q, <3>2
  <2> QED
    BY <1>2, <2>1 DEF Unscoped, NoEvidence, Unsupported
<1>3. CASE p.argv # <<>>
  <2> DEFINE Scopes == {"namespace", "context", "region", "profile"}
  <2>1. ASSUME NEW scope \in Scopes, MissingScope(p.argv, scope)
        PROVE  Finding("warn", "MissingScope", scope) \in Findings(p)
    BY <1>3, <2>1 DEF Findings, CheckProposal
  <2>2. ASSUME p.evidence = <<>>
        PROVE  Finding("warn", "MissingEvidence", "proposal") \in Findings(p)
    BY <1>3, <2>2 DEF Findings, CheckProposal, EvidenceFindings
  <2>0. ASSUME NEW f \in Findings(p)
        PROVE  \/ f \in QualityFindings(p)
               \/ \E code \in {"ShellOperator", "WrapperProgram", "ProgramNotAllowed"} :
                    f = Finding("reject", code, "")
               \/ f = Finding("escalate", "RiskEscalation", "declared")
               \/ \E scope \in Scopes :
                    MissingScope(p.argv, scope) /\ f = Finding("warn", "MissingScope", scope)
               \/ p.evidence = <<>> /\ f = Finding("warn", "MissingEvidence", "proposal")
               \/ f = Finding("warn", "MissingEvidence", "token")
               \/ f = Finding("warn", "PreflightRequired", "")
               \/ f = Finding("warn", "SaferAlternative", "")
    <3>1. f \in Rejections(p.argv) =>
            \E code \in {"ShellOperator", "WrapperProgram", "ProgramNotAllowed"} :
              f = Finding("reject", code, "")
      BY DEF Rejections, If
    <3>2. f \in EvidenceFindings(p) =>
            \/ p.evidence = <<>> /\ f = Finding("warn", "MissingEvidence", "proposal")
            \/ f = Finding("warn", "MissingEvidence", "token")
      BY DEF EvidenceFindings, If
    <3> QED
      BY <1>3, <2>0, <3>1, <3>2 DEF Findings, CheckProposal, If
  <2>f. ASSUME NEW f \in Findings(p)
        PROVE  \/ f \in QualityFindings(p)
               \/ f.code = "MissingScope" /\ \E scope \in Scopes : MissingScope(p.argv, scope)
               \/ f.code = "MissingEvidence" /\ f.about = "proposal" /\ p.evidence = <<>>
               \/ f.code = "MissingEvidence" /\ f.about = "token"
               \/ f.code \notin {"MissingScope", "MissingEvidence"}
    <3>1. CASE \E code \in {"ShellOperator", "WrapperProgram", "ProgramNotAllowed"} :
                 f = Finding("reject", code, "")
      <4>1. PICK code \in {"ShellOperator", "WrapperProgram", "ProgramNotAllowed"} :
              f = Finding("reject", code, "")
        BY <3>1
      <4>2. f.code = code
        BY <1>1, <4>1
      <4> QED
        BY <4>2
    <3>2a. CASE f = Finding("escalate", "RiskEscalation", "declared")
      BY <1>1, <3>2a
    <3>2b. CASE f = Finding("warn", "PreflightRequired", "")
      <4>1. f.code = "PreflightRequired"
        BY <1>1, <3>2b
      <4> QED
        BY <4>1
    <3>2c. CASE f = Finding("warn", "SaferAlternative", "")
      <4>1. f.code = "SaferAlternative"
        BY <1>1, <3>2c
      <4> QED
        BY <4>1
    <3>3. CASE \E scope \in Scopes :
                 MissingScope(p.argv, scope) /\ f = Finding("warn", "MissingScope", scope)
      BY <1>1, <3>3
    <3>4. CASE p.evidence = <<>> /\ f = Finding("warn", "MissingEvidence", "proposal")
      BY <1>1, <3>4
    <3>5. CASE f = Finding("warn", "MissingEvidence", "token")
      BY <1>1, <3>5
    <3> HIDE DEF Scopes
    <3> QED
      BY <2>0, <2>f, <3>1, <3>2a, <3>2b, <3>2c, <3>3, <3>4, <3>5
  <2>3. ASSUME NEW f \in Findings(p), f.code = "MissingScope"
        PROVE  \E scope \in Scopes : MissingScope(p.argv, scope)
    BY <1>q, <2>f, <2>3
  <2>4. ASSUME NEW f \in Findings(p), f.code = "MissingEvidence", f.about = "proposal"
        PROVE  p.evidence = <<>>
    BY <1>q, <2>f, <2>4
  <2>5. (\E f \in Findings(p) : f.code = "MissingScope") <=> Unscoped(p)
    BY <1>1, <1>3, <2>1, <2>3 DEF Unscoped
  <2>6. NoEvidence(Findings(p)) <=> p.evidence = <<>>
    BY <1>1, <2>2, <2>4 DEF NoEvidence, Unsupported
  <2> QED
    BY <1>3, <2>5, <2>6
<1> QED
  BY <1>2, <1>3

\* The checker computes the adjusted risk.
LEMMA AdjustIsAdjusted ==
  ASSUME NEW p, NEW b \in 0..3
  PROVE  AdjustRisk(b, p, Findings(p)) = Adjusted(b, p)
<1>1. ~(WebOnly(p) /\ p.evidence = <<>>)
  BY DEF WebOnly
<1>2. Escalate(b) \in 0..3
  BY DEF Escalate, Critical
<1> QED
  BY <1>1, <1>2, DecidingFindings
     DEF AdjustRisk, Adjusted, Raised, Eased, Weak, Prepared, Backed

\* Support that is added removes weaknesses and adds strengths.
LEMMA SupportGrows ==
  ASSUME NEW p, NEW q, q.argv = p.argv,
         Range(p.evidence) \subseteq Range(q.evidence), p.evidence # <<>> => q.evidence # <<>>,
         Range(p.preflight) \subseteq Range(q.preflight), p.preflight # <<>> => q.preflight # <<>>,
         p.argv # <<>>
  PROVE  /\ Adjusted(ClassifyRisk(q.argv), q) \in 0..3
         /\ Adjusted(ClassifyRisk(p.argv), p) \in 0..3
         /\ Adjusted(ClassifyRisk(q.argv), q) <= Adjusted(ClassifyRisk(p.argv), p)
<1> DEFINE b == ClassifyRisk(p.argv)
           u == Unscoped(p)
<1>1. b \in 0..3
  BY ClassifyType DEF ClassifyRisk
<1>2. Unscoped(q) = u /\ u \in BOOLEAN
  BY DEF Unscoped
<1>3. /\ Weak(p) \in BOOLEAN /\ Weak(q) \in BOOLEAN
      /\ Weak(q) => Weak(p)
  BY DEF Weak, WebOnly
<1>4. /\ Uses(p, DRY_RUN_FLAGS) \in BOOLEAN /\ Uses(q, DRY_RUN_FLAGS) \in BOOLEAN
      /\ Uses(p, DRY_RUN_FLAGS) => Uses(q, DRY_RUN_FLAGS)
  BY DEF Uses
<1>5. /\ Prepared(p) \in BOOLEAN /\ Prepared(q) \in BOOLEAN
      /\ Prepared(p) => Prepared(q)
  BY DEF Prepared
<1>6. /\ Backed(p) \in BOOLEAN /\ Backed(q) \in BOOLEAN
      /\ Backed(p) => Backed(q)
  BY DEF Backed
<1> DEFINE P1 == Raised(b, u, Weak(p))
           Q1 == Raised(b, u, Weak(q))
           P2 == Eased(P1, Uses(p, DRY_RUN_FLAGS))
           Q2 == Eased(Q1, Uses(q, DRY_RUN_FLAGS))
           P3 == Eased(P2, Prepared(p))
           Q3 == Eased(Q2, Prepared(q))
<1>7. P1 \in 0..3 /\ Q1 \in 0..3 /\ Q1 <= P1
  <2> HIDE DEF b, u
  <2> QED
    BY <1>1, <1>2, <1>3, RaisedMonotone
<1>8. P2 \in 0..3 /\ Q2 \in 0..3 /\ Q2 <= P2
  <2> HIDE DEF P1, Q1
  <2> QED
    BY <1>4, <1>7, EasedMonotone
<1>9. P3 \in 0..3 /\ Q3 \in 0..3 /\ Q3 <= P3
  <2> HIDE DEF P2, Q2
  <2> QED
    BY <1>5, <1>8, EasedMonotone
<1>10. /\ Eased(Q3, Backed(q)) \in 0..3 /\ Eased(P3, Backed(p)) \in 0..3
       /\ Eased(Q3, Backed(q)) <= Eased(P3, Backed(p))
  <2> HIDE DEF P3, Q3
  <2> QED
    BY <1>6, <1>9, EasedMonotone
<1> QED
  BY <1>2, <1>10 DEF Adjusted

\* An assumption that is added answers for what it did before and more.
LEMMA AssumptionsHelp ==
  ASSUME NEW p, NEW q, q.argv = p.argv, Range(p.assumptions) \subseteq Range(q.assumptions)
  PROVE  ValidateAssumptions(q) \subseteq Check(p).warnings
<1>1. \A words : Assumed(p, words) => Assumed(q, words)
  BY DEF Assumed
<1>2. /\ ImplicitNamespace(q) => ImplicitNamespace(p)
      /\ ImplicitContext(q) => ImplicitContext(p)
      /\ ImplicitRegion(q) => ImplicitRegion(p)
  BY <1>1 DEF ImplicitNamespace, ImplicitContext, ImplicitRegion
<1>3. ValidateAssumptions(q) \subseteq ValidateAssumptions(p)
  BY <1>2 DEF ValidateAssumptions, If
<1> QED
  BY <1>3 DEF Check

\* Evidence, preflight commands and assumptions never raise the risk of the
\* verdict, nor bring a warning of an implicit scope.
THEOREM SupportHelps == ProposalSpec => SupportNeverHurts
<1>1. ASSUME NEW p, p.argv = <<>> PROVE Check(p).risk = 0
  <2>1. ClassifyRisk(p.argv) = 0
    BY <1>1 DEF ClassifyRisk, Classify, Lowered, Range, Low
  <2>2. Adjusted(0, p) = 0
    BY <1>1 DEF Adjusted, Raised, Eased, DeEscalate, Unscoped, Low, Medium
  <2> QED
    BY <2>1, <2>2, AdjustIsAdjusted DEF Check, Findings, Greater
<1>2. ASSUME ProposalOK, [Revise]_proposalVars, proposal'.argv = proposal.argv
      PROVE  /\ Check(proposal').risk <= Check(proposal).risk
             /\ ValidateAssumptions(proposal') \subseteq Check(proposal).warnings
  <2> DEFINE p == proposal
             q == proposal'
  <2>1. /\ Range(p.evidence) \subseteq Range(q.evidence)
        /\ p.evidence # <<>> => q.evidence # <<>>
        /\ Range(p.preflight) \subseteq Range(q.preflight)
        /\ p.preflight # <<>> => q.preflight # <<>>
        /\ Range(p.assumptions) \subseteq Range(q.assumptions)
    <3>1. ASSUME NEW a \in Arguments, AddArgument(a)
          PROVE  /\ q.evidence = p.evidence /\ q.preflight = p.preflight
                 /\ q.assumptions = p.assumptions
      BY <3>1 DEF AddArgument
    <3>2. ASSUME NEW e \in EvidenceItems, AddEvidence(e)
          PROVE  /\ q.evidence = Append(p.evidence, e) /\ q.preflight = p.preflight
                 /\ q.assumptions = p.assumptions
      BY <1>2, <3>2 DEF AddEvidence, ProposalOK
    <3>3. ASSUME NEW c \in Preflights, AddPreflight(c)
          PROVE  /\ q.evidence = p.evidence /\ q.preflight = Append(p.preflight, c)
                 /\ c \in Seq(Arguments) /\ q.assumptions = p.assumptions
      BY <1>2, <3>3, PolicyAssumption DEF AddPreflight, ProposalOK
    <3>a. ASSUME NEW words \in Assumptions, AddAssumption(words)
          PROVE  /\ q.evidence = p.evidence /\ q.preflight = p.preflight
                 /\ q.assumptions = Append(p.assumptions, words)
      BY <1>2, <3>a DEF AddAssumption, ProposalOK
    <3>4. /\ p.evidence \in Seq(EvidenceItems) /\ p.preflight \in Seq(Seq(Arguments))
          /\ p.assumptions \in Seq(Assumptions)
      BY <1>2 DEF ProposalOK
    <3>5. ASSUME NEW S, NEW s \in Seq(S), NEW x \in S, NEW t, t = Append(s, x)
          PROVE  Range(s) \subseteq Range(t) /\ t # <<>>
      BY <3>5, RangeAppend
    <3>6. CASE \E a \in Arguments : AddArgument(a)
      BY <3>1, <3>6
    <3>7. CASE \E e \in EvidenceItems : AddEvidence(e)
      BY <3>2, <3>4, <3>5, <3>7
    <3>8. CASE \E c \in Preflights : AddPreflight(c)
      BY <3>3, <3>4, <3>5, <3>8
    <3>9. CASE \E words \in Assumptions : AddAssumption(words)
      BY <3>a, <3>4, <3>5, <3>9
    <3>10. CASE UNCHANGED proposalVars
      BY <3>10 DEF proposalVars
    <3> QED
      BY <1>2, <3>6, <3>7, <3>8, <3>9, <3>10 DEF Revise
  <2>w. ValidateAssumptions(q) \subseteq Check(p).warnings
    BY <1>2, <2>1, AssumptionsHelp
  <2>2. CASE p.argv = <<>>
    BY <1>1, <1>2, <2>2, <2>w
  <2>3. CASE p.argv # <<>>
    <3>1. /\ Adjusted(ClassifyRisk(q.argv), q) \in 0..3
          /\ Adjusted(ClassifyRisk(p.argv), p) \in 0..3
          /\ Adjusted(ClassifyRisk(q.argv), q) <= Adjusted(ClassifyRisk(p.argv), p)
      BY <1>2, <2>1, <2>3, SupportGrows
    <3>2. ClassifyRisk(p.argv) \in 0..3 /\ ClassifyRisk(q.argv) = ClassifyRisk(p.argv)
      BY <1>2, ClassifyType DEF ClassifyRisk
    <3>3. \A x : x \in {p, q} =>
            Check(x).risk = Greater(ClassifyRisk(x.argv), Adjusted(ClassifyRisk(x.argv), x))
      BY <3>2, AdjustIsAdjusted DEF Check, Findings
    <3> QED
      BY <2>w, <3>1, <3>2, <3>3 DEF Greater
  <2> QED
    BY <2>2, <2>3
<1> QED
  BY <1>2, PolicyTyped, PTL DEF ProposalSpec, SupportNeverHurts

---------------------------------------------------------------------------
(* Tool calls.  Neither invariant needs a strengthening: what a call is    *)
(* answered and what it makes the runtime do follow from the call, the     *)
(* configuration and the store in the state it is made in.                 *)

(* What a refused call leaves behind.                                      *)
LEMMA RefusedDoesNothing ==
  ASSUME NEW c, NEW why, Refuse(c, why)
  PROVE  /\ effect'.tool = "none"
         /\ answer' = [call |-> c, why |-> why]
         /\ UNCHANGED <<config, stored>>
BY DEF Refuse, Answer, Nothing

(* What the gate checked of a help page is what the dispatcher reads.      *)
LEMMA HelpRead ==
  ASSUME NEW c, c.tool = "read_help", Passed(c), ParseArgs(c)
  PROVE  LET f == Fields(c)
         IN /\ ProgramAllowed(f.program.str)
            /\ "subcommands" \in DOMAIN f =>
                 \A i \in DOMAIN f.subcommands.items :
                   IsSafeSubcommand(f.subcommands.items[i].str)
<1>1. ValidateReadHelp(c.args)
  BY DEF Passed, RequiresPolicyValidation, ValidateToolCall, DocTools
<1>2. IsObj(c.args)
  BY <1>1 DEF ValidateReadHelp, Has
<1>3. Fields(c) = c.args.fields
  BY <1>2 DEF Fields, StructFields
<1>4. ReadHelpArgs(c.args.fields)
  BY <1>3 DEF ParseArgs, DocTools
<1>5. ProgramAllowed(c.args.fields.program.str)
  BY <1>1 DEF ValidateReadHelp
<1>6. ASSUME "subcommands" \in DOMAIN c.args.fields,
             NEW i \in DOMAIN c.args.fields.subcommands.items
      PROVE  IsSafeSubcommand(c.args.fields.subcommands.items[i].str)
  <2>1. IsArr(c.args.fields.subcommands) /\ IsStr(c.args.fields.subcommands.items[i])
    BY <1>4, <1>6 DEF ReadHelpArgs, May, IsStrings, IsListOf
  <2>2. c.args.fields.subcommands.items[i].str \in StringArrayArg(c.args, "subcommands")
    BY <1>2, <1>6, <2>1 DEF StringArrayArg, Has
  <2> QED BY <1>1, <2>2 DEF ValidateReadHelp
<1> QED BY <1>3, <1>5, <1>6

(* The gate looks up the document the dispatcher reads.                    *)
LEMMA DocRead ==
  ASSUME NEW c, c.tool \in DocTools, Passed(c), ParseArgs(c)
  PROVE  DocRef(Fields(c)) \in stored
<1>1. ValidateDocCall(c.args)
  BY DEF Passed, RequiresPolicyValidation, ValidateToolCall, DocTools
<1>2. IsObj(c.args)
  BY <1>1 DEF ValidateDocCall, Has
<1>3. Fields(c) = c.args.fields
  BY <1>2 DEF Fields, StructFields
<1>4. DocRefArgs(c.args.fields)
  BY <1>3 DEF ParseArgs, DocArgs, DocTools
<1>5. CASE "doc" \in DOMAIN c.args.fields
  <2>1. IsStr(c.args.fields.doc)
    BY <1>4, <1>5 DEF DocRefArgs, May
  <2>2. c.args.fields.doc.str \in stored
    BY <1>1, <1>2, <1>5, <2>1 DEF ValidateDocCall, Has
  <2> QED BY <1>3, <1>5, <2>2 DEF DocRef
<1>6. CASE "doc" \notin DOMAIN c.args.fields
  <2>1. c.args.fields["doc_id"].str \in stored
    BY <1>1, <1>6 DEF ValidateDocCall, Has
  <2> QED BY <1>3, <1>6, <2>1 DEF DocRef
<1> QED BY <1>5, <1>6

(* What the gate made out of a spawn is what the pool is asked for.        *)
LEMMA SpawnRead ==
  ASSUME NEW c, c.tool = "spawn", Passed(c), ParseArgs(c)
  PROVE  LET f == Fields(c)
             tools == {f["allowed_tools"].items[i].str : i \in DOMAIN f["allowed_tools"].items}
         IN /\ f.role.str \in {"doc_explorer", "risk_reviewer"}
            /\ f["context_tokens"].num <= SubagentContext
            /\ tools \subseteq RoleToolPermissions(f.role.str)
<1> DEFINE f == c.args.fields
<1>1. ValidateSpawn(c.args)
  BY DEF Passed, RequiresPolicyValidation, ValidateToolCall, DocTools
<1>2. IsObj(c.args)
  BY <1>1 DEF ValidateSpawn, Has
<1>3. Fields(c) = f
  BY <1>2 DEF Fields, StructFields
<1>4. SpawnArgs(f)
  BY <1>3 DEF ParseArgs, DocTools
<1>5. f.role.str \in {"doc_explorer", "risk_reviewer"}
  BY <1>1 DEF ValidateSpawn, Has, IsOneOf
<1>6. f["context_tokens"].num <= SubagentContext
  <2>1. Has(c.args, "context_tokens", IsUsize)
    BY <1>2, <1>4 DEF SpawnArgs, Needs, Has
  <2> QED BY <1>1, <2>1 DEF ValidateSpawn, UsizeArgOrZero
<1>7. ASSUME NEW i \in DOMAIN f["allowed_tools"].items
      PROVE  f["allowed_tools"].items[i].str \in RoleToolPermissions(f.role.str)
  <2>1. /\ "allowed_tools" \in DOMAIN f /\ IsArr(f["allowed_tools"])
        /\ IsStr(f["allowed_tools"].items[i])
    BY <1>4, <1>7 DEF SpawnArgs, Needs, IsStrings, IsListOf
  <2>2. f["allowed_tools"].items[i].str \in StringArrayArg(c.args, "allowed_tools")
    BY <1>2, <1>7, <2>1 DEF StringArrayArg, Has
  <2> QED BY <1>1, <2>2 DEF ValidateSpawn
<1> QED BY <1>3, <1>5, <1>6, <1>7

(* A word the gate takes is one the doc runner takes.                      *)
LEMMA SafeIsValid ==
  ASSUME NEW word, IsSafeSubcommand(word)
  PROVE  IsValidIdentifier(word)
BY DEF IsSafeSubcommand, IsValidIdentifier, Made

(* The two copies of the tools of a role.                                  *)
LEMMA RoleCopiesAgree ==
  ASSUME NEW role \in {"doc_explorer", "risk_reviewer"}
  PROVE  RoleToolPermissions(role) = AllowedTools(role)
BY DEF RoleToolPermissions, AllowedTools, DocTools

---------------------------------------------------------------------------
LEMMA CarriedOutStep ==
  ASSUME CarriedOutWasChecked, [Next]_vars
  PROVE  CarriedOutWasChecked'
<1>1. CASE UNCHANGED vars
  BY <1>1 DEF vars, CarriedOutWasChecked, ProgramAllowed
<1>2. ASSUME NEW c \in Calls, Dispatch(c)
      PROVE  CarriedOutWasChecked'
  <2>0. ASSUME effect'.tool = "none"
        PROVE  CarriedOutWasChecked'
    BY <2>0 DEF CarriedOutWasChecked, DocTools
  <2>1. ASSUME NEW why, Refuse(c, why)
        PROVE  CarriedOutWasChecked'
    BY <2>0, <2>1, RefusedDoesNothing
  <2>2. CASE Done(c)
    BY <2>1, <2>2 DEF Done
  <2>3. CASE ProposeCommand(c)
    BY <2>1, <2>3 DEF ProposeCommand
  <2>4. CASE GateRefuses(c)
    BY <2>1, <2>4 DEF GateRefuses
  <2>5. CASE ArgumentsRefused(c)
    BY <2>1, <2>5 DEF ArgumentsRefused
  <2>6. CASE ReadHelp(c)
    <3> DEFINE f == Fields(c)
               words == IF "subcommands" \in DOMAIN f
                          THEN [i \in DOMAIN f.subcommands.items |-> f.subcommands.items[i].str]
                          ELSE <<>>
    <3>1. \/ Refuse(c, "refused")
          \/ /\ effect' = [tool |-> "read_help", program |-> f.program.str, words |-> words]
             /\ UNCHANGED config
      BY <2>6 DEF ReadHelp, Captured, Answer
    <3>2. c.tool = "read_help" /\ Passed(c) /\ ParseArgs(c)
      BY <2>6 DEF ReadHelp
    <3>3. ProgramAllowed(f.program.str) /\ \A i \in DOMAIN words : IsSafeSubcommand(words[i])
      BY <3>2, HelpRead
    <3> HIDE DEF f, words
    <3> QED BY <2>1, <3>1, <3>3 DEF CarriedOutWasChecked, DocTools, ProgramAllowed
  <2>7. CASE ReadMan(c)
    <3>1. effect'.tool \in {"none", "read_man"}
      BY <2>7, RefusedDoesNothing DEF ReadMan, Captured, Answer
    <3> QED BY <3>1 DEF CarriedOutWasChecked, DocTools
  <2>8. CASE ReadInfo(c)
    <3>1. effect'.tool \in {"none", "read_info"}
      BY <2>8, RefusedDoesNothing DEF ReadInfo, Captured, Answer
    <3> QED BY <3>1 DEF CarriedOutWasChecked, DocTools
  <2>9. CASE LookUp(c)
    <3>1. ASSUME NEW why, Refuse(c, why)
          PROVE  CarriedOutWasChecked'
      BY <2>1, <3>1
    <3>2. ASSUME Answer(c, "ok", [tool |-> c.tool, doc |-> DocRef(Fields(c))]),
                 UNCHANGED stored, DocRef(Fields(c)) \in stored, c.tool \in DocTools
          PROVE  CarriedOutWasChecked'
      BY <3>2 DEF CarriedOutWasChecked, Answer, DocTools
    <3> QED BY <2>9, <3>1, <3>2 DEF LookUp
  <2>10. CASE NotImplemented(c)
    <3>1. /\ effect' = [tool |-> c.tool] /\ UNCHANGED config
          /\ c.tool \in {"web_search", "execute"} /\ ValidateToolCall(c)
      BY <2>10 DEF NotImplemented, Answer, Passed, RequiresPolicyValidation
    <3>2. /\ c.tool = "web_search" => config.search
          /\ c.tool = "execute" => config.execute
      BY <3>1 DEF ValidateToolCall, ValidateExecute, DocTools
    <3> QED BY <3>1, <3>2 DEF CarriedOutWasChecked, DocTools
  <2>11. CASE Spawn(c)
    <3> DEFINE f == Fields(c)
               tools == {f["allowed_tools"].items[i].str : i \in DOMAIN f["allowed_tools"].items}
    <3>1. \/ Refuse(c, "refused")
          \/ effect' = [tool |-> "spawn", role |-> f.role.str, tools |-> tools,
                        context |-> f["context_tokens"].num]
      BY <2>11 DEF Spawn, Answer
    <3>2. /\ f["context_tokens"].num <= SubagentContext
          /\ tools \subseteq RoleToolPermissions(f.role.str)
      BY <2>11, SpawnRead DEF Spawn
    <3> HIDE DEF f, tools
    <3> QED BY <2>1, <3>1, <3>2 DEF CarriedOutWasChecked, DocTools, RoleToolPermissions
  <2>12. CASE UnknownTool(c)
    BY <2>1, <2>12 DEF UnknownTool
  <2> QED BY <1>2, <2>2, <2>3, <2>4, <2>5, <2>6, <2>7, <2>8, <2>9, <2>10, <2>11, <2>12
          DEF Dispatch
<1> QED BY <1>1, <1>2 DEF Next

(* Whatever the model calls, and however it writes the arguments, the      *)
(* runtime does only what the gate checked.                                *)
THEOREM CarriedOut == Spec => []CarriedOutWasChecked
<1>1. Init => CarriedOutWasChecked
  BY DEF Init, CarriedOutWasChecked, Nothing, DocTools
<1> QED BY <1>1, CarriedOutStep, PTL DEF Spec

---------------------------------------------------------------------------
LEMMA SecondChecksStep ==
  ASSUME SecondChecksAgree, [Next]_vars
  PROVE  SecondChecksAgree'
<1>1. CASE UNCHANGED vars
  BY <1>1 DEF vars, SecondChecksAgree
<1>2. ASSUME NEW c \in Calls, Dispatch(c)
      PROVE  SecondChecksAgree'
  <2>1. ASSUME NEW why, why # "refused", answer' = [call |-> c, why |-> why]
        PROVE  SecondChecksAgree'
    BY <2>1 DEF SecondChecksAgree
  <2>2. CASE Done(c)
    BY <2>1, <2>2, RefusedDoesNothing DEF Done
  <2>3. CASE ProposeCommand(c)
    BY <2>1, <2>3, RefusedDoesNothing DEF ProposeCommand
  <2>4. CASE GateRefuses(c)
    BY <2>1, <2>4, RefusedDoesNothing DEF GateRefuses
  <2>5. CASE ArgumentsRefused(c)
    BY <2>1, <2>5, RefusedDoesNothing DEF ArgumentsRefused
  <2>6. CASE ReadHelp(c)
    <3> DEFINE f == Fields(c)
               words == IF "subcommands" \in DOMAIN f
                          THEN [i \in DOMAIN f.subcommands.items |-> f.subcommands.items[i].str]
                          ELSE <<>>
    <3>1. c.tool = "read_help" /\ Passed(c) /\ ParseArgs(c)
      BY <2>6 DEF ReadHelp
    <3>2. ProgramAllowed(f.program.str) /\ \A i \in DOMAIN words : IsValidIdentifier(words[i])
      BY <3>1, HelpRead, SafeIsValid
    <3>3. \/ Refuse(c, "refused") /\ "help" \notin config.actions
          \/ answer' = [call |-> c, why |-> "ok"]
          \/ answer' = [call |-> c, why |-> "failed"]
      BY <2>6, <3>2 DEF ReadHelp, Captured, Answer
    <3>4. CASE Refuse(c, "refused") /\ "help" \notin config.actions
      BY <3>1, <3>4, RefusedDoesNothing DEF SecondChecksAgree
    <3> QED BY <2>1, <3>3, <3>4
  <2>7. CASE ReadMan(c)
    <3>1. c.tool = "read_man" /\ answer'.call = c
      BY <2>7 DEF ReadMan, Refuse, Captured, Answer
    <3> QED BY <3>1 DEF SecondChecksAgree
  <2>8. CASE ReadInfo(c)
    <3>1. c.tool = "read_info" /\ answer'.call = c
      BY <2>8 DEF ReadInfo, Refuse, Captured, Answer
    <3> QED BY <3>1 DEF SecondChecksAgree
  <2>9. CASE LookUp(c)
    <3>1. DocRef(Fields(c)) \in stored
      BY <2>9, DocRead DEF LookUp
    <3>2. answer' = [call |-> c, why |-> "ok"] \/ answer' = [call |-> c, why |-> "failed"]
      BY <2>9, <3>1 DEF LookUp, Refuse, Answer
    <3> QED BY <2>1, <3>2
  <2>10. CASE NotImplemented(c)
    BY <2>1, <2>10 DEF NotImplemented, Answer
  <2>11. CASE Spawn(c)
    <3> DEFINE f == Fields(c)
               tools == {f["allowed_tools"].items[i].str : i \in DOMAIN f["allowed_tools"].items}
    <3>1. ValidateRequest(f.role.str, tools, f["context_tokens"].num)
      BY <2>11, SpawnRead, RoleCopiesAgree DEF Spawn, ValidateRequest
    <3>2. answer' = [call |-> c, why |-> "ok"] \/ answer' = [call |-> c, why |-> "failed"]
      BY <2>11, <3>1 DEF Spawn, Answer
    <3> QED BY <2>1, <3>2
  <2>12. CASE UnknownTool(c)
    BY <2>1, <2>12, RefusedDoesNothing DEF UnknownTool
  <2> QED BY <1>2, <2>2, <2>3, <2>4, <2>5, <2>6, <2>7, <2>8, <2>9, <2>10, <2>11, <2>12
          DEF Dispatch
<1> QED BY <1>1, <1>2 DEF Next

(* Nothing the gate lets through is refused by the checks behind it, but   *)
(* for what the gate does not look at.                                     *)
THEOREM SecondChecks == Spec => []SecondChecksAgree
<1>1. Init => SecondChecksAgree
  BY DEF Init, SecondChecksAgree
<1> QED BY <1>1, SecondChecksStep, PTL DEF Spec

---------------------------------------------------------------------------
LEMMA PositiveIsUsize ==
  ASSUME NEW v, IsPositive(v)
  PROVE  IsUsize(v)
BY DEF IsPositive, IsUsize, IsNum

LEMMA IntegerIsUsize ==
  ASSUME NEW v, IsInteger(v)
  PROVE  IsUsize(v)
BY DEF IsInteger, IsUsize

(* The parts of a proposal: what the schema of one describes is read as    *)
(* one, evidence if its kind is known to the parser.                       *)
LEMMA PreflightIsRead ==
  ASSUME NEW v, PreflightSchema(v)
  PROVE  IsPreflightCmd(v)
<1>1. IsObj(v) /\ StructFields(v, <<"argv", "reason">>) = v.fields
  BY DEF PreflightSchema, StructFields
<1>2. Needs(v.fields, "argv", IsStrings) /\ Needs(v.fields, "reason", IsStr)
  BY DEF PreflightSchema, Needs, IsOneOrMore
<1> QED BY <1>1, <1>2 DEF IsPreflightCmd, IsStruct

LEMMA RollbackIsRead ==
  ASSUME NEW v, RollbackSchema(v)
  PROVE  IsRollbackInfo(v)
<1>1. IsObj(v) /\ StructFields(v, <<"available", "notes">>) = v.fields
  BY DEF RollbackSchema, StructFields
<1>2. /\ Needs(v.fields, "available", LAMBDA s : IsOneOf(s, {"available", "partial", "none"}))
      /\ Needs(v.fields, "notes", IsStr)
  BY DEF RollbackSchema
<1> QED BY <1>1, <1>2 DEF IsRollbackInfo, IsStruct

LEMMA SourceIsRead ==
  ASSUME NEW v, SourceSchema(v), v.fields["kind"].str # "official_web"
  PROVE  IsEvidenceSource(v)
<1> DEFINE f == v.fields
<1>1. IsObj(v) /\ StructFields(v, <<"kind", "doc", "lines">>) = f
  BY DEF SourceSchema, StructFields
<1>2. Needs(f, "kind", LAMBDA s : IsOneOf(s, EvidenceKinds)) /\ Needs(f, "doc", IsStr)
  <2>1. IsOneOf(f["kind"], {"local_schema", "local_doc", "official_web", "other_web"})
    BY DEF SourceSchema, Needs
  <2>2. IsOneOf(f["kind"], EvidenceKinds)
    BY <2>1 DEF IsOneOf, EvidenceKinds
  <2> QED BY <2>2 DEF SourceSchema, Needs
<1>3. May(f, "lines",
          LAMBDA l : IsNullOr(l, LAMBDA a : IsListOf(a, IsUsize) /\ Len(a.items) = 2))
  BY PositiveIsUsize DEF SourceSchema, May, IsNullOr, IsListOf
<1> HIDE DEF f
<1> QED BY <1>1, <1>2, <1>3 DEF IsEvidenceSource, IsStruct

LEMMA EvidenceIsRead ==
  ASSUME NEW v, EvidenceSchema(v),
         v.fields["source"].fields["kind"].str # "official_web"
  PROVE  IsEvidence(v)
<1> DEFINE f == v.fields
<1>1. IsObj(v) /\ StructFields(v, <<"claim", "source", "confidence">>) = f
  BY DEF EvidenceSchema, StructFields
<1>2. Needs(f, "claim", IsStr)
  BY DEF EvidenceSchema
<1>3. Needs(f, "source", IsEvidenceSource)
  BY SourceIsRead DEF EvidenceSchema, Needs
<1>4. Needs(f, "confidence", LAMBDA s : IsOneOf(s, {"low", "medium", "high"}))
  BY DEF EvidenceSchema
<1> HIDE DEF f
<1> QED BY <1>1, <1>2, <1>3, <1>4 DEF IsEvidence, IsStruct

LEMMA ProposalIsRead ==
  ASSUME NEW f, ProposeCommandSchema(f),
         \A i \in DOMAIN f["evidence"].items :
           f["evidence"].items[i].fields["source"].fields["kind"].str # "official_web"
  PROVE  CommandProposalArgs(f)
<1>1. /\ Needs(f, "summary", IsStr) /\ Needs(f, "argv", IsStrings)
      /\ Needs(f, "display", IsStr)
      /\ Needs(f, "risk", LAMBDA s : IsOneOf(s, {"low", "medium", "high", "critical"}))
      /\ \A k \in {"risk_reasons", "assumptions", "missing_confirmations"} :
           Needs(f, k, IsStrings)
  BY DEF ProposeCommandSchema, Needs, IsOneOrMore
<1>2. Needs(f, "preflight", LAMBDA l : IsListOf(l, IsPreflightCmd))
  BY PreflightIsRead DEF ProposeCommandSchema, Needs, IsListOf
<1>3. May(f, "rollback", LAMBDA r : IsNullOr(r, IsRollbackInfo))
  BY RollbackIsRead DEF ProposeCommandSchema, May, IsNullOr
<1>4. Needs(f, "evidence", LAMBDA l : IsListOf(l, IsEvidence))
  BY EvidenceIsRead DEF ProposeCommandSchema, Needs, IsListOf
<1> QED BY <1>1, <1>2, <1>3, <1>4 DEF CommandProposalArgs

(* What a schema describes, the struct of its tool takes.                  *)
LEMMA SchemaIsRead ==
  ASSUME NEW c, Conforms(c),
         c.tool \in DocTools \cup {"read_help", "read_man", "read_info", "spawn",
                                  "propose_command"},
         ~CitesOfficialWeb(c)
  PROVE  ParseArgs(c)
<1> DEFINE f == c.args.fields
<1>1. IsObj(c.args) /\ ~c.twice /\ Schema(c.tool, f)
  BY DEF Conforms
<1>2. Fields(c) = f
  BY <1>1 DEF Fields, StructFields
<1> HIDE DEF f
<1>3. CASE c.tool = "read_help"
  <2>1. ReadHelpArgs(f)
    BY <1>1, <1>3 DEF Schema, ReadHelpSchema, ReadHelpArgs
  <2> QED BY <1>1, <1>2, <1>3, <2>1 DEF ParseArgs, DocTools
<1>4. CASE c.tool = "read_man"
  <2>1. ReadManArgs(f)
    BY <1>1, <1>4 DEF Schema, ReadManSchema, ReadManArgs, May, Needs, IsNullOr, IsU8
  <2> QED BY <1>1, <1>2, <1>4, <2>1 DEF ParseArgs, DocTools
<1>5. CASE c.tool = "read_info"
  <2>1. ReadInfoArgs(f)
    BY <1>1, <1>5 DEF Schema, ReadInfoSchema, ReadInfoArgs
  <2> QED BY <1>1, <1>2, <1>5, <2>1 DEF ParseArgs, DocTools
<1>6. CASE c.tool = "spawn"
  <2>1. SpawnSchema(f)
    BY <1>1, <1>6 DEF Schema
  <2>2. /\ \A key \in {"role", "goal", "output_schema"} : Needs(f, key, IsStr)
        /\ "input" \in DOMAIN f
        /\ Needs(f, "allowed_tools", IsStrings)
    BY <2>1 DEF SpawnSchema, Needs
  <2>3. /\ Needs(f, "context_tokens", IsUsize)
        /\ Needs(f, "timeout_ms", IsUsize)
    BY <2>1, PositiveIsUsize DEF SpawnSchema, Needs
  <2>4. May(f, "thinking_budget", LAMBDA v : IsNullOr(v, IsUsize))
    BY <2>1, IntegerIsUsize DEF SpawnSchema, May, IsNullOr
  <2>5. SpawnArgs(f)
    BY <2>2, <2>3, <2>4 DEF SpawnArgs
  <2> QED BY <1>1, <1>2, <1>6, <2>5 DEF ParseArgs, DocTools
<1>7. CASE c.tool \in DocTools
  <2>1. /\ c.tool = "doc_token_count" => DocTokenCountSchema(f)
        /\ c.tool = "doc_preview" => DocPreviewSchema(f)
        /\ c.tool = "doc_grep" => DocGrepSchema(f)
        /\ c.tool = "doc_section" => DocSectionSchema(f)
        /\ c.tool = "doc_lines" => DocLinesSchema(f)
        /\ c.tool = "doc_expand_around" => DocExpandAroundSchema(f)
    BY <1>1, <1>7 DEF Schema, DocTools
  <2>2. Needs(f, "doc", IsStr) /\ "doc_id" \notin DOMAIN f
    BY <1>7, <2>1 DEF DocTools, Only, DocTokenCountSchema, DocPreviewSchema, DocGrepSchema,
                      DocSectionSchema, DocLinesSchema, DocExpandAroundSchema
  <2>3. DocRefArgs(f)
    BY <2>2 DEF DocRefArgs, Needs, May
  <2>4. DocArgs(c.tool, f)
    <3>1. c.tool \in {"doc_preview", "doc_section"} => Needs(f, "max_tokens", IsUsize)
      BY <2>1, PositiveIsUsize DEF DocPreviewSchema, DocSectionSchema, Needs
    <3>2. c.tool = "doc_section" => Needs(f, "heading_regex", IsStr)
      BY <2>1 DEF DocSectionSchema, Needs
    <3>3. c.tool = "doc_grep" => /\ Needs(f, "pattern", IsStr)
                                 /\ May(f, "case_insensitive", IsFlag)
                                 /\ May(f, "context_lines", IsUsize)
                                 /\ May(f, "max_matches", IsUsize)
      BY <2>1, PositiveIsUsize, IntegerIsUsize DEF DocGrepSchema, Needs, May
    <3>4. c.tool = "doc_lines" => Needs(f, "start", IsUsize) /\ Needs(f, "end", IsUsize)
      BY <2>1, PositiveIsUsize DEF DocLinesSchema, Needs
    <3>5. c.tool = "doc_expand_around" => /\ Needs(f, "match_id", IsStr)
                                          /\ Needs(f, "before", IsUsize)
                                          /\ Needs(f, "after", IsUsize)
      BY <2>1, IntegerIsUsize DEF DocExpandAroundSchema, Needs
    <3> QED BY <2>3, <3>1, <3>2, <3>3, <3>4, <3>5 DEF DocArgs
  <2> QED BY <1>1, <1>2, <1>7, <2>4 DEF ParseArgs, DocTools
<1>8. CASE c.tool = "propose_command"
  <2>1. ProposeCommandSchema(f)
    BY <1>1, <1>8 DEF Schema
  <2>2. \A i \in DOMAIN f["evidence"].items :
          f["evidence"].items[i].fields["source"].fields["kind"].str # "official_web"
    BY <1>8 DEF CitesOfficialWeb, f
  <2>3. CommandProposalArgs(f)
    BY <2>1, <2>2, ProposalIsRead
  <2> QED BY <1>1, <1>2, <1>8, <2>3 DEF ParseArgs, DocTools
<1> QED BY <1>3, <1>4, <1>5, <1>6, <1>7, <1>8

LEMMA SchemaStep ==
  ASSUME SchemaCallsParse, [Next]_vars
  PROVE  SchemaCallsParse'
<1>1. CASE UNCHANGED vars
  BY <1>1 DEF vars, SchemaCallsParse, Conforms
<1>2. ASSUME NEW c \in Calls, Dispatch(c)
      PROVE  SchemaCallsParse'
  <2>1. ASSUME NEW why, why # "arguments", answer' = [call |-> c, why |-> why]
        PROVE  SchemaCallsParse'
    BY <2>1 DEF SchemaCallsParse
  <2>2. CASE ArgumentsRefused(c)
    <3>1. answer' = [call |-> c, why |-> "arguments"] /\ UNCHANGED config
      BY <2>2, RefusedDoesNothing DEF ArgumentsRefused
    <3>2. Conforms(c) => CitesOfficialWeb(c)
      BY <2>2, SchemaIsRead DEF ArgumentsRefused
    <3> QED BY <3>1, <3>2 DEF SchemaCallsParse, Conforms
  <2>3. CASE ProposeCommand(c)
    <3>1. CASE ~ParseArgs(c)
      <4>1. answer' = [call |-> c, why |-> "arguments"] /\ UNCHANGED config
        BY <2>3, <3>1 DEF ProposeCommand, Refuse, Answer
      <4>2. Conforms(c) => CitesOfficialWeb(c)
        BY <2>3, <3>1, SchemaIsRead DEF ProposeCommand
      <4> QED BY <4>1, <4>2 DEF SchemaCallsParse, Conforms
    <3>2. CASE ParseArgs(c)
      BY <2>1, <2>3, <3>2 DEF ProposeCommand, Refuse, Answer
    <3> QED BY <3>1, <3>2
  <2>4. CASE ~ArgumentsRefused(c) /\ ~ProposeCommand(c)
    BY <1>2, <2>1, <2>4
       DEF Dispatch, Done, GateRefuses, ReadHelp, ReadMan, ReadInfo, LookUp, NotImplemented,
           Spawn, UnknownTool, Refuse, Captured, Answer
  <2> QED BY <2>2, <2>3, <2>4
<1> QED BY <1>1, <1>2 DEF Next

(* A call that conforms to the schema of an offered tool is never refused  *)
(* for its shape, but for a proposal that cites official_web.              *)
THEOREM SchemasMatchTheParsers == Spec => []SchemaCallsParse
<1>1. Init => SchemaCallsParse
  BY DEF Init, SchemaCallsParse
<1> QED BY <1>1, SchemaStep, PTL DEF Spec

---------------------------------------------------------------------------
(* Every call has an answer of a known kind, and the configuration stays.  *)
THEOREM ToolGateTyped == Spec => []TypeOK
<1>1. Init => TypeOK
  BY DEF Init, TypeOK
<1>2. ASSUME TypeOK, [Next]_vars
      PROVE  TypeOK'
  <2>1. CASE UNCHANGED vars
    BY <1>2, <2>1 DEF TypeOK, vars
  <2>2. ASSUME NEW c \in Calls, NEW why, NEW what, Answer(c, why, what),
               why \in {"done", "accepted", "rejected", "gate", "arguments", "refused", "ok",
                        "failed", "unknown"}
        PROVE  TypeOK'
    BY <1>2, <2>2 DEF TypeOK, Answer
  <2>3. ASSUME NEW c \in Calls, Dispatch(c)
        PROVE  TypeOK'
    BY <2>2, <2>3 DEF Dispatch, Done, ProposeCommand, GateRefuses, ArgumentsRefused, ReadHelp,
                      ReadMan, ReadInfo, LookUp, NotImplemented, Spawn, UnknownTool, Refuse,
                      Captured
  <2> QED BY <1>2, <2>1, <2>3 DEF Next
<1> QED BY <1>1, <1>2, PTL DEF Spec
=============================================================================
