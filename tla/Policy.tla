------------------------------- MODULE Policy -------------------------------
(***************************************************************************)
(* cps-policy: PolicyGate.check_proposal, the classification of risk, the  *)
(* verdict of ProposalChecker, and the gate of the execute tool.           *)
(*                                                                         *)
(* An argument is what the policy sees of it:                              *)
(*   raw      the argument; the words below stand for themselves           *)
(*   lower    trimmed and in lower case                                    *)
(*   parts    the words lower is made of                                   *)
(*   letters  what follows a single dash in lower, one by one              *)
(*   key      raw up to an equals sign, all of it without one              *)
(*   base     raw after the last slash                                     *)
(*   flag, path, meta, spaced   it starts with a dash, contains a slash,   *)
(*            contains a shell metacharacter, is several words             *)
(* A risk is 0 to 3, for low, medium, high and critical.                   *)
(***************************************************************************)
EXTENDS Integers, Sequences, Functions

CONSTANTS
  Arguments,
  EvidenceItems,   \* [kind, confidence, known, mentions]
  Preflights,      \* preflight commands a model may name
  Assumptions,     \* assumptions a model may state, each the words it has
  Risks,           \* the risks a model declares
  AllowPrograms,   \* allow_programs, with "*" for any
  MaxArguments, MaxEvidence, MaxPreflight, MaxAssumptions   \* bounds

ASSUME PolicyAssumption ==
  /\ \A a \in Arguments : a.raw \in STRING /\ a.lower \in STRING /\ a.meta \in BOOLEAN
  /\ Preflights \subseteq Seq(Arguments)
  /\ Risks \subseteq 0..3
  /\ \A e \in EvidenceItems : e.known \in BOOLEAN

VARIABLE proposal
proposalVars == <<proposal>>

Low == 0
Medium == 1
High == 2
Critical == 3

HIGH_RISK_TOKENS ==
  {"delete", "destroy", "--force", "--all", "rm", "--grace-period=0", "drop", "truncate"}
SHELL_WRAPPERS == {"sudo", "su", "bash", "sh", "zsh"}
READ_ONLY_VERBS ==
  {"get", "describe", "list", "status", "logs", "log", "explain", "version", "view",
   "current-context", "api-resources", "api-versions"}
HIGH_RISK_VERBS ==
  {"delete", "scale", "drain", "replace", "apply", "stop", "destroy", "drop", "truncate", "rm"}
MUTATING_VERBS ==
  {"rollout", "restart", "create", "set", "edit", "annotate", "label", "cordon", "uncordon",
   "patch"}
DRY_RUN_FLAGS ==
  {"--dry-run", "--dry-run=client", "--dry-run=server", "diff", "plan", "--diff", "--check",
   "--what-if", "--noop", "--no-op"}
DRY_RUN_PROGRAMS == {"kubectl", "terraform", "ansible-playbook", "helm", "rsync", "make"}
K8S_PROGRAMS == {"kubectl", "helm", "oc"}
CLOUD_PROGRAMS == {"aws", "gcloud", "az"}
NAMESPACED_VERBS ==
  {"get", "describe", "logs", "delete", "apply", "rollout", "scale", "patch", "create", "edit",
   "label", "annotate", "exec", "port-forward"}
SAFER == {"--dry-run", "--dry-run=client", "--dry-run=server", "diff", "plan"}

---------------------------------------------------------------------------
(* Classification, of the set of the arguments: their order is no matter.  *)

Lowered(A) == {a.lower : a \in A} \ {""}

Within(A, words) == \E a \in A : a.parts \cap words # {}

IsRmRecursiveForce(A) ==
  /\ "rm" \in Lowered(A)
  /\ \/ \E a \in A : {"r", "f"} \subseteq a.letters
     \/ {"-r", "-f"} \subseteq Lowered(A)

HasCriticalPattern(A) ==
  \/ Within(A, {"destroy", "drop", "truncate"})
  \/ IsRmRecursiveForce(A)
  \/ /\ Lowered(A) \cap {"--all", "--force"} # {}
     /\ Within(A, {"delete", "destroy", "rm", "drop", "truncate", "replace", "apply", "stop"})

HasHighPattern(A) ==
  Lowered(A) \cap ({"--all-namespaces", "-a"} \cup HIGH_RISK_TOKENS \cup HIGH_RISK_VERBS) # {}

Mutates(A) == Lowered(A) \cap MUTATING_VERBS # {}

ReadsOnly(A) == Lowered(A) \cap READ_ONLY_VERBS # {}

\* (mistake: a read-only verb decides before a mutating one)
ClassifyReadFirst(A) ==
  IF Lowered(A) = {} \/ (ReadsOnly(A) /\ ~HasHighPattern(A) /\ ~HasCriticalPattern(A)) THEN Low
  ELSE IF HasCriticalPattern(A) THEN Critical
  ELSE IF HasHighPattern(A) THEN High
  ELSE Medium

Classify(A) ==
  IF Lowered(A) = {} THEN Low
  ELSE IF HasCriticalPattern(A) THEN Critical
  ELSE IF HasHighPattern(A) THEN High
  ELSE IF Mutates(A) THEN Medium
  ELSE IF ReadsOnly(A) THEN Low
  ELSE Medium

ClassifyRisk(argv) == Classify(Range(argv))

---------------------------------------------------------------------------
(* The gate: its findings are a set.  "about" tells apart findings of one  *)
(* code by what they are about.                                            *)

Finding(severity, code, about) == [severity |-> severity, code |-> code, about |-> about]

If(condition, finding) == IF condition THEN {finding} ELSE {}

ProgramListed(a) == a.raw \in AllowPrograms \/ "*" \in AllowPrograms

LooksLikeShellString(argv) == Len(argv) = 1 /\ argv[1].spaced

\* (mistake: a metacharacter matters in a command given as one string only)
RejectionsOfStrings(argv) ==
  If(LooksLikeShellString(argv) /\ \E a \in Range(argv) : a.meta,
     Finding("reject", "ShellOperator", "")) \cup
  If(argv[1].base \in SHELL_WRAPPERS, Finding("reject", "WrapperProgram", "")) \cup
  If(~ProgramListed(argv[1]), Finding("reject", "ProgramNotAllowed", ""))

Rejections(argv) ==
  If(LooksLikeShellString(argv) \/ \E a \in Range(argv) : a.meta,
     Finding("reject", "ShellOperator", "")) \cup
  If(argv[1].base \in SHELL_WRAPPERS, Finding("reject", "WrapperProgram", "")) \cup
  If(~ProgramListed(argv[1]), Finding("reject", "ProgramNotAllowed", ""))

HasFlag(argv, names) == \E a \in Range(argv) : a.key \in names

IsKubectlNamespaced(argv) ==
  \E a \in Range(Tail(argv)) :
    a.raw \in {"get", "describe", "logs", "delete", "apply", "rollout", "scale", "patch"}

MissingScope(argv, scope) ==
  \/ /\ argv[1].raw = "kubectl"
     /\ \/ scope = "namespace" /\ IsKubectlNamespaced(argv) /\ ~HasFlag(argv, {"-n", "--namespace"})
        \/ scope = "context" /\ ~HasFlag(argv, {"--context"})
  \/ /\ argv[1].raw = "aws"
     /\ \/ scope = "region" /\ ~HasFlag(argv, {"--region"})
        \/ scope = "profile" /\ ~HasFlag(argv, {"--profile"})

\* The argument after a flag is taken for its value.
IsValue(argv) ==
  LET value[i \in DOMAIN argv] ==
        i > 2 /\ argv[i - 1].flag /\ argv[i - 1].key = argv[i - 1].raw /\ ~value[i - 1]
  IN  value

EvidenceRequired(argv) ==
  {argv[i].raw : i \in {j \in 2..Len(argv) :
     /\ ~IsValue(argv)[j]
     /\ \/ argv[j].flag
        \/ /\ ~argv[j].path
           /\ argv[j].raw \in READ_ONLY_VERBS \cup MUTATING_VERBS \cup HIGH_RISK_VERBS}}

Mentioned(p, token) == \E e \in Range(p.evidence) : token \in e.mentions

EvidenceFindings(p) ==
  IF p.evidence = <<>>
  THEN {Finding("warn", "MissingEvidence", "proposal")}
  ELSE If(\E token \in EvidenceRequired(p.argv) : ~Mentioned(p, token),
          Finding("warn", "MissingEvidence", "token"))

Uses(p, words) ==
  \/ \E a \in Range(p.argv) : a.raw \in words
  \/ \E command \in Range(p.preflight) : \E a \in Range(command) : a.raw \in words

NeedsSaferAlternative(argv) ==
  ClassifyRisk(argv) >= High /\ Lowered(Range(argv)) \cap HIGH_RISK_VERBS # {}

CheckProposal(p) ==
  IF p.argv = <<>> THEN {Finding("reject", "EmptyArgv", "")}
  ELSE LET classified == ClassifyRisk(p.argv)
       IN  Rejections(p.argv)
             \cup If(classified > p.risk, Finding("escalate", "RiskEscalation", "declared"))
             \cup {Finding("warn", "MissingScope", scope) :
                     scope \in {s \in {"namespace", "context", "region", "profile"} :
                                  MissingScope(p.argv, s)}}
             \cup EvidenceFindings(p)
             \cup If(classified >= Medium /\ p.preflight = <<>>,
                     Finding("warn", "PreflightRequired", ""))
             \cup If(NeedsSaferAlternative(p.argv) /\ ~Uses(p, SAFER),
                     Finding("warn", "SaferAlternative", ""))

Rejected(findings) == \E f \in findings : f.severity = "reject"

\* validate_execute, with execution enabled.
ExecuteAllowed(argv, userApproved) ==
  /\ userApproved
  /\ argv # <<>>
  /\ ProgramListed(argv[1])
  /\ \A a \in Range(argv) : ~a.meta

---------------------------------------------------------------------------
(* ProposalChecker: what the evidence is worth, and the adjusted risk.     *)

Local(e) == e.kind \in {"LocalDoc", "LocalSchema"}

WebOnly(p) == p.evidence # <<>> /\ ~\E e \in Range(p.evidence) : Local(e)

QualityFindings(p) ==
  If(\E e \in Range(p.evidence) : Local(e) /\ ~e.known,
     Finding("warn", "MissingEvidence", "unknown doc")) \cup
  If(/\ p.evidence # <<>>
     /\ ClassifyRisk(p.argv) >= High
     /\ ~\E e \in Range(p.evidence) : e.confidence = "High",
     Finding("escalate", "RiskEscalation", "confidence"))

Suggestions(p) ==
  LET risky == ClassifyRisk(p.argv) >= Medium
  IN  If(risky /\ p.argv[1].raw \in DRY_RUN_PROGRAMS /\ ~Uses(p, DRY_RUN_FLAGS), "dry-run")
        \cup If(risky /\ p.preflight = <<>>, "preflight")

\* What the command leaves to the defaults and no assumption says so.
Assumed(p, words) == \E a \in Range(p.assumptions) : a \cap words # {}

ImplicitNamespace(p) ==
  /\ p.argv[1].raw \in K8S_PROGRAMS
  /\ ~\E a \in Range(p.argv) : a.raw = "-n" \/ a.key = "--namespace"
  /\ \E a \in Range(Tail(p.argv)) : a.raw \in NAMESPACED_VERBS
  /\ ~Assumed(p, {"namespace"})

ImplicitContext(p) ==
  /\ p.argv[1].raw \in K8S_PROGRAMS
  /\ ~HasFlag(p.argv, {"--context"})
  /\ ~Assumed(p, {"context", "cluster"})

ImplicitRegion(p) ==
  /\ p.argv[1].raw \in CLOUD_PROGRAMS
  /\ ~HasFlag(p.argv, {"--region", "--location"})
  /\ ~Assumed(p, {"region", "location"})

ValidateAssumptions(p) ==
  IF p.argv = <<>> THEN {}
  ELSE If(ImplicitNamespace(p), "namespace")
         \cup If(ImplicitContext(p), "context")
         \cup If(ImplicitRegion(p), "region")

Escalate(risk) == IF risk = Critical THEN Critical ELSE risk + 1

DeEscalate(risk) == IF risk = Low THEN Low ELSE risk - 1

Unsupported(findings) == \E f \in findings : f.code = "MissingEvidence" /\ f.about = "proposal"

\* (mistake: any missing evidence counts as none)
UnsupportedInPart(findings) == \E f \in findings : f.code = "MissingEvidence"

NoEvidence(findings) == Unsupported(findings)

Strong(e) == e.kind = "LocalSchema" /\ e.confidence = "High"

AdjustRisk(baseline, p, findings) ==
  LET scoped == IF (\E f \in findings : f.code = "MissingScope") /\ baseline < High
                THEN Escalate(baseline) ELSE baseline
      sourced == IF WebOnly(p) /\ scoped >= Medium THEN Escalate(scoped) ELSE scoped
      backed == IF NoEvidence(findings) /\ sourced >= Medium THEN Escalate(sourced) ELSE sourced
      tried == IF Uses(p, DRY_RUN_FLAGS) THEN DeEscalate(backed) ELSE backed
      prepared == IF p.preflight # <<>> /\ p.evidence # <<>> THEN DeEscalate(tried) ELSE tried
  IN  IF \E e \in Range(p.evidence) : Strong(e) THEN DeEscalate(prepared) ELSE prepared

Greater(a, b) == IF a >= b THEN a ELSE b

Check(p) ==
  LET findings == CheckProposal(p) \cup QualityFindings(p)
      baseline == ClassifyRisk(p.argv)
  IN  [risk |-> Greater(baseline, AdjustRisk(baseline, p, findings)),
       findings |-> findings,
       warnings |-> If(WebOnly(p), "no local evidence") \cup ValidateAssumptions(p),
       suggestions |-> Suggestions(p),
       approved |-> ~Rejected(findings)]

---------------------------------------------------------------------------
(* How the model revises a proposal from one round to the next.            *)

ProposalInit == \E risk \in Risks :
  proposal = [argv |-> <<>>, risk |-> risk, evidence |-> <<>>, preflight |-> <<>>,
              assumptions |-> <<>>]

AddArgument(a) ==
  /\ Len(proposal.argv) < MaxArguments
  /\ proposal' = [proposal EXCEPT !.argv = Append(@, a)]

AddEvidence(e) ==
  /\ Len(proposal.evidence) < MaxEvidence
  /\ proposal' = [proposal EXCEPT !.evidence = Append(@, e)]

AddPreflight(command) ==
  /\ Len(proposal.preflight) < MaxPreflight
  /\ proposal' = [proposal EXCEPT !.preflight = Append(@, command)]

AddAssumption(words) ==
  /\ Len(proposal.assumptions) < MaxAssumptions
  /\ proposal' = [proposal EXCEPT !.assumptions = Append(@, words)]

Revise ==
  \/ \E a \in Arguments : AddArgument(a)
  \/ \E e \in EvidenceItems : AddEvidence(e)
  \/ \E command \in Preflights : AddPreflight(command)
  \/ \E words \in Assumptions : AddAssumption(words)

ProposalSpec == ProposalInit /\ [][Revise]_proposalVars

---------------------------------------------------------------------------
ProposalOK ==
  /\ proposal.argv \in Seq(Arguments)
  /\ proposal.evidence \in Seq(EvidenceItems)
  /\ proposal.preflight \in Seq(Seq(Arguments))
  /\ proposal.assumptions \in Seq(Assumptions)
  /\ proposal.risk \in Risks

Recognised(argv) ==
  LET A == Range(argv)
  IN  HasCriticalPattern(A) \/ HasHighPattern(A) \/ Mutates(A) \/ ReadsOnly(A)

(* Nothing that is added to a command makes it look less risky, once any   *)
(* of it is recognised: a verb or a flag is not hidden by others.          *)
RiskNeverHidden ==
  [][Recognised(proposal.argv) => ClassifyRisk(proposal.argv) <= ClassifyRisk(proposal.argv')]_proposalVars

(* More evidence, another preflight command or a stated assumption never   *)
(* raises the risk of the verdict, nor brings a warning of an implicit     *)
(* scope: the model gains nothing by leaving out what it knows.            *)
SupportNeverHurts ==
  [][proposal'.argv = proposal.argv =>
       /\ Check(proposal').risk <= Check(proposal).risk
       /\ ValidateAssumptions(proposal') \subseteq Check(proposal).warnings]_proposalVars

(* A command the checker approves is one the execute tool's own gate lets  *)
(* through once the human approved it.                                     *)
ApprovedMayRun == Check(proposal).approved => ExecuteAllowed(proposal.argv, TRUE)
=============================================================================
