\* Commands of up to three arguments.
SPECIFICATION ProposalSpec
CONSTANTS
  Arguments <- MCArguments
  EvidenceItems <- MCEvidence
  Preflights <- MCPreflights
  Assumptions <- MCAssumptions
  Risks = {0}
  AllowPrograms = {"kubectl", "rm"}
  MaxArguments = 3
  MaxEvidence = 2
  MaxPreflight = 1
  MaxAssumptions = 1
INVARIANTS
  ApprovedMayRun
PROPERTIES
  RiskNeverHidden
  SupportNeverHurts
CHECK_DEADLOCK FALSE
