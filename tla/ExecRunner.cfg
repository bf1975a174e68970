\* Two commands, each writing more than the pipe holds, with something left behind.
SPECIFICATION FairSpec
CONSTANTS
  None = None
  Proposals <- MCProposals
  Lines <- MCLines
  PIPE_CAPACITY = 1
  MaxOutput = 3
  MaxRuns = 2
INVARIANTS
  OnlyApprovedRuns
  NothingLeftRunning
  OutputComplete
  AuditOrdered
PROPERTIES
  ExecuteReturns
CHECK_DEADLOCK FALSE
