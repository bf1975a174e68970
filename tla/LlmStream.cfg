\* Every way to cut, end or break the answers of five servers, with a retry.
SPECIFICATION FairSpec
CONSTANTS
  None = None
  Scripts <- MCScripts
  TextFragments = {"a", "b", "c", "d", "x", "y", "z"}
  Retries = 1
  MAX_PARALLEL_TOOL_CALLS = 2
INVARIANTS
  AssembledReply
  NothingHeldBack
  MalformedIsReal
PROPERTIES
  CallReturns
