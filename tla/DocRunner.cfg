\* Two reads of one document, by any of six programs.
SPECIFICATION FairSpec
CONSTANTS
  d1 = d1
  None = None
  Docs = {d1}
  Programs <- MCPrograms
  Requests <- MCRequests
  ByteLimit = 2
  PIPE_CAPACITY = 2
  MaxReads = 2
INVARIANTS
  DocsAreWhole
  CommandOver
PROPERTIES
  OutputNeverBlocks
  ReadReturns
CHECK_DEADLOCK FALSE
