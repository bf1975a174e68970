SPECIFICATION FairSpec
CONSTANTS
  good = good
  bad = bad
  id1 = id1
  id2 = id2
  None = None
  Inputs <- MCInputs
  Responses <- MCResponses
  Proposals = {good, bad}
  Rejected = {bad}
  CallIds = {id1, id2}
  ToolTokens = {40, 200}
  SummaryTokens = {130}
  NudgeTokens = 15
  MaxRounds = 2
  Retries = 1
  MaxInputs = 2
  EffectiveContext = 1000
  SystemPromptTokens = 45
  ToolDefinitionTokens = 10
  COMPRESSED_HEADER_TOKENS = 12
  TRUNCATED_TOKENS = 20
INVARIANTS
  ResultsInPlace
  HistoriesAgree
  OldestFirst
  NoCutWouldFit
PROPERTIES
  RefinesConversation
  TurnEnds
CHECK_DEADLOCK FALSE
