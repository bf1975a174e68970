\* One thread, one document replaced once: a stale handle is accepted again.
SPECIFICATION Spec
CONSTANTS
  d1 = d1  d2 = d2  c1 = c1  c2 = c2  x = x  y = y

  Docs = {d1}
  Clients = {c1}
  Lines = {x, y}
  Bodies <- MCTwoLines
  Patterns <- MCAnyLine
  Limits = {0, 1}
  Radii = {0, 1}
  MatchIds <- MCMatchIds
  Bytes <- MCBytes
  Shape <- MCShape
  Budgets = {0, 2}
  LineNumbers = {0, 1, 2}
  MAX_MATCHES_CAP = 2
  NoDoc = NoDoc
  NoScan = NoScan
  GENERATION_MODULUS = 2
  MaxInserts = 2
INVARIANT StaleHandleRejected
CHECK_DEADLOCK FALSE
