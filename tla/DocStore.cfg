\* Two threads, two documents, two texts, every handle in play.
SPECIFICATION Spec
CONSTANTS
  d1 = d1  d2 = d2  c1 = c1  c2 = c2  x = x  y = y

  Docs = {d1, d2}
  Clients = {c1, c2}
  Lines = {x, y}
  Bodies <- MCBodies
  Patterns <- MCPatterns
  Limits = {0, 1}
  Radii = {1}
  MatchIds <- MCMatchIds
  Bytes <- MCBytes
  Shape <- MCShape
  Budgets = {0, 2}
  LineNumbers = {1, 3}
  MAX_MATCHES_CAP = 2
  NoDoc = NoDoc
  NoScan = NoScan
  GENERATION_MODULUS = 2
  MaxInserts = 2
INVARIANTS
  RegistryCurrent
  ExpandNeverPanics
  LiveHandleExpands
PROPERTIES
  GrepAnswersCurrentText
  RefinesAbs
SYMMETRY Symmetry
CHECK_DEADLOCK FALSE
