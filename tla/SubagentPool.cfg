\* Two callers at once with cancel_all and active_count by others, or one alone.
SPECIFICATION PoolFairSpec
CONSTANTS
  c1 = c1
  c2 = c2
  NoSubagent = NoSubagent
  Callers = {c1, c2}
  MaxSpawns = 3
  Sessions <- MCSessions
INVARIANTS
  HandlesConserved
  TasksBounded
  AloneJustPushed
PROPERTIES
  EveryCallReturns
