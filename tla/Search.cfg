\* Two searches over every kind of overlap, and every change of the session's mind.
SPECIFICATION Spec
CONSTANTS
  None = None
  Queries <- MCQueries
  RuleLists <- MCRuleLists
  Results <- MCResults
  Limits = {0, 1, 2}
  Prefixes = {"w"}
  MaxAnswer = 2
  MaxSearches = 2
INVARIANTS
  AuditRestores
  NoMatchBeginsInClear
CHECK_DEADLOCK FALSE
