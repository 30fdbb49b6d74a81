CONSTANTS
  Cases <- MCCases
  MaxSessions = 6
SPECIFICATION Spec
INVARIANTS TagsAreTheRules NothingDeletedTooSoon CleanupIsStable
CHECK_DEADLOCK FALSE
