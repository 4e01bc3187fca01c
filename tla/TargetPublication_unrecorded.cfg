SPECIFICATION Spec
CONSTANTS
  Publisher = {"p"}
  Commit = {"c2"}
  NoCommit = NoCommit
  CommitOf <- MCAmbiguous
  Ambiguous = {"c2"}
  MaxPolls = 2
  MaxPulls = 1
  MaxTrouble = 0
INVARIANTS
  EveryOutcomeRecorded
CHECK_DEADLOCK FALSE
