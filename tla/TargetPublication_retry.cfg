SPECIFICATION FairSpec
CONSTANTS
  Publisher = {"p", "q"}
  Commit = {"c1", "c2"}
  NoCommit = NoCommit
  CommitOf <- MCSameCommit
  Ambiguous = {"c2"}
  MaxPolls = 2
  MaxPulls = 2
  MaxTrouble = 1
INVARIANTS
  PublicationTypeOK
  SucceededWasChecked
  PullRaceIsShared
PROPERTIES
  RetryGetsThrough
