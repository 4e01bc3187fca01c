SPECIFICATION FairSpec
CONSTANTS
  Timeout = 2
  MaxOutput = 1
  Chunk = 2
  Nap = 1
  MaxWrite = 2
  MaxLag = 1
  DocSize = 1
  Interval = 1
  MaxAttempts = 2
  Deadline = 2
INVARIANTS
  OutputWhole
  NoChildLeftBehind
  TerminalIsTrue
  PollEndsInTime
PROPERTIES
  PollEnds
\* The poll ends.
CHECK_DEADLOCK FALSE
