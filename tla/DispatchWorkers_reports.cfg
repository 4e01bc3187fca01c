SPECIFICATION WSpec
CONSTANTS
  Key = {"k1", "k2"}
  Event = {"e1", "e2"}
  Plan = {"p1"}
  Attempt = {1}
  Signer = {"alice"}
  Request <- MCOneEvent
  Token = {}
  NoReceipt = NoReceipt
  NoLock = NoLock
  NoToken = NoToken
  NoPlan = NoPlan
  NoSigner = NoSigner
  FailureThreshold = 3
  FailureLimit = 4
  BaseBackoff = 1
  MaxBackoff = 2
  MaxWait = 1
  MaxTime = 4
INVARIANTS
  RunsWithinBreaker
  CompletedNotRunAgain
PROPERTIES
  OneRunPerKeyAndEvent
  RetryAfterBackoff
