SPECIFICATION Spec
CONSTANTS
  Key = {"k1", "k2"}
  Event = {"e1", "e2"}
  Plan = {"p1"}
  Attempt = {1}
  Signer = {"alice"}
  Request <- MCRequest
  Token <- MCToken
  NoReceipt = NoReceipt
  NoLock = NoLock
  NoToken = NoToken
  NoPlan = NoPlan
  NoSigner = NoSigner
  FailureThreshold = 2
  FailureLimit = 3
  BaseBackoff = 1
  MaxBackoff = 2
  MaxWait = 1
  MaxTime = 2
INVARIANTS
  TypeOK
  IndexesAgree
  BreakerAgreesWithCount
  RecordsAuthorized
PROPERTIES
  BindingsPermanent
  OnlyResetForgivesFailures
  AdmissionSpec
