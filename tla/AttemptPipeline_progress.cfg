SPECIFICATION FairSpec
CONSTANTS
  AttemptId = {"a1", "a2"}
  IdemKey = {"k1", "kd", "k2"}
  Ident = {"i1"}
  Diagnosis = {"d1", "d2"}
  Hash = {"h1", "h2"}
  TestEvidence = {"t1"}
  Reason = {"r1", "r2", "r3"}
  None = None
  NoRow = NoRow
  NoCall = NoCall
  DiagnosisId <- MCDiagnosisId
  Offered = {}
  Caller = {"p", "q", "s"}
  PipelineCall <- SameAttempt
  CaptureCall <- NoCaptures
  MaxCalls = 1
  MayCrash = FALSE
PROPERTIES
  SomeCallGetsThrough
CHECK_DEADLOCK FALSE
