SPECIFICATION LedgerSpec
CONSTANTS
  AttemptId = {"a1", "a2"}
  IdemKey = {"k1", "k2"}
  Ident = {"i1"}
  Diagnosis = {}
  Hash = {"h1", "h2"}
  TestEvidence = {"t1"}
  Reason = {"r1"}
  None = None
  NoRow = NoRow
  Offered <- MCOffered
INVARIANTS
  LedgerTypeOK
  EvidenceMatchesStage
  KeyHasOneAttempt
  LogLeadsToRow
PROPERTIES
  HistoryAppendOnly
CHECK_DEADLOCK FALSE
