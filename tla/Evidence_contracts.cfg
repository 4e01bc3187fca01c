\* The three parts end: a packet's time runs out, one evaluation, a full chain.
SPECIFICATION Spec
CONSTANTS
  NoDoc = NoDoc
  t1 = t1
  t2 = t2
  p1 = p1
  p2 = p2
  r1 = r1
  r2 = r2
  r3 = r3
  r4 = r4
  r5 = r5
  Observation <- MCObservation
  Patch <- MCPatch
  Fixes <- MCFixes
  Submission <- MCSubmission
  Task <- MCTask
  Validity = 1
  MaxReviews = 2
  MaxTime = 1
  MaxEdits = 1
  Claim <- MCClaim
  Prompt = {1}
  Evaluation <- MCEvaluation
  Legacy = Legacy
  Gates <- MCGates
  ReportId <- MCReportId
SYMMETRY Alike
CONSTRAINT OneTrouble
INVARIANTS
  ReceiptIsEarned
  ClosedAsReviewed
  EvolvedIsSteady
  RestsOnFirst
CHECK_DEADLOCK FALSE
