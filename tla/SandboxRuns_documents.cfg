SPECIFICATION MCSpec
CONSTANTS
  Request <- MCRequest
  Snapshot <- MCSnapshot
  Repositories <- MCRepositories
  Root <- Worktrees
  Before <- MCBefore
  NoDoc = NoDoc
  Bundle <- MCBundle
  Limits <- MCLimits
  Container = {c1, c2}
  Observation <- MCObservation
  MaxEdits = 1
SYMMETRY Containers
CONSTRAINT Apart
INVARIANTS
  RemoveIsBacked
  AdmittedPatchFits
  SuccessWasAdmitted
