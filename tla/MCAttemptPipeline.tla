-------------------------- MODULE MCAttemptPipeline --------------------------
(* Values of the constants for TLC.  Every pipeline call is about attempt   *)
(* a1: one that succeeds, one whose second stage found something else, and  *)
(* rejections before and after the callback of the stage they name.         *)
EXTENDS AttemptPipeline

Found(second) == [s \in EvidenceStage |-> IF s = 2 THEN second ELSE "h1"]

Run(id, key, second, receipt, gates, errorStage, reason) ==
  [kind |-> "pipeline", id |-> id, key |-> key, ident |-> "i1",
   evidence |-> Found(second), tests |-> "t1", receipt |-> receipt,
   gates |-> gates, errorStage |-> errorStage, reason |-> reason]

Good == Run("a1", "k1", "h1", "h1", AcceptanceEvaluated, None, None)
Other == Run("a1", "k1", "h2", "h2", AcceptanceEvaluated, None, None)
Unsound == Run("a1", "k1", "h1", "h1", 2, 3, "r1")
Passing == Run("a1", "k1", "h1", "h1", 1, 1, "r2")
Renamed == Run("a2", "k1", "h1", "h1", AcceptanceEvaluated, None, None)

Handoff(id, key, source, close) ==
  [kind |-> "capture", id |-> id, key |-> key, ident |-> "i1", source |-> source,
   close |-> close, reason |-> "r3"]

MCDiagnosisId == [d \in Diagnosis |-> "squad run"]
Converged == Handoff("a1", "kd", "d1", "open")
Diverged == Handoff("a2", "k2", "d2", "rejected")
CiFailed == Handoff("a1", "k1", None, "failed")

PipelineCalls == {Good, Other, Unsound, Passing, Renamed}
Captures == {Converged, Diverged, CiFailed}
SameAttempt == {Good, Unsound}
NoCaptures == {}
=============================================================================
