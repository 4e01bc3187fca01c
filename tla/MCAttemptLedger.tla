--------------------------- MODULE MCAttemptLedger ---------------------------
(* Values of the constants for TLC: rows of a first attempt at every status *)
(* and stage, with the evidence of that stage or of one stage less or more, *)
(* and with a first hash that changes; the beginning of a second attempt,   *)
(* under the first one's key or under its own.                              *)
EXTENDS AttemptLedger

Prefix(n, first) ==
  [s \in EvidenceStage |-> IF s > n THEN None ELSE IF s = 1 THEN first ELSE "h1"]

Build(id, key, status, stage, n, first, receipt, reason) ==
  [id |-> id, key |-> key, ident |-> "i1", source |-> None, status |-> status, stage |-> stage,
   evidence |-> Prefix(n, first), tests |-> IF n = AcceptanceEvaluated THEN "t1" ELSE None,
   receipt |-> receipt, reason |-> reason]

MCOffered ==
  {Build("a1", "k1", status, stage, n, first, receipt, reason) :
     status \in AttemptStatus, stage \in Stage, n \in 0 .. AcceptanceEvaluated,
     first \in {"h1", "h2"}, receipt \in {None, "h1"}, reason \in {None, "r1"}}
  \cup
  {Build("a2", key, status, stage, n, "h1", None, None) :
     key \in {"k1", "k2"}, status \in {"proposed", "running"},
     stage \in Captured .. BaselineEvaluated, n \in 0 .. 1}
=============================================================================
