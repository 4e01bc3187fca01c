------------------------------ MODULE Acceptance ------------------------------
(***************************************************************************)
(* The acceptance gates (src/attribution.py and src/acceptance.py): which   *)
(* baseline, hypothesis, candidate and gate evidence make a plan that is    *)
(* accepted.  A caller submits documents of any age and of any attempt, and *)
(* may have changed one after its hash was derived.                         *)
(*                                                                         *)
(* The quality gate is left out: its contract admits a passing gate only,   *)
(* and it is bound to no candidate.                                         *)
(***************************************************************************)
EXTENDS Documents

CONSTANTS
  Observation,  \* BaselineObservation: [id, passed]
  Patch,
  Fixes,        \* the pairs of a baseline and a patch whose tests really passed
  Submission    \* [baseline, hypothesis, candidate, reproduced, validated], each a
                \* document; the hypothesis may be NoDoc

HypothesisBody == [baseline : Observation]
CandidateBody == [baseline : Observation, hypothesis : HypothesisBody, patch : Patch]

\* BaselineGateEvidence: the failure was reproduced.
Reproduction == {[baseline |-> o] : o \in {b \in Observation : ~b.passed}}

\* ValidationGateEvidence of a candidate, which exists when its tests passed.
Validation(c) == [candidate |-> c, hypothesis |-> c.hypothesis, patch |-> c.patch]
PassedCandidate == {c \in CandidateBody : <<c.baseline, c.patch>> \in Fixes}

\* A gate's document is the tester's, whatever was made of its contents later.
SubmissionAssumption ==
  \A s \in Submission :
    /\ s.baseline.hash \in Observation
    /\ s.candidate.hash \in CandidateBody
    /\ s.reproduced.hash \in Reproduction
    /\ s.validated.hash \in {Validation(c) : c \in PassedCandidate}
ASSUME SubmissionAssumption

-----------------------------------------------------------------------------
\* rehydrate_hypothesis
HypothesisFits(h, baseline) == Intact(h) /\ h.body.baseline = baseline.hash

\* rehydrate_candidate, and _rehydrate_candidate_for_plan without a hypothesis.
CandidateFits(c, baseline, h) ==
  /\ Intact(c) /\ c.body.baseline = baseline.hash
  /\ h # NoDoc => HypothesisFits(h, baseline) /\ c.body.hypothesis = h.hash

ReproductionFits(gate, baseline) == Intact(gate) /\ gate.body.baseline = baseline.hash

\* Mistaken: takes the tests of the patch, on whatever baseline they were run.
ValidationFitsPatch(gate, c) ==
  Intact(gate) /\ gate.body.hypothesis = c.body.hypothesis /\ gate.body.patch = c.body.patch

ValidationFits(gate, c) ==
  /\ Intact(gate) /\ gate.body.candidate = c.hash
  /\ gate.body.hypothesis = c.body.hypothesis /\ gate.body.patch = c.body.patch

\* _rehydrate_plan_components and _assert_acceptance_gates
Acceptable(s) ==
  /\ Intact(s.baseline) /\ ~s.baseline.body.passed
  /\ CandidateFits(s.candidate, s.baseline, s.hypothesis)
  /\ ReproductionFits(s.reproduced, s.baseline)
  /\ ValidationFits(s.validated, s.candidate)

\* The receipts of one candidate with and without its hypothesis are taken as one.
AcceptanceBody(s) ==
  [baseline |-> s.baseline.hash, candidate |-> s.candidate.hash, patch |-> s.candidate.hash.patch]
=============================================================================
