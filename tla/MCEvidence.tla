------------------------------ MODULE MCEvidence ------------------------------
(***************************************************************************)
(* Three parts that share nothing but the form of their documents, checked  *)
(* in one run: a behaviour chooses its part at the start.                   *)
(***************************************************************************)
EXTENDS Closeout, SelfEvolve, ReportChain, TLC

CONSTANTS t1, t2, p1, p2, r1, r2, r3, r4, r5

VARIABLE part

vars == <<part, closeVars, evolved, chain>>

\* Two failures, each fixed by a patch of its own, and a baseline that passes.
MCFail(n) == [id |-> n, passed |-> FALSE]
MCObservation == {MCFail(1), MCFail(2), [id |-> 3, passed |-> TRUE]}
MCPatch == {p1, p2}
MCFixes == {<<MCFail(1), p1>>, <<MCFail(2), p2>>}

\* A document whose contents were changed after its hash was derived.
MCEdited(body, hash) == [body |-> body, hash |-> hash]

MCBaseline ==
  {Doc(o) : o \in MCObservation} \cup {MCEdited(MCFail(1), [id |-> 3, passed |-> TRUE])}
MCHypothesis == {NoDoc} \cup {Doc([baseline |-> MCFail(n)]) : n \in 1 .. 2}
MCCandidate ==
  LET body(b, h, p) == [baseline |-> MCFail(b), hypothesis |-> [baseline |-> MCFail(h)], patch |-> p]
  IN  {Doc(body(m[1], m[2], p)) : m \in {<<1, 1>>, <<1, 2>>, <<2, 2>>}, p \in MCPatch} \cup
      {MCEdited(body(b, b, p2), body(b, b, p1)) : b \in 1 .. 2}
MCReproduced == {Doc([baseline |-> MCFail(n)]) : n \in 1 .. 2}
MCValidated ==
  {Doc(Validation(c)) : c \in {d \in CandidateBody : <<d.baseline, d.patch>> \in Fixes /\
                                                       ~d.hypothesis.baseline.passed}}
MCSubmission ==
  [baseline : MCBaseline, hypothesis : MCHypothesis, candidate : MCCandidate,
   reproduced : MCReproduced, validated : MCValidated]

\* Scores of two runs each: steady and unsteady gains, losses, and no gain.
MCScores == {<<50, 50>>, <<50, 80>>, <<60, 60>>, <<40, 95>>}
MCShort == <<50>>
MCEvaluation ==
  {Doc([manifest |-> m, split |-> "baseline", prompt |-> p, evaluator |-> "evaluator-v1",
        seen |-> s, held |-> h, cost |-> 1]) :
      m \in 1 .. 2, p \in {1, Legacy}, s, h \in MCScores} \cup
  {Doc([manifest |-> 1, split |-> "holdout", prompt |-> p, evaluator |-> e,
        seen |-> s, held |-> h, cost |-> c]) :
      p \in {1, 2}, e \in {"evaluator-v1", "evaluator-v2"}, c \in 1 .. 2,
      s \in MCScores \cup {MCShort}, h \in MCScores}
MCGates == [runs : {2}, minGain : {5}, maxCost : {2}]

MCTask == {t1, t2}

\* The two fixes, and the first candidate under the patch of the second.
MCClaim ==
  LET of(n, p) == [baseline |-> MCFail(n),
                   hypothesis |-> [baseline |-> MCFail(n)], patch |-> p]
  IN  {[baseline |-> MCFail(1), candidate |-> of(1, p1), patch |-> p1],
       [baseline |-> MCFail(2), candidate |-> of(2, p2), patch |-> p2],
       [baseline |-> MCFail(1), candidate |-> of(1, p1), patch |-> p2]}
MCReportId == {r1, r2, r3, r4, r5}
Alike == Permutations(MCTask)

Init ==
  /\ part \in {"close", "evolve", "chain"}
  /\ CloseInit /\ EvolveInit /\ ChainInit

\* Either a document is changed or a second review is held.
OneTrouble == edits = 0 \/ Len(shown) <= 1

\* No other call reads the packet in hand, so that they are made without one; and an
\* evaluation does not depend on those before it: one is enough.
Next ==
  /\ UNCHANGED part
  /\ \/ part = "close" /\ (PacketNext \/ (closed = NoDoc /\ HandNext)) /\ UNCHANGED <<evolved, chain>>
     \/ part = "evolve" /\ evolved = NoDoc /\ EvolveNext /\ UNCHANGED <<closeVars, chain>>
     \/ part = "chain" /\ ChainNext /\ UNCHANGED <<closeVars, evolved>>

Spec == Init /\ [][Next]_vars
=============================================================================
