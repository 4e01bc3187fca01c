------------------------------ MODULE SelfEvolve ------------------------------
(***************************************************************************)
(* Self-evolution (src/self_evolve.py): two evaluations of a prompt         *)
(* candidate over one dataset are bound to the candidate and compared, run  *)
(* by run, and the candidate is accepted or rejected with the first reason. *)
(* Scores are in hundredths; the rounding of floats is left out.            *)
(***************************************************************************)
EXTENDS Documents, Integers, Sequences, FiniteSetsExt, Functions

CONSTANTS
  Prompt,       \* PromptCandidate with its versions, parent and rollback ref
  Evaluation,   \* EvalSnapshot documents: [manifest, split, prompt, evaluator, seen, held,
                \* cost], where seen and held are its baseline and holdout scores
  Legacy,       \* the identity an evaluation of the old form is given
  Gates         \* [runs, minGain, maxCost]

RejectionReason ==
  {"baseline regression detected", "holdout gain is below min_gain",
   "repeatability variance is unbounded", "evaluation cost exceeds max_cost"}

ASSUME EvolutionAssumption ==
  /\ NoDoc \notin RejectionReason
  /\ \A e \in Evaluation :
       /\ DOMAIN e.body =
            {"manifest", "split", "prompt", "evaluator", "seen", "held", "cost"}
       /\ e.body.seen \in Seq(Int) /\ e.body.held \in Seq(Int)

VARIABLE evolved  \* the receipt of the last evaluation: [prompt, old, new, gates, reason]

EvolveInit == evolved = NoDoc

MaxGainVariance == 100  \* 0.01 in hundredths squared

-----------------------------------------------------------------------------
\* _bind_snapshot: an evaluation of the old form is given the identity that is asked for.
BindEvaluation(e, prompt, split) ==
  IF e.body.prompt = Legacy
  THEN [e.body EXCEPT !.split = split, !.prompt = prompt, !.evaluator = "evaluator-v1"]
  ELSE e.body

Bindable(e, prompt, split) ==
  Intact(e) /\ (e.body.prompt = Legacy \/ (e.body.prompt = prompt /\ e.body.split = split))

\* SelfEvolvePlan and _run_gains
Comparable(old, new, gates) ==
  /\ old.manifest = new.manifest /\ old.evaluator = new.evaluator
  /\ \A scores \in {old.seen, new.seen, old.held, new.held} : Len(scores) = gates.runs

Gains(old, new) == [i \in DOMAIN old |-> new[i] - old[i]]

Total(gains) == FoldFunction(+, 0, gains)

\* pvariance(gains) <= MAX_GAIN_VARIANCE, without the division.
Steady(gains) ==
  LET n == Len(gains)
  IN  n * Total([i \in DOMAIN gains |-> gains[i] * gains[i]]) - Total(gains) * Total(gains)
        <= MaxGainVariance * n * n

\* Mistaken: the repeatability of the seen split alone.
RejectionUnheld(old, new, gates) ==
  LET seen == Gains(old.seen, new.seen)
      held == Gains(old.held, new.held)
  IN  CASE \E i \in DOMAIN seen : seen[i] < 0 -> "baseline regression detected"
        [] Total(held) < gates.minGain * gates.runs -> "holdout gain is below min_gain"
        [] ~Steady(seen) -> "repeatability variance is unbounded"
        [] old.cost + new.cost > gates.maxCost -> "evaluation cost exceeds max_cost"
        [] OTHER -> NoDoc

\* The first gate of evaluate_self_evolve that is not passed.
Rejection(old, new, gates) ==
  LET seen == Gains(old.seen, new.seen)
      held == Gains(old.held, new.held)
      regressed == \E i \in DOMAIN seen : seen[i] < 0
      low == Total(held) < gates.minGain * gates.runs
      unsteady == ~(Steady(seen) /\ Steady(held))
  IN  CASE regressed -> "baseline regression detected"
        [] ~regressed /\ low -> "holdout gain is below min_gain"
        [] ~regressed /\ ~low /\ unsteady -> "repeatability variance is unbounded"
        [] ~regressed /\ ~low /\ ~unsteady /\ old.cost + new.cost > gates.maxCost ->
             "evaluation cost exceeds max_cost"
        [] OTHER -> NoDoc

\* plan_self_evolve and evaluate_self_evolve
Evolve(prompt, before, after, gates) ==
  /\ Bindable(before, prompt, "baseline") /\ Bindable(after, prompt, "holdout")
  /\ LET old == BindEvaluation(before, prompt, "baseline")
         new == BindEvaluation(after, prompt, "holdout")
         reason == Rejection(old, new, gates)
     IN  /\ Comparable(old, new, gates)
         /\ evolved' = [prompt |-> prompt, old |-> old, new |-> new, gates |-> gates,
                        reason |-> reason]

EvolveNext ==
  \E prompt \in Prompt, before, after \in Evaluation, gates \in Gates :
    Evolve(prompt, before, after, gates)

-----------------------------------------------------------------------------
(***************************************************************************)
(* An accepted candidate is better in a way that can be repeated: on the    *)
(* dataset it was tuned on no run is worse, and on each split no two runs'  *)
(* gains lie further apart than the variance allows (the population         *)
(* variance is half the mean of the squared differences over all pairs).    *)
(***************************************************************************)
Apart(gains, i, j) == (gains[i] - gains[j]) * (gains[i] - gains[j])

Spread(gains, D) == MapThenSumSet(LAMBDA p : Apart(gains, p[1], p[2]), D \X D)

EvolvedIsSteady ==
  evolved # NoDoc /\ evolved.reason = NoDoc =>
    LET n == evolved.gates.runs
        seen == Gains(evolved.old.seen, evolved.new.seen)
        held == Gains(evolved.old.held, evolved.new.held)
    IN  /\ \A i \in 1 .. n : evolved.new.seen[i] >= evolved.old.seen[i]
        /\ Spread(seen, 1 .. n) <= 2 * MaxGainVariance * n * n
        /\ Spread(held, 1 .. n) <= 2 * MaxGainVariance * n * n
        /\ evolved.old.manifest = evolved.new.manifest
        /\ {evolved.old.prompt, evolved.new.prompt} = {evolved.prompt}
=============================================================================
