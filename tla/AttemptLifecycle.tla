--------------------------- MODULE AttemptLifecycle ---------------------------
(***************************************************************************)
(* What the attempt ledger promises: an idempotency key opens at most one   *)
(* attempt, an open attempt gathers its evidence one stage at a time and    *)
(* never rewrites what it gathered, it closes once, and it can succeed only *)
(* with the evidence of every stage.                                        *)
(***************************************************************************)
EXTENDS Naturals

CONSTANTS AttemptId, IdemKey, Hash, LastStage, NoKey, None

VARIABLES
  owner,     \* per attempt: the key it belongs to, or NoKey
  phase,     \* per attempt: absent, open, succeeded, failed or rejected
  gathered   \* per attempt: the evidence of each stage so far

vars == <<owner, phase, gathered>>

Outcomes == {"succeeded", "failed", "rejected"}

Complete(evidence) == \A s \in 1 .. LastStage : evidence[s] # None

Init ==
  /\ owner = [a \in AttemptId |-> NoKey]
  /\ phase = [a \in AttemptId |-> "absent"]
  /\ gathered = [a \in AttemptId |-> [s \in 1 .. LastStage |-> None]]

Open(a, k) ==
  /\ phase[a] = "absent"
  /\ \A b \in AttemptId : owner[b] # k
  /\ owner' = [owner EXCEPT ![a] = k]
  /\ phase' = [phase EXCEPT ![a] = "open"]
  /\ UNCHANGED gathered

Gather(a, s, h) ==
  /\ phase[a] = "open"
  /\ \A t \in 1 .. LastStage : (gathered[a][t] # None) = (t < s)
  /\ gathered' = [gathered EXCEPT ![a][s] = h]
  /\ UNCHANGED <<owner, phase>>

Close(a, outcome) ==
  /\ phase[a] = "open"
  /\ outcome = "succeeded" => Complete(gathered[a])
  /\ phase' = [phase EXCEPT ![a] = outcome]
  /\ UNCHANGED <<owner, gathered>>

Next ==
  \E a \in AttemptId :
    \/ \E k \in IdemKey : Open(a, k)
    \/ \E s \in 1 .. LastStage, h \in Hash : Gather(a, s, h)
    \/ \E outcome \in Outcomes : Close(a, outcome)

Spec == Init /\ [][Next]_vars
=============================================================================
