----------------------------- MODULE AttemptRules -----------------------------
(***************************************************************************)
(* The rules of the attempt ledger (src/storage/ledger_db.py): what a row   *)
(* of the attempts table is, which new rows and which transitions are       *)
(* legal, and which calls are replays of what is already recorded.          *)
(*                                                                         *)
(* Stages are numbered as _STAGE_ORDER numbers them.  Stage s of 1 .. 4     *)
(* brings one hash, so "the evidence stage s requires" is 1 .. s; the fifth *)
(* stage brings the pipeline receipt.  ident stands for the fields of an    *)
(* attempt that never change and that every caller derives alike: signal,   *)
(* base commit, strategy, input snapshot, model and prompt versions,        *)
(* creation time; source is the diagnosis an attempt was made for.  The     *)
(* proposal field, which nothing in src sets, is left out.  So is           *)
(* updated_at: of the rules only record_attempt's comparison of the whole   *)
(* row (line 226) reads it, where a row past its initial stage that is      *)
(* recorded again with another updated_at is refused.  Here it counts as    *)
(* the row that is there; either way the ledger stays as it is, and src     *)
(* records initial rows only, for which the comparison is not needed.       *)
(***************************************************************************)
EXTENDS Naturals

CONSTANTS
  AttemptId, IdemKey,
  Ident,        \* the immutable data of an attempt
  Diagnosis,    \* diagnosis records (their hashes)
  Hash,         \* digests of evidence and of receipts
  TestEvidence, \* non-empty lists of test results
  Reason,       \* failure reasons
  None          \* an absent field

Captured == 0
BaselineEvaluated == 1
AcceptanceEvaluated == 4
Completed == 5

Stage == Captured .. Completed
EvidenceStage == BaselineEvaluated .. AcceptanceEvaluated

Terminal == {"succeeded", "failed", "rejected"}
AttemptStatus == {"proposed", "running"} \cup Terminal

Row == [id : AttemptId, key : IdemKey, ident : Ident, source : Diagnosis \cup {None},
        status : AttemptStatus, stage : Stage,
        evidence : [EvidenceStage -> Hash \cup {None}],
        tests : TestEvidence \cup {None},
        receipt : Hash \cup {None},
        reason : Reason \cup {None}]

NoEvidence == [s \in EvidenceStage |-> None]

\* A fresh attempt, as ingestion, the diagnosis handoff and the pipeline build it.
NewRow(id, key, ident, source) ==
  [id |-> id, key |-> key, ident |-> ident, source |-> source,
   status |-> "proposed", stage |-> Captured, evidence |-> NoEvidence,
   tests |-> None, receipt |-> None, reason |-> None]

InitialRow(row) == row = NewRow(row.id, row.key, row.ident, row.source)

SameIdentity(row, other) ==
  /\ row.id = other.id
  /\ row.key = other.key
  /\ row.ident = other.ident
  /\ row.source = other.source

\* A new attempt that was recorded before, whatever has become of it since.
InitialReplay(existing, candidate) ==
  InitialRow(candidate) /\ SameIdentity(existing, candidate)

(***************************************************************************)
(* Evidence a row must and may hold at its stage and status.                *)
(***************************************************************************)
StageEvidenceValid(row) ==
  /\ \A s \in EvidenceStage : (row.evidence[s] # None) = (s <= row.stage)
  /\ (row.receipt # None) = (row.status = "succeeded")
  /\ (row.reason # None) = (row.status \in {"failed", "rejected"})

(***************************************************************************)
(* A transition that says nothing new: the row itself, or a running stage   *)
(* the attempt has already passed with the same evidence.                   *)
(***************************************************************************)
SemanticReplay(current, updated) ==
  \/ current = updated
  \/ /\ updated.status = "running"
     /\ updated.stage <= current.stage
     /\ SameIdentity(current, updated)
     /\ \A s \in EvidenceStage :
          s <= updated.stage => current.evidence[s] = updated.evidence[s]
     /\ current.tests = updated.tests

\* Mistaken: a rejected attempt may be taken up again.
StatusMayBecomeAgain(from, to) ==
  \/ from = "proposed" /\ to \in {"running", "failed", "rejected"}
  \/ from = "running" /\ to \in {"running"} \cup Terminal
  \/ from = "rejected" /\ to = "running"

\* Mistaken: forgets that a running attempt may be rejected.
StatusMayBecomeNoReject(from, to) ==
  \/ from = "proposed" /\ to \in {"running", "failed", "rejected"}
  \/ from = "running" /\ to \in {"running", "succeeded", "failed"}

StatusMayBecome(from, to) ==
  \/ from = "proposed" /\ to \in {"running", "failed", "rejected"}
  \/ from = "running" /\ to \in {"running"} \cup Terminal

\* Mistaken: does not look at the evidence.
TransitionValidNoEvidence(current, updated) ==
  /\ SameIdentity(current, updated)
  /\ StatusMayBecome(current.status, updated.status)
  /\ updated.stage \in {current.stage, current.stage + 1}
  /\ ~(updated.stage = current.stage /\ updated.status = current.status)
  /\ updated.status = "running" => updated.stage = current.stage + 1
  /\ (updated.status = "succeeded") = (updated.stage = Completed)

TransitionValid(current, updated) ==
  /\ SameIdentity(current, updated)
  /\ StatusMayBecome(current.status, updated.status)
  /\ updated.stage \in {current.stage, current.stage + 1}
  /\ ~(updated.stage = current.stage /\ updated.status = current.status)
  /\ updated.status = "running" => updated.stage = current.stage + 1
  /\ (updated.status = "succeeded") = (updated.stage = Completed)
  /\ StageEvidenceValid(updated)
=============================================================================
