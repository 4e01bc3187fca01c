--------------------------- MODULE AttemptPipeline ---------------------------
(***************************************************************************)
(* The callers of the attempt ledger, side by side: run_pipeline with its   *)
(* _AttemptRecorder (src/pipeline.py), and the two handoffs that capture an *)
(* attempt, IngestionService.ingest and record_squad_diagnosis_attempt.     *)
(* Every ledger method is a transaction of its own, and between two of them *)
(* a caller knows only the row the last one gave it.                        *)
(*                                                                         *)
(* A pipeline call carries what its gates will say: validation passes the   *)
(* first `gates` stage callbacks and then, if it has a reason, raises a     *)
(* PipelineError that names errorStage.  A capture call closes its attempt  *)
(* at once (a CI run that failed, a diagnosis that did not converge) unless *)
(* close is "open".                                                         *)
(***************************************************************************)
EXTENDS AttemptLedger

CONSTANTS
  Caller,        \* threads and processes that make calls
  CaptureCall, PipelineCall,
  NoCall,
  DiagnosisId,   \* per diagnosis record: its diagnosis_id
  MaxCalls,      \* bound: calls each caller makes
  MayCrash       \* whether a caller may die in the middle of a call

CallIdentity(c) == c.id \in AttemptId /\ c.key \in IdemKey /\ c.ident \in Ident

ASSUME CaptureAssumption ==
  \A c \in CaptureCall :
    /\ CallIdentity(c)
    /\ c.kind = "capture"
    /\ c.source \in Diagnosis \cup {None}
    /\ c.close \in {"open", "failed", "rejected"}
    /\ c.reason \in Reason

\* Whether a handoff closes its attempt is a matter of the diagnosis alone.
ASSUME DiagnosisAssumption ==
  /\ DOMAIN DiagnosisId = Diagnosis
  /\ \A c, d \in CaptureCall : c.source = d.source /\ c.source # None => c.close = d.close

ASSUME PipelineAssumption ==
  \A c \in PipelineCall :
    /\ CallIdentity(c)
    /\ c.kind = "pipeline"
    /\ c.evidence \in [EvidenceStage -> Hash]
    /\ c.tests \in TestEvidence
    /\ c.receipt \in Hash
    /\ c.gates \in 0 .. AcceptanceEvaluated
    /\ IF c.reason = None
       THEN c.gates = AcceptanceEvaluated
       ELSE /\ c.reason \in Reason
            /\ \/ c.errorStage \in {c.gates, c.gates + 1}
               \/ c.gates = AcceptanceEvaluated /\ c.errorStage = Captured

\* A receipt is a digest of everything the gates saw, the tests among it.
ASSUME ReceiptAssumption ==
  \A c, d \in PipelineCall :
    c.receipt = d.receipt => c.evidence = d.evidence /\ c.tests = d.tests

ASSUME BoundAssumption == MaxCalls \in Nat /\ MayCrash \in BOOLEAN

VARIABLES
  diagnoses,  \* the diagnoses table
  pc,         \* per caller: the next step of its call
  call,       \* per caller: the call it is making
  snap,       \* per caller: the row it was last given (recorder.attempt)
  passed,     \* per caller: stage callbacks made
  made,       \* per caller: number of calls begun
  returned    \* history: every call that ended, with its result

callVars == <<pc, call, snap, passed, made>>
vars == <<attempts, events, diagnoses, pc, call, snap, passed, made, returned>>

Init ==
  /\ LedgerInit
  /\ diagnoses = {}
  /\ pc = [p \in Caller |-> "idle"]
  /\ call = [p \in Caller |-> NoCall]
  /\ snap = [p \in Caller |-> NoRow]
  /\ passed = [p \in Caller |-> 0]
  /\ made = [p \in Caller |-> 0]
  /\ returned = {}

-----------------------------------------------------------------------------
Begin(p) ==
  /\ pc[p] = "idle" /\ made[p] < MaxCalls
  /\ \E c \in CaptureCall \cup PipelineCall :
       /\ call' = [call EXCEPT ![p] = c]
       /\ pc' = [pc EXCEPT ![p] = IF c.kind = "pipeline" THEN "get"
                                  ELSE IF c.source = None THEN "capture" ELSE "diagnose"]
  /\ made' = [made EXCEPT ![p] = @ + 1]
  /\ UNCHANGED <<attempts, events, diagnoses, snap, passed, returned>>

\* The caller goes on at step with the row it now knows.
Proceed(p, step, row) ==
  /\ pc' = [pc EXCEPT ![p] = step]
  /\ snap' = [snap EXCEPT ![p] = row]
  /\ UNCHANGED <<call, made, returned>>

\* The caller forgets everything.
Idle(p) ==
  /\ pc' = [pc EXCEPT ![p] = "idle"]
  /\ call' = [call EXCEPT ![p] = NoCall]
  /\ snap' = [snap EXCEPT ![p] = NoRow]
  /\ passed' = [passed EXCEPT ![p] = 0]
  /\ UNCHANGED made

Finish(p, result) ==
  /\ returned' = returned \cup {[call |-> call[p], result |-> result]}
  /\ Idle(p)

\* A call that ends in LedgerConflictError or sqlite3.IntegrityError wrote nothing.
Fail(p, result) == Finish(p, result) /\ UNCHANGED ledgerVars

\* The caller dies: what it committed stays, what it knew is gone.
Crash(p) ==
  /\ MayCrash /\ pc[p] # "idle"
  /\ Idle(p)
  /\ UNCHANGED <<attempts, events, diagnoses, returned>>

\* transition_attempt for its caller: it returns a row, or raises.
Accepted(row) ==
  TransitionAttempt(row) \/ (TransitionVerdict(row) = "replay" /\ UNCHANGED ledgerVars)

Answer(row) == IF TransitionVerdict(row) = "replay" THEN attempts[row.id] ELSE row

Refused(p, row) == TransitionVerdict(row) = "conflict" /\ Fail(p, "conflict")

-----------------------------------------------------------------------------
(***************************************************************************)
(* The handoffs: record the diagnosis, record the captured attempt, close   *)
(* it if there is nothing to improve.                                       *)
(***************************************************************************)
\* Mistaken: the diagnosis collected last replaces the one on record.
RecordDiagnosisOver(p) ==
  /\ pc[p] = "diagnose"
  /\ LET d == call[p].source
     IN  diagnoses' = {e \in diagnoses : DiagnosisId[e] # DiagnosisId[d]} \cup {d}
  /\ Proceed(p, "capture", NoRow)
  /\ UNCHANGED <<attempts, events, passed>>

\* A diagnosis_id that is on record with other data, a run collected again, conflicts.
RecordDiagnosis(p) ==
  /\ pc[p] = "diagnose"
  /\ LET d == call[p].source
         others == {e \in diagnoses \ {d} : DiagnosisId[e] = DiagnosisId[d]}
     IN  \/ others # {} /\ Fail(p, "conflict") /\ UNCHANGED diagnoses
         \/ /\ others = {}
            /\ diagnoses' = diagnoses \cup {d}
            /\ Proceed(p, "capture", NoRow)
            /\ UNCHANGED <<attempts, events, passed>>

AfterCapture(p, row) ==
  IF call[p].close = "open" THEN Finish(p, "captured")
  ELSE Proceed(p, "close", row) /\ UNCHANGED passed

Capture(p) ==
  /\ pc[p] = "capture"
  /\ LET c == call[p]
         row == NewRow(c.id, c.key, c.ident, c.source)
         verdict == RecordVerdict(row)
     IN  \/ RecordAttempt(row) /\ AfterCapture(p, row)
         \/ verdict = "existing" /\ UNCHANGED ledgerVars /\ AfterCapture(p, FindByKey(c.key))
         \/ verdict \in {"conflict", "integrity_error"} /\ Fail(p, verdict)
  /\ UNCHANGED diagnoses

CloseCapture(p) ==
  /\ pc[p] = "close"
  /\ LET row == [snap[p] EXCEPT !.status = call[p].close, !.reason = call[p].reason]
     IN  Refused(p, row) \/ (Accepted(row) /\ Finish(p, "closed"))
  /\ UNCHANGED diagnoses

-----------------------------------------------------------------------------
(***************************************************************************)
(* _prepare_attempt_recorder: get by id, else find by key, else record.     *)
(* Whatever is found must have this call's identity, but its key and its    *)
(* source diagnosis are not compared.                                       *)
(***************************************************************************)
SameCall(c, row) == row.id = c.id /\ row.ident = c.ident

Adopt(p, row) ==
  IF SameCall(call[p], row)
  THEN Proceed(p, "gates", row) /\ UNCHANGED <<attempts, events, passed>>
  ELSE Fail(p, "conflict")

GetAttempt(p) ==
  /\ pc[p] = "get"
  /\ IF attempts[call[p].id] = NoRow
     THEN Proceed(p, "find", NoRow) /\ UNCHANGED <<attempts, events, passed>>
     ELSE Adopt(p, attempts[call[p].id])
  /\ UNCHANGED diagnoses

FindAttempt(p) ==
  /\ pc[p] = "find"
  /\ IF FindByKey(call[p].key) = NoRow
     THEN Proceed(p, "record", NoRow) /\ UNCHANGED <<attempts, events, passed>>
     ELSE Adopt(p, FindByKey(call[p].key))
  /\ UNCHANGED diagnoses

RecordInitial(p) ==
  /\ pc[p] = "record"
  /\ LET c == call[p]
         row == NewRow(c.id, c.key, c.ident, None)
         verdict == RecordVerdict(row)
     IN  \/ RecordAttempt(row) /\ Proceed(p, "gates", row) /\ UNCHANGED passed
         \/ verdict = "existing" /\ Adopt(p, FindByKey(c.key))
         \/ verdict \in {"conflict", "integrity_error"} /\ Fail(p, verdict)
  /\ UNCHANGED diagnoses

-----------------------------------------------------------------------------
(***************************************************************************)
(* _validate_in_order with recorder.advance as its stage callback.          *)
(***************************************************************************)
NextStage(p) == passed[p] + 1

Advanced(p) ==
  LET s == NextStage(p)
  IN  [snap[p] EXCEPT !.status = "running", !.stage = s,
                      !.evidence[s] = call[p].evidence[s],
                      !.tests = IF s = AcceptanceEvaluated THEN call[p].tests ELSE @]

\* The stage's own evidence in the recorder's row is what the gate found.
StageAgrees(p, s) ==
  /\ snap[p].evidence[s] = call[p].evidence[s]
  /\ s = AcceptanceEvaluated => snap[p].tests = call[p].tests

Passed(p, row) == Proceed(p, "gates", row) /\ passed' = [passed EXCEPT ![p] = @ + 1]

Advance(p) ==
  /\ pc[p] = "gates" /\ passed[p] < call[p].gates
  /\ LET s == NextStage(p)
         closed == snap[p].status \in Terminal
         known == s <= snap[p].stage
         row == Advanced(p)
     IN  \/ (closed \/ (known /\ StageAgrees(p, s))) /\ Passed(p, snap[p]) /\ UNCHANGED ledgerVars
         \/ ~closed /\ known /\ ~StageAgrees(p, s) /\ Fail(p, "conflict")
         \/ ~closed /\ ~known /\ (Refused(p, row) \/ (Accepted(row) /\ Passed(p, Answer(row))))
  /\ UNCHANGED diagnoses

GatesDone(p) == pc[p] = "gates" /\ passed[p] = call[p].gates

\* Mistaken: takes any rejection for a replay of this one.
RejectAnyway(p) ==
  /\ GatesDone(p) /\ call[p].reason # None
  /\ LET row == snap[p]
         new == [row EXCEPT !.status = "rejected", !.reason = call[p].reason]
     IN  \/ row.status = "rejected" /\ Finish(p, "rejected") /\ UNCHANGED ledgerVars
         \/ row.status \in {"succeeded", "failed"} /\ Fail(p, "conflict")
         \/ /\ row.status \notin Terminal
            /\ Refused(p, new) \/ (Accepted(new) /\ Finish(p, "rejected"))
  /\ UNCHANGED diagnoses

\* recorder.reject: a replayed rejection must name the stage of the stored row.
Reject(p) ==
  /\ GatesDone(p) /\ call[p].reason # None
  /\ LET row == snap[p]
         again == row.stage = call[p].errorStage /\ row.reason = call[p].reason
         new == [row EXCEPT !.status = "rejected", !.reason = call[p].reason]
     IN  \/ row.status = "rejected" /\ again /\ Finish(p, "rejected") /\ UNCHANGED ledgerVars
         \/ row.status = "rejected" /\ ~again /\ Fail(p, "conflict")
         \/ row.status \in {"succeeded", "failed"} /\ Fail(p, "conflict")
         \/ /\ row.status \notin Terminal
            /\ Refused(p, new) \/ (Accepted(new) /\ Finish(p, "rejected"))
  /\ UNCHANGED diagnoses

\* Mistaken: takes any success for a replay of this one.
SucceedAnyway(p) ==
  /\ GatesDone(p) /\ call[p].reason = None
  /\ LET row == snap[p]
         new == [row EXCEPT !.status = "succeeded", !.stage = Completed,
                            !.receipt = call[p].receipt]
     IN  \/ row.status = "succeeded" /\ Finish(p, "receipt") /\ UNCHANGED ledgerVars
         \/ row.status \in {"failed", "rejected"} /\ Fail(p, "conflict")
         \/ /\ row.status \notin Terminal
            /\ Refused(p, new) \/ (Accepted(new) /\ Finish(p, "receipt"))
  /\ UNCHANGED diagnoses

Succeed(p) ==
  /\ GatesDone(p) /\ call[p].reason = None
  /\ LET row == snap[p]
         again == row.receipt = call[p].receipt
         new == [row EXCEPT !.status = "succeeded", !.stage = Completed,
                            !.receipt = call[p].receipt]
     IN  \/ row.status = "succeeded" /\ again /\ Finish(p, "receipt") /\ UNCHANGED ledgerVars
         \/ row.status = "succeeded" /\ ~again /\ Fail(p, "conflict")
         \/ row.status \in {"failed", "rejected"} /\ Fail(p, "conflict")
         \/ /\ row.status \notin Terminal
            /\ Refused(p, new) \/ (Accepted(new) /\ Finish(p, "receipt"))
  /\ UNCHANGED diagnoses

-----------------------------------------------------------------------------
Step(p) ==
  \/ RecordDiagnosis(p) \/ Capture(p) \/ CloseCapture(p)
  \/ GetAttempt(p) \/ FindAttempt(p) \/ RecordInitial(p)
  \/ Advance(p) \/ Reject(p) \/ Succeed(p)

Next == \E p \in Caller : Begin(p) \/ Step(p) \/ Crash(p)

Spec == Init /\ [][Next]_vars

\* A call in progress is code that runs: no step of it waits for another caller.
FairSpec == Spec /\ \A p \in Caller : WF_vars(Step(p))

-----------------------------------------------------------------------------
(***************************************************************************)
(* A receipt once handed to a caller is true for good: the attempt has      *)
(* succeeded with that receipt, and the ledger holds that call's evidence   *)
(* of every stage, whoever recorded it and in whatever interleaving.        *)
(***************************************************************************)
ReceiptVouchesForRow ==
  \A x \in returned : x.result = "receipt" =>
    LET row == attempts[x.call.id]
    IN  /\ row # NoRow
        /\ row.status = "succeeded"
        /\ row.receipt = x.call.receipt
        /\ row.evidence = x.call.evidence
        /\ row.tests = x.call.tests

(***************************************************************************)
(* A caller told that its input was rejected, or that its capture was       *)
(* closed, can find that verdict and its reason in the ledger for good; so  *)
(* no other caller is ever given a receipt for the same attempt.            *)
(***************************************************************************)
RejectionStands ==
  \A x \in returned : x.result \in {"rejected", "closed"} =>
    LET row == attempts[x.call.id]
    IN  /\ row # NoRow
        /\ row.reason = x.call.reason
        /\ row.status = IF x.result = "rejected" THEN "rejected" ELSE x.call.close

(***************************************************************************)
(* An attempt that names a source diagnosis has that very record in the     *)
(* ledger for good, though the two are written by separate transactions     *)
(* with a crash possible between, and a diagnosis may be collected again.   *)
(***************************************************************************)
AttemptHasDiagnosis ==
  \A a \in AttemptId :
    attempts[a] # NoRow /\ attempts[a].source # None => attempts[a].source \in diagnoses

(***************************************************************************)
(* The ledger and its callers together implement AttemptLifecycle: evidence *)
(* arrives stage by stage and what was recorded is never rewritten.  The    *)
(* ledger alone does not promise that (a transition to the next stage may   *)
(* carry different evidence for the stages before); the recorder's stale    *)
(* snapshots and the stage rules together do.                               *)
(***************************************************************************)
LifecycleView(a) ==
  IF attempts[a] = NoRow THEN "absent"
  ELSE IF attempts[a].status \in Terminal THEN attempts[a].status ELSE "open"

Lifecycle == INSTANCE AttemptLifecycle WITH
  LastStage <- AcceptanceEvaluated,
  NoKey <- NoRow,
  owner <- [a \in AttemptId |-> IF attempts[a] = NoRow THEN NoRow ELSE attempts[a].key],
  phase <- [a \in AttemptId |-> LifecycleView(a)],
  gathered <- [a \in AttemptId |-> IF attempts[a] = NoRow THEN NoEvidence ELSE attempts[a].evidence]

LifecycleSpec == Lifecycle!Spec

(***************************************************************************)
(* Pipeline calls about one attempt cannot all lose to one another: when    *)
(* nobody crashes, the attempt is closed in the end, because a caller is    *)
(* refused only after another caller has taken the attempt further.         *)
(***************************************************************************)
SomeCallGetsThrough ==
  \A c \in PipelineCall :
    (\E p \in Caller : call[p] = c)
      ~> (attempts[c.id] # NoRow /\ attempts[c.id].status \in Terminal)

=============================================================================
