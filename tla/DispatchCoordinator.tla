------------------------- MODULE DispatchCoordinator -------------------------
(***************************************************************************)
(* InMemoryDispatchCoordinator (src/scheduler.py): the record of intent and *)
(* admission behind every publication.  Each method runs under one RLock,   *)
(* so each is one action; only the clock is read before the lock is taken,  *)
(* and a call may have waited up to MaxWait ticks with that reading.        *)
(*                                                                         *)
(* receipt is what the last call returned to its caller.                    *)
(***************************************************************************)
EXTENDS DispatchRules

CONSTANTS
  MaxWait,  \* longest wait between reading the clock and holding the lock
  MaxTime   \* bound: the clock stops here

ASSUME TimeAssumption == MaxWait \in Nat /\ MaxTime \in Nat

VARIABLES
  mem,      \* the coordinator's memory
  clock,    \* real time
  receipt   \* the operation, request and status of the last receipt returned

vars == <<mem, clock, receipt>>

\* The readings of the clock that a call holding the lock now may carry.
Readings == {t \in 0 .. clock : clock - t <= MaxWait}

Returned(op, r, status) == [op |-> op, request |-> r, status |-> status]

Init ==
  /\ mem = EmptyMemory
  /\ clock = 0
  /\ receipt \in {Returned("none", r, "rejected") : r \in Request}

Dispatch(r) ==
  \E t \in Readings : \E ok \in Authorizations(r, t) :
    LET verdict == DispatchVerdict(mem, r, ok, t)
    IN  /\ mem' = IF verdict = "accepted" THEN AcceptDispatch(mem, r) ELSE mem
        /\ receipt' = Returned("dispatch", r, verdict)
        /\ UNCHANGED clock

\* Looks at the locks only, never at the receipts.
AcquireLock(r) ==
  /\ IF mem.locks[r.key] # NoLock
     THEN mem' = mem /\ receipt' = Returned("acquire_lock", r, "locked")
     ELSE mem' = SetLock(mem, r.key, r) /\ receipt' = Returned("acquire_lock", r, "accepted")
  /\ UNCHANGED clock

\* complete, succeed and release are one method; the receipt keeps its status.
Complete(r) ==
  /\ IF Recorded(mem, r)
     THEN mem' = CompleteDispatch(mem, r) /\ receipt' = Returned("complete", r, "deduplicated")
     ELSE mem' = mem /\ receipt' = Returned("complete", r, "rejected")
  /\ UNCHANGED clock

\* Mistaken: counts past what a receipt can hold.
RecordFailureUnbounded(r) ==
  /\ \/ mem' = mem /\ receipt' = Returned("record_failure", r, "rejected")
     \/ /\ Recorded(mem, r)
        /\ \E t \in Readings :
             /\ mem' = FailDispatch(mem, r, t)
             /\ receipt' = Returned("record_failure", r, mem'.byKey[r.key].status)
  /\ UNCHANGED clock

(***************************************************************************)
(* A failure report counts whatever the receipt's status is.  An unsafe     *)
(* reason is rejected; a count past FailureLimit does not fit in a receipt, *)
(* and building the receipt raises before anything has changed.             *)
(***************************************************************************)
RecordFailure(r) ==
  /\ \/ mem' = mem /\ receipt' = Returned("record_failure", r, "rejected")
     \/ /\ Recorded(mem, r)
        /\ IF mem.byKey[r.key].failures = FailureLimit
           THEN mem' = mem /\ receipt' = Returned("record_failure", r, "raised")
           ELSE \E t \in Readings :
                  /\ mem' = FailDispatch(mem, r, t)
                  /\ receipt' = Returned("record_failure", r, mem'.byKey[r.key].status)
  /\ UNCHANGED clock

ResetCircuit(r) ==
  /\ \/ ~Recorded(mem, r) /\ mem' = mem /\ receipt' = Returned("reset_circuit", r, "rejected")
     \/ /\ Recorded(mem, r)
        /\ mem' = IF mem.byKey[r.key].status = "circuit_open" THEN ResetDispatch(mem, r) ELSE mem
        /\ receipt' = Returned("reset_circuit", r, mem'.byKey[r.key].status)
  /\ UNCHANGED clock

Tick == clock < MaxTime /\ clock' = clock + 1 /\ UNCHANGED <<mem, receipt>>

Next ==
  \/ \E r \in Request :
       \/ Dispatch(r)
       \/ AcquireLock(r)
       \/ Complete(r)
       \/ RecordFailure(r)
       \/ ResetCircuit(r)
  \/ Tick

Spec == Init /\ [][Next]_vars

-----------------------------------------------------------------------------
Operation == {"none", "dispatch", "acquire_lock", "complete", "record_failure", "reset_circuit"}

\* Every variable has its type.
TypeOK ==
  /\ mem \in Memory
  /\ clock \in 0 .. MaxTime
  /\ receipt \in [op : Operation, request : Request, status : Outcome]

(***************************************************************************)
(* The two indexes hold the same receipts: the receipt of a key is filed    *)
(* under that key's own event, and the receipt of an event under its key.   *)
(* Deduplication by event is sound only while every path that replaces a    *)
(* receipt (retry, failure, reset) replaces it in both.                     *)
(***************************************************************************)
IndexesAgree == IndexesAgreeIn(mem)

(***************************************************************************)
(* The circuit breaker cannot be outrun: a receipt that is accepted or      *)
(* waiting has had fewer than FailureThreshold failures, an open circuit at *)
(* least that many.                                                         *)
(***************************************************************************)
BreakerAgreesWithCount == \A k \in Key : BreakerAgreesIn(mem.byKey[k])

(***************************************************************************)
(* A publication that is on record was never one that may not happen: no    *)
(* receipt is for merge_main, and one for push or create_pr has a token     *)
(* made for that plan and scope.                                            *)
(***************************************************************************)
RecordsAuthorized ==
  \A k \in Key : mem.byKey[k] # NoReceipt =>
    LET r == mem.byKey[k].request
    IN  \/ r.action = "proposal"
        \/ \E token \in Token : token.plan = r.plan /\ token.scope = r.action

(***************************************************************************)
(* A key, and an event, once bound to a request stays bound to it through   *)
(* every failure, retry, completion and reset.                              *)
(***************************************************************************)
BindingsPermanent ==
  [][/\ \A k \in Key : mem.byKey[k] # NoReceipt =>
          mem'.byKey[k] # NoReceipt /\ mem'.byKey[k].request = mem.byKey[k].request
     /\ \A e \in Event : mem.byEvent[e] # NoReceipt =>
          mem'.byEvent[e] # NoReceipt /\ mem'.byEvent[e].request = mem.byEvent[e].request]_vars

(***************************************************************************)
(* An open circuit lets nothing through: only an explicit reset closes it,  *)
(* and the failure count never falls by any other call.                     *)
(***************************************************************************)
OnlyResetForgivesFailures ==
  [][\A k \in Key : mem.byKey[k] # NoReceipt =>
       \/ mem'.byKey[k].failures >= mem.byKey[k].failures
       \/ receipt'.op = "reset_circuit" /\ mem.byKey[k].status = "circuit_open"]_vars

(***************************************************************************)
(* The coordinator implements Admission: forget the locks, the clock, the   *)
(* event index and the retry times.                                         *)
(***************************************************************************)
Abstract == INSTANCE Admission WITH
  NoAdmission <- NoReceipt,
  admitted <- AdmissionsOf(mem.byKey)

AdmissionSpec == Abstract!Spec
=============================================================================
