---------------------------- MODULE DispatchProofs ----------------------------
(***************************************************************************)
(* Theorems about module DispatchCoordinator, for every choice of its       *)
(* constants: any number of keys, events, requests and tokens, any          *)
(* threshold and backoff, and any wait between clock and lock; and about    *)
(* module DispatchWorkers: what the coordinator's receipts are worth to the *)
(* workers that act on them, for any number of workers and reports from     *)
(* anybody in any order.                                                    *)
(***************************************************************************)
EXTENDS DispatchWorkers, DispatchRulesProofs

-----------------------------------------------------------------------------
(***************************************************************************)
(* What one action does to the memory.                                      *)
(***************************************************************************)
Accepts(r) ==
  \E t \in Readings : \E ok \in Authorizations(r, t) :
    DispatchVerdict(mem, r, ok, t) = "accepted" /\ mem' = AcceptDispatch(mem, r)

Fails(r) ==
  /\ Recorded(mem, r)
  /\ mem.byKey[r.key].failures # FailureLimit
  /\ \E t \in Readings : mem' = FailDispatch(mem, r, t)

Resets(r) ==
  /\ Recorded(mem, r)
  /\ mem.byKey[r.key].status = "circuit_open"
  /\ mem' = ResetDispatch(mem, r)
  /\ receipt'.op = "reset_circuit"

Locks(r) == \E lock \in Request \cup {NoLock} : mem' = SetLock(mem, r.key, lock)

Changes(r) == Accepts(r) \/ Fails(r) \/ Resets(r) \/ Locks(r)

\* Every step leaves the memory alone or is one of four changes to it.
LEMMA StepShape ==
  ASSUME [Next]_vars
  PROVE  mem' = mem \/ \E r \in Request : Changes(r)
<1>1. ASSUME NEW r \in Request, Dispatch(r)
      PROVE  mem' = mem \/ Accepts(r)
  BY <1>1 DEF Dispatch, Accepts
<1>2. ASSUME NEW r \in Request, AcquireLock(r)
      PROVE  mem' = mem \/ Locks(r)
  BY <1>2 DEF AcquireLock, Locks
<1>3. ASSUME NEW r \in Request, Complete(r)
      PROVE  mem' = mem \/ Locks(r)
  BY <1>3 DEF Complete, CompleteDispatch, Locks
<1>4. ASSUME NEW r \in Request, RecordFailure(r)
      PROVE  mem' = mem \/ Fails(r)
  BY <1>4 DEF RecordFailure, Fails
<1>5. ASSUME NEW r \in Request, ResetCircuit(r)
      PROVE  mem' = mem \/ Resets(r)
  BY <1>5 DEF ResetCircuit, Resets, Returned
<1>6. Tick => mem' = mem
  BY DEF Tick
<1>7. (UNCHANGED vars) => mem' = mem
  BY DEF vars
<1>8. QED
  BY <1>1, <1>2, <1>3, <1>4, <1>5, <1>6, <1>7 DEF Next, Changes

\* A reading of the clock is a time, whatever is authorised is a Boolean.
LEMMA ReadingsInt == ASSUME clock \in Int, NEW t \in Readings PROVE t \in Int
BY DEF Readings

LEMMA AuthorizationsBoolean ==
  ASSUME NEW r, NEW t, NEW ok \in Authorizations(r, t) PROVE ok \in BOOLEAN
BY DEF Authorizations

-----------------------------------------------------------------------------
(***************************************************************************)
(* The inductive invariant: the type of every variable, the agreement of    *)
(* the two indexes and of status and count.  They need one another: a retry *)
(* and a failure look a receipt up by key and replace it under its event.   *)
(***************************************************************************)
CoordinatorInv == TypeOK /\ IndexesAgree /\ BreakerAgreesWithCount

LEMMA InvSound == CoordinatorInv => Sound(mem) /\ clock \in Int
BY TimeAssumption DEF CoordinatorInv, TypeOK, IndexesAgree, BreakerAgreesWithCount, Sound

\* Each of the four changes leaves a sound memory.
LEMMA ChangesSound ==
  ASSUME Sound(mem), clock \in Int, NEW r \in Request, Changes(r)
  PROVE  Sound(mem')
<1>1. CASE Accepts(r)
  BY <1>1, AcceptDispatchSound, ReadingsInt, AuthorizationsBoolean DEF Accepts
<1>2. CASE Fails(r)
  BY <1>2, FailDispatchSound, ReadingsInt DEF Fails
<1>3. CASE Resets(r)
  BY <1>3, ResetDispatchSound DEF Resets
<1>4. CASE Locks(r)
  BY <1>4, SetLockSound, RequestFields DEF Locks
<1>5. QED
  BY <1>1, <1>2, <1>3, <1>4 DEF Changes

\* Every step leaves a sound memory.
LEMMA StepSound ==
  ASSUME Sound(mem), clock \in Int, [Next]_vars
  PROVE  Sound(mem')
BY StepShape, ChangesSound

\* What a dispatch may decide is a status.
LEMMA VerdictStatus ==
  ASSUME Sound(mem), NEW r \in Request, NEW ok \in BOOLEAN, NEW t \in Int
  PROVE  DispatchVerdict(mem, r, ok, t) \in Outcome
<1>1. r.key \in Key /\ r.event \in Event
  BY RequestFields
<1>2. CASE mem.byKey[r.key] = NoReceipt
  BY <1>2 DEF DispatchVerdict, FreshVerdict, Outcome, Status
<1>3. CASE mem.byKey[r.key] # NoReceipt /\ mem.byKey[r.key].request = r
  <2>1. mem.byKey[r.key].status \in {"accepted", "backoff", "circuit_open"}
    BY <1>1, <1>3 DEF Sound, Memory, Receipt
  <2>2. mem.byKey[r.key].retryAt \in Int
    BY <1>1, <1>3 DEF Sound, Memory, Receipt
  <2>3. RepeatVerdict(mem.byKey[r.key], ok, t) \in Outcome
    BY <2>1, <2>2 DEF RepeatVerdict, Outcome, Status
  <2>4. QED
    BY <1>3, <2>3 DEF DispatchVerdict
<1>4. CASE mem.byKey[r.key] # NoReceipt /\ mem.byKey[r.key].request # r
  BY <1>4 DEF DispatchVerdict, Outcome, Status
<1>5. QED
  BY <1>2, <1>3, <1>4

Answers == [op : Operation, request : Request, status : Outcome]

LEMMA ReturnedType ==
  ASSUME NEW op \in Operation, NEW r \in Request, NEW status \in Outcome
  PROVE  Returned(op, r, status) \in Answers
BY DEF Returned, Answers

\* The receipt a call returns has its type.
LEMMA StepReceiptType ==
  ASSUME Sound(mem), Sound(mem'), clock \in 0 .. MaxTime, receipt \in Answers, [Next]_vars
  PROVE  clock' \in 0 .. MaxTime /\ receipt' \in Answers
<1>1. ASSUME NEW r \in Request, Recorded(mem, r), mem'.byKey[r.key] # NoReceipt
      PROVE  mem'.byKey[r.key].status \in Outcome
  BY <1>1, RequestFields DEF Sound, Memory, Receipt, Outcome, Status
<1>2. clock \in Int
  BY TimeAssumption
<1>3. ASSUME NEW r \in Request, Dispatch(r)
      PROVE  clock' \in 0 .. MaxTime /\ receipt' \in Answers
  <2>1. PICK t \in Readings : \E ok \in Authorizations(r, t) :
          receipt' = Returned("dispatch", r, DispatchVerdict(mem, r, ok, t))
    BY <1>3 DEF Dispatch
  <2> PICK ok \in Authorizations(r, t) :
        receipt' = Returned("dispatch", r, DispatchVerdict(mem, r, ok, t))
    BY <2>1
  <2>2. DispatchVerdict(mem, r, ok, t) \in Outcome
    BY <1>2, VerdictStatus, ReadingsInt, AuthorizationsBoolean
  <2>3. QED
    BY <1>3, <2>2, ReturnedType DEF Dispatch, Operation
<1>4. ASSUME NEW r \in Request, AcquireLock(r) \/ Complete(r)
      PROVE  clock' \in 0 .. MaxTime /\ receipt' \in Answers
  <2>1. \E op \in Operation, status \in Outcome : receipt' = Returned(op, r, status)
    BY <1>4 DEF AcquireLock, Complete, Operation, Outcome, Status
  <2>2. QED
    BY <1>4, <2>1, ReturnedType DEF AcquireLock, Complete
<1>5. ASSUME NEW r \in Request, RecordFailure(r)
      PROVE  clock' \in 0 .. MaxTime /\ receipt' \in Answers
  <2>1. \/ \E status \in Outcome : receipt' = Returned("record_failure", r, status)
        \/ Fails(r) /\ receipt' = Returned("record_failure", r, mem'.byKey[r.key].status)
    BY <1>5 DEF RecordFailure, Fails, Outcome, Status
  <2>2. ASSUME Fails(r)
        PROVE  mem'.byKey[r.key].status \in Outcome
    <3>1. PICK t \in Readings : mem' = FailDispatch(mem, r, t)
      BY <2>2 DEF Fails
    <3>2. mem.byKey \in [Key -> Receipt \cup {NoReceipt}] /\ r.key \in Key
      BY RequestFields DEF Sound, Memory
    <3>3. mem'.byKey[r.key] = FailureReceipt(r, mem.byKey[r.key].failures + 1, t)
      <4>1. FailureReceipt(r, mem.byKey[r.key].failures + 1, t).request = r
        BY DEF FailureReceipt, NewReceipt
      <4>2. QED
        BY <3>1, <3>2, <4>1 DEF FailDispatch, SetLock, Bind
    <3>4. QED
      BY <3>3 DEF FailureReceipt, NewReceipt, Outcome, Status
  <2>3. QED
    <3>1. \E status \in Outcome : receipt' = Returned("record_failure", r, status)
      BY <2>1, <2>2
    <3>2. QED
      BY <1>5, <3>1, ReturnedType DEF RecordFailure, Operation
<1>6. ASSUME NEW r \in Request, ResetCircuit(r)
      PROVE  clock' \in 0 .. MaxTime /\ receipt' \in Answers
  <2>1. CASE ~Recorded(mem, r)
    BY <1>6, <2>1, ReturnedType DEF ResetCircuit, Operation, Outcome, Status
  <2>2. CASE Recorded(mem, r)
    <3>1. mem'.byKey[r.key].status \in Outcome
      <4>1. CASE mem' = mem
        BY <4>1, <2>2, RecordedRequest DEF Receipt, Outcome, Status
      <4>2. CASE mem' = ResetDispatch(mem, r)
        <5>1. mem.byKey \in [Key -> Receipt \cup {NoReceipt}] /\ r.key \in Key
          BY RequestFields DEF Sound, Memory
        <5>2. QED
          BY <4>2, <5>1 DEF ResetDispatch, Bind, NewReceipt, Outcome, Status
      <4>3. QED
        BY <1>6, <2>2, <4>1, <4>2 DEF ResetCircuit
    <3>2. receipt' = Returned("reset_circuit", r, mem'.byKey[r.key].status)
      BY <1>6, <2>2 DEF ResetCircuit
    <3>3. QED
      BY <1>6, <3>1, <3>2, ReturnedType DEF ResetCircuit, Operation
  <2>3. QED
    BY <2>1, <2>2
<1>7. ASSUME Tick
      PROVE  clock' \in 0 .. MaxTime /\ receipt' \in Answers
  BY <1>7, TimeAssumption DEF Tick
<1>8. ASSUME UNCHANGED vars
      PROVE  clock' \in 0 .. MaxTime /\ receipt' \in Answers
  BY <1>8 DEF vars
<1>9. QED
  BY <1>3, <1>4, <1>5, <1>6, <1>7, <1>8 DEF Next

-----------------------------------------------------------------------------
\* The initial states satisfy the invariant.
LEMMA InitInv == Init => CoordinatorInv
<1> SUFFICES ASSUME Init PROVE CoordinatorInv
  OBVIOUS
<1>1. Sound(mem) /\ clock \in 0 .. MaxTime
  BY EmptyMemorySound, TimeAssumption DEF Init
<1>2. receipt \in Answers
  BY DEF Init, Returned, Answers, Operation, Outcome, Status
<1>3. QED
  BY <1>1, <1>2 DEF CoordinatorInv, TypeOK, IndexesAgree, BreakerAgreesWithCount, Sound, Answers

\* Every step preserves it.
LEMMA StepInv == CoordinatorInv /\ [Next]_vars => CoordinatorInv'
<1> SUFFICES ASSUME CoordinatorInv, [Next]_vars PROVE CoordinatorInv'
  OBVIOUS
<1>1. /\ Sound(mem) /\ clock \in Int
      /\ clock \in 0 .. MaxTime /\ receipt \in Answers
  BY InvSound DEF CoordinatorInv, TypeOK, Answers
<1>2. Sound(mem')
  BY <1>1, StepSound
<1>3. clock' \in 0 .. MaxTime /\ receipt' \in Answers
  BY <1>1, <1>2, StepReceiptType
<1>4. QED
  BY <1>2, <1>3 DEF CoordinatorInv, TypeOK, IndexesAgree, BreakerAgreesWithCount, Sound, Answers

(***************************************************************************)
(* In every reachable state the variables have their types, the receipts by *)
(* key and the receipts by event are the same receipts, and the circuit of  *)
(* a key is open exactly when its failures have reached the threshold.      *)
(***************************************************************************)
THEOREM CoordinatorInvariant == Spec => []CoordinatorInv
BY InitInv, StepInv, PTL DEF Spec

\* TypeOK holds in every reachable state: each receipt fits the bounds the code
\* puts on it, whatever calls were made.
THEOREM TypesHold == Spec => []TypeOK
<1>1. CoordinatorInv => TypeOK
  BY DEF CoordinatorInv
<1>2. QED
  BY <1>1, CoordinatorInvariant, PTL

\* Retries, failures and resets replace a receipt in both indexes: no sequence of
\* calls makes them disagree.
THEOREM IndexesAlwaysAgree == Spec => []IndexesAgree
<1>1. CoordinatorInv => IndexesAgree
  BY DEF CoordinatorInv
<1>2. QED
  BY <1>1, CoordinatorInvariant, PTL

\* No sequence of calls, in any order, makes a receipt outrun its circuit breaker.
THEOREM BreakerAlwaysAgrees == Spec => []BreakerAgreesWithCount
<1>1. CoordinatorInv => BreakerAgreesWithCount
  BY DEF CoordinatorInv
<1>2. QED
  BY <1>1, CoordinatorInvariant, PTL

-----------------------------------------------------------------------------
(***************************************************************************)
(* What the action properties and the refinement need of a change: it is to *)
(* the locks alone, or it files one new receipt x for request r.            *)
(***************************************************************************)
Files(r, x) ==
  /\ x \in Receipt
  /\ x.request = r
  /\ mem'.byKey = [mem.byKey EXCEPT ![r.key] = x]
  /\ mem'.byEvent = [mem.byEvent EXCEPT ![r.event] = x]

LEMMA AcceptsFiles ==
  ASSUME Sound(mem), clock \in Int, NEW r \in Request, Accepts(r)
  PROVE  /\ Files(r, AcceptReceipt(mem, r))
         /\ \/ mem.byKey[r.key] = NoReceipt /\ mem.byEvent[r.event] = NoReceipt
            \/ Recorded(mem, r) /\ mem.byKey[r.key].status = "backoff"
         /\ TRUE \in UNION {Authorizations(r, t) : t \in Readings}
<1> PICK t \in Readings : \E ok \in Authorizations(r, t) :
      DispatchVerdict(mem, r, ok, t) = "accepted" /\ mem' = AcceptDispatch(mem, r)
  BY DEF Accepts
<1> PICK ok \in Authorizations(r, t) :
      DispatchVerdict(mem, r, ok, t) = "accepted" /\ mem' = AcceptDispatch(mem, r)
  OBVIOUS
<1>1. ok \in BOOLEAN /\ t \in Int
  BY AuthorizationsBoolean, ReadingsInt
<1>2. \/ mem.byKey[r.key] = NoReceipt /\ mem.byEvent[r.event] = NoReceipt
      \/ Recorded(mem, r) /\ mem.byKey[r.key].status = "backoff"
  BY <1>1, AcceptedRequest
<1>3. AcceptReceipt(mem, r) \in Receipt /\ AcceptReceipt(mem, r).request = r
  BY <1>2, AcceptReceiptSound
<1>4. Files(r, AcceptReceipt(mem, r))
  BY <1>3 DEF AcceptDispatch, SetLock, Bind, Files
<1>5. ok
  BY <1>1, AcceptedAuthorized
<1>6. QED
  BY <1>1, <1>2, <1>4, <1>5

LEMMA FailsFiles ==
  ASSUME Sound(mem), clock \in Int, NEW r \in Request, Fails(r)
  PROVE  /\ Recorded(mem, r)
         /\ \E t \in Int : Files(r, FailureReceipt(r, mem.byKey[r.key].failures + 1, t))
         /\ mem.byKey[r.key].failures + 1 \in 1 .. FailureLimit
<1> PICK t \in Readings : mem' = FailDispatch(mem, r, t)
  BY DEF Fails
<1>1. t \in Int /\ Recorded(mem, r)
  BY ReadingsInt DEF Fails
<1>2. mem.byKey[r.key].failures + 1 \in 1 .. FailureLimit
  BY <1>1, RecordedRequest, BoundsAssumption DEF Fails
<1> DEFINE x == FailureReceipt(r, mem.byKey[r.key].failures + 1, t)
<1>3. x \in Receipt /\ x.request = r
  BY <1>1, <1>2, FailureReceiptSound
<1>4. Files(r, x)
  BY <1>3 DEF FailDispatch, SetLock, Bind, Files
<1>5. QED
  BY <1>1, <1>2, <1>4

LEMMA ResetsFiles ==
  ASSUME Sound(mem), NEW r \in Request, Resets(r)
  PROVE  Files(r, NewReceipt(r, "accepted", 0, 0, "circuit reset"))
<1>1. "circuit reset" \in Reason
  BY DEF Reason
<1>2. QED
  BY <1>1, NoFailures, NewReceiptSound DEF Resets, ResetDispatch, Bind, Files

LEMMA LocksKeep ==
  ASSUME NEW r, Locks(r)
  PROVE  mem'.byKey = mem.byKey /\ mem'.byEvent = mem.byEvent
BY DEF Locks, SetLock

\* A receipt is filed for a request that is new, or is the one on record.
LEMMA FilesBinding ==
  ASSUME Sound(mem), NEW r \in Request, NEW x, Files(r, x),
         \/ mem.byKey[r.key] = NoReceipt /\ mem.byEvent[r.event] = NoReceipt
         \/ Recorded(mem, r)
  PROVE  /\ \A k \in Key : mem.byKey[k] # NoReceipt =>
              mem'.byKey[k] # NoReceipt /\ mem'.byKey[k].request = mem.byKey[k].request
         /\ \A e \in Event : mem.byEvent[e] # NoReceipt =>
              mem'.byEvent[e] # NoReceipt /\ mem'.byEvent[e].request = mem.byEvent[e].request
<1>1. r.key \in Key /\ r.event \in Event
  BY RequestFields
<1>2. mem.byKey \in [Key -> Receipt \cup {NoReceipt}] /\ mem.byEvent \in [Event -> Receipt \cup {NoReceipt}]
  BY DEF Sound, Memory
<1>3. x # NoReceipt /\ x.request = r
  BY NoneAssumption DEF Files
<1>4. mem.byKey[r.key] # NoReceipt => mem.byKey[r.key].request = r
  BY DEF Recorded
<1>5. mem.byEvent[r.event] # NoReceipt => mem.byEvent[r.event].request = r
  <2>1. CASE Recorded(mem, r)
    <3>1. mem.byKey[r.key] # NoReceipt /\ mem.byKey[r.key].request = r
      BY <2>1 DEF Recorded
    <3>2. mem.byEvent[r.event] = mem.byKey[r.key]
      BY <1>1, <3>1 DEF Sound, IndexesAgreeIn
    <3>3. QED
      BY <3>1, <3>2
  <2>2. QED
    BY <2>1
<1>6. QED
  BY <1>1, <1>2, <1>3, <1>4, <1>5 DEF Files

(***************************************************************************)
(* BindingsPermanent, for all executions: no call, legal or not, ever       *)
(* rebinds an idempotency key or an event to another request.               *)
(***************************************************************************)
THEOREM BindingsArePermanent == Spec => BindingsPermanent
<1> DEFINE Kept ==
      /\ \A k \in Key : mem.byKey[k] # NoReceipt =>
           mem'.byKey[k] # NoReceipt /\ mem'.byKey[k].request = mem.byKey[k].request
      /\ \A e \in Event : mem.byEvent[e] # NoReceipt =>
           mem'.byEvent[e] # NoReceipt /\ mem'.byEvent[e].request = mem.byEvent[e].request
<1>1. CoordinatorInv /\ [Next]_vars => [Kept]_vars
  <2> SUFFICES ASSUME CoordinatorInv, [Next]_vars PROVE Kept
    OBVIOUS
  <2>1. Sound(mem) /\ clock \in Int
    BY InvSound
  <2>2. CASE mem' = mem
    BY <2>2
  <2>3. ASSUME NEW r \in Request, Changes(r)
        PROVE  Kept
    <3>1. CASE Accepts(r)
      BY <2>1, <3>1, AcceptsFiles, FilesBinding
    <3>2. CASE Fails(r)
      BY <2>1, <3>2, FailsFiles, FilesBinding
    <3>3. CASE Resets(r)
      BY <2>1, <3>3, ResetsFiles, FilesBinding DEF Resets
    <3>4. CASE Locks(r)
      BY <3>4, LocksKeep
    <3>5. QED
      BY <2>3, <3>1, <3>2, <3>3, <3>4 DEF Changes
  <2>4. QED
    BY <2>2, <2>3, StepShape
<1>2. QED
  BY <1>1, CoordinatorInvariant, PTL DEF Spec, BindingsPermanent

(***************************************************************************)
(* OnlyResetForgivesFailures, for all executions: the failure count that    *)
(* opens a circuit falls only when somebody resets an open circuit.         *)
(***************************************************************************)
THEOREM FailuresForgivenByResetOnly == Spec => OnlyResetForgivesFailures
<1> DEFINE Forgiven ==
      \A k \in Key : mem.byKey[k] # NoReceipt =>
        \/ mem'.byKey[k].failures >= mem.byKey[k].failures
        \/ receipt'.op = "reset_circuit" /\ mem.byKey[k].status = "circuit_open"
<1>1. CoordinatorInv /\ [Next]_vars => [Forgiven]_vars
  <2> SUFFICES ASSUME CoordinatorInv, [Next]_vars, NEW k \in Key, mem.byKey[k] # NoReceipt
               PROVE  \/ mem'.byKey[k].failures >= mem.byKey[k].failures
                      \/ receipt'.op = "reset_circuit" /\ mem.byKey[k].status = "circuit_open"
    OBVIOUS
  <2>1. Sound(mem) /\ clock \in Int
    BY InvSound
  <2>2. mem.byKey \in [Key -> Receipt \cup {NoReceipt}]
    BY <2>1 DEF Sound, Memory
  <2>3. mem.byKey[k].failures \in Int
    BY <2>2, BoundsAssumption DEF Receipt
  <2>4. CASE mem'.byKey[k] = mem.byKey[k]
    BY <2>3, <2>4
  <2>5. ASSUME NEW r \in Request, Changes(r), mem'.byKey[k] # mem.byKey[k]
        PROVE  \/ mem'.byKey[k].failures >= mem.byKey[k].failures
               \/ receipt'.op = "reset_circuit" /\ mem.byKey[k].status = "circuit_open"
    <3>1. \A x : Files(r, x) => k = r.key /\ mem'.byKey[k] = x
      BY <2>2, <2>5 DEF Files
    <3>2. CASE Accepts(r)
      <4>1. k = r.key /\ mem'.byKey[k] = AcceptReceipt(mem, r)
        BY <2>1, <3>1, <3>2, AcceptsFiles
      <4>2. AcceptReceipt(mem, r).failures = mem.byKey[k].failures
        BY <4>1 DEF AcceptReceipt, NewReceipt
      <4>3. QED
        BY <2>3, <4>1, <4>2
    <3>3. CASE Fails(r)
      <4> PICK t \in Int : Files(r, FailureReceipt(r, mem.byKey[r.key].failures + 1, t))
        BY <2>1, <3>3, FailsFiles
      <4>1. k = r.key /\ mem'.byKey[k] = FailureReceipt(r, mem.byKey[k].failures + 1, t)
        BY <3>1
      <4>2. mem'.byKey[k].failures = mem.byKey[k].failures + 1
        BY <4>1 DEF FailureReceipt, NewReceipt
      <4>3. QED
        BY <2>3, <4>2
    <3>4. CASE Resets(r)
      BY <2>1, <3>1, <3>4, ResetsFiles DEF Resets
    <3>5. CASE Locks(r)
      BY <2>5, <3>5, LocksKeep
    <3>6. QED
      BY <2>5, <3>2, <3>3, <3>4, <3>5 DEF Changes
  <2>6. QED
    BY <2>4, <2>5, StepShape
<1>2. QED
  BY <1>1, CoordinatorInvariant, PTL DEF Spec, OnlyResetForgivesFailures

-----------------------------------------------------------------------------
\* What the authorisation of a request comes to.
MayRecord(r) ==
  \/ r.action = "proposal"
  \/ \E token \in Token : token.plan = r.plan /\ token.scope = r.action

LEMMA AuthorizedMayRecord ==
  ASSUME NEW r \in Request, NEW t, TRUE \in Authorizations(r, t)
  PROVE  MayRecord(r)
<1> PICK token \in Token \cup {NoToken}, plan \in Plan \cup {NoPlan}, signer \in Signer \cup {NoSigner} :
      Authorized(r, token, plan, signer, t)
  BY DEF Authorizations
<1>1. QED
  BY DEF Authorized, TokenCovers, MayRecord

(***************************************************************************)
(* RecordsAuthorized, for all executions: a receipt that outlives failures, *)
(* retries and resets is still one for a request that was authorised.       *)
(***************************************************************************)
THEOREM RecordsAlwaysAuthorized == Spec => []RecordsAuthorized
<1>1. Init => RecordsAuthorized
  BY DEF Init, EmptyMemory, RecordsAuthorized
<1>2. CoordinatorInv /\ RecordsAuthorized /\ [Next]_vars => RecordsAuthorized'
  <2> SUFFICES ASSUME CoordinatorInv, RecordsAuthorized, [Next]_vars,
                      NEW k \in Key, mem'.byKey[k] # NoReceipt
               PROVE  MayRecord(mem'.byKey[k].request)
    BY DEF RecordsAuthorized, MayRecord
  <2>1. Sound(mem) /\ clock \in Int
    BY InvSound
  <2>2. mem.byKey \in [Key -> Receipt \cup {NoReceipt}]
    BY <2>1 DEF Sound, Memory
  <2>3. mem.byKey[k] # NoReceipt => MayRecord(mem.byKey[k].request)
    BY DEF RecordsAuthorized, MayRecord
  <2>4. CASE mem'.byKey[k] = mem.byKey[k]
    BY <2>3, <2>4
  <2>5. ASSUME NEW r \in Request, Changes(r), mem'.byKey[k] # mem.byKey[k]
        PROVE  MayRecord(mem'.byKey[k].request)
    <3>1. \A x : Files(r, x) => k = r.key /\ mem'.byKey[k].request = r
      BY <2>2, <2>5 DEF Files
    <3>2. Recorded(mem, r) /\ k = r.key => MayRecord(r)
      BY <2>3 DEF Recorded
    <3>3. CASE Accepts(r)
      <4>1. MayRecord(r)
        BY <2>1, <3>3, AcceptsFiles, AuthorizedMayRecord
      <4>2. QED
        BY <2>1, <3>1, <3>3, <4>1, AcceptsFiles
    <3>4. CASE Fails(r)
      BY <2>1, <3>1, <3>2, <3>4, FailsFiles
    <3>5. CASE Resets(r)
      BY <2>1, <3>1, <3>2, <3>5, ResetsFiles DEF Resets
    <3>6. CASE Locks(r)
      BY <2>5, <3>6, LocksKeep
    <3>7. QED
      BY <2>5, <3>3, <3>4, <3>5, <3>6 DEF Changes
  <2>6. QED
    BY <2>4, <2>5, StepShape
<1>3. QED
  BY <1>1, <1>2, CoordinatorInvariant, PTL DEF Spec

-----------------------------------------------------------------------------
(***************************************************************************)
(* The refinement of Admission.                                             *)
(***************************************************************************)
AdmittedNow == AdmissionsOf(mem.byKey)

\* Filing a receipt changes one admission and leaves the others alone.
LEMMA FilesAdmission ==
  ASSUME Sound(mem), NEW r \in Request, NEW x, Files(r, x)
  PROVE  /\ AdmittedNow' = [AdmittedNow EXCEPT ![r.key] = AdmissionOf(x)]
         /\ r.key \in DOMAIN AdmittedNow
<1>1. r.key \in Key /\ x # NoReceipt
  BY RequestFields, NoneAssumption DEF Files
<1>2. mem.byKey \in [Key -> Receipt \cup {NoReceipt}]
  BY DEF Sound, Memory
<1>3. \A k \in Key : mem'.byKey[k] = IF k = r.key THEN x ELSE mem.byKey[k]
  BY <1>1, <1>2 DEF Files
<1>4. QED
  BY <1>1, <1>3 DEF AdmittedNow, AdmissionsOf

\* An admission is never the null value: a key is admitted when it has a receipt.
LEMMA AdmissionNotNone ==
  ASSUME NEW x \in Receipt
  PROVE  AdmissionOf(x) # NoReceipt
<1>1. Phase(x.status) \in {"active", "waiting", "stopped"}
  BY DEF Receipt, Phase
<1>2. AdmissionOf(x) \in AdmittedAs
  BY <1>1 DEF AdmissionOf, AdmittedAs, Receipt
<1>3. QED
  BY <1>2, NoneAssumption

LEMMA AdmittedKeys ==
  ASSUME Sound(mem), NEW k \in Key
  PROVE  /\ Abstract!Admitted(k) <=> mem.byKey[k] # NoReceipt
         /\ mem.byKey[k] # NoReceipt =>
              /\ AdmittedNow[k] = AdmissionOf(mem.byKey[k])
              /\ AdmittedNow[k].request = mem.byKey[k].request
              /\ AdmittedNow[k].failures = mem.byKey[k].failures
              /\ AdmittedNow[k].phase = Phase(mem.byKey[k].status)
<1>1. mem.byKey[k] \in Receipt \cup {NoReceipt}
  BY DEF Sound, Memory
<1>2. AdmittedNow[k] = IF mem.byKey[k] = NoReceipt THEN NoReceipt ELSE AdmissionOf(mem.byKey[k])
  BY DEF AdmittedNow, AdmissionsOf
<1>3. mem.byKey[k] # NoReceipt => AdmissionOf(mem.byKey[k]) # NoReceipt
  BY <1>1, AdmissionNotNone
<1>4. Abstract!Admitted(k) <=> AdmittedNow[k] # NoReceipt
  BY DEF Abstract!Admitted, AdmittedNow
<1>5. mem.byKey[k] # NoReceipt => AdmittedNow[k] = AdmissionOf(mem.byKey[k])
  BY <1>2
<1>6. \A x : AdmissionOf(x).request = x.request /\ AdmissionOf(x).failures = x.failures
              /\ AdmissionOf(x).phase = Phase(x.status)
  BY DEF AdmissionOf
<1>7. QED
  BY <1>2, <1>3, <1>4, <1>5, <1>6

\* Each change is a step of Admission, or is not seen there.
LEMMA AcceptsAdmits ==
  ASSUME Sound(mem), clock \in Int, NEW r \in Request, Accepts(r)
  PROVE  Abstract!Admit(r) \/ Abstract!Retry(r.key)
<1> DEFINE x == AcceptReceipt(mem, r)
<1>1. /\ Files(r, x)
      /\ \/ mem.byKey[r.key] = NoReceipt /\ mem.byEvent[r.event] = NoReceipt
         \/ Recorded(mem, r) /\ mem.byKey[r.key].status = "backoff"
  BY AcceptsFiles
<1>2. r.key \in Key /\ r.event \in Event
  BY RequestFields
<1>3. AdmittedNow' = [AdmittedNow EXCEPT ![r.key] = AdmissionOf(x)]
  BY <1>1, FilesAdmission
<1>4. CASE mem.byKey[r.key] = NoReceipt /\ mem.byEvent[r.event] = NoReceipt
  <2>1. AdmissionOf(x) = [request |-> r, phase |-> "active", failures |-> 0]
    BY <1>4 DEF AcceptReceipt, NewReceipt, AdmissionOf, Phase
  <2>2. ~Abstract!Admitted(r.key)
    BY <1>2, <1>4, AdmittedKeys
  <2>3. ASSUME NEW k \in Key, Abstract!Admitted(k)
        PROVE  AdmittedNow[k].request.event # r.event
    <3>1. mem.byKey[k] # NoReceipt /\ AdmittedNow[k].request = mem.byKey[k].request
      BY <2>3, AdmittedKeys
    <3>2. mem.byEvent[mem.byKey[k].request.event] = mem.byKey[k]
      BY <3>1 DEF Sound, IndexesAgreeIn
    <3>3. QED
      BY <1>4, <3>1, <3>2
  <2>4. QED
    BY <1>3, <2>1, <2>2, <2>3 DEF Abstract!Admit, AdmittedNow
<1>5. CASE Recorded(mem, r) /\ mem.byKey[r.key].status = "backoff"
  <2> DEFINE old == mem.byKey[r.key]
  <2>1. old # NoReceipt /\ old.request = r /\ old.status = "backoff"
    BY <1>5 DEF Recorded
  <2>2. AdmissionOf(x) = [request |-> r, phase |-> "active", failures |-> old.failures]
    BY <2>1 DEF AcceptReceipt, NewReceipt, AdmissionOf, Phase
  <2>3. Abstract!Admitted(r.key)
    BY <1>2, <2>1, AdmittedKeys
  <2>4. AdmittedNow[r.key] = [request |-> r, phase |-> "waiting", failures |-> old.failures]
    BY <1>2, <2>1, AdmittedKeys DEF AdmissionOf, Phase
  <2>5. QED
    BY <1>3, <2>2, <2>3, <2>4 DEF Abstract!Retry, AdmittedNow
<1>6. QED
  BY <1>1, <1>4, <1>5

LEMMA FailsFails ==
  ASSUME Sound(mem), clock \in Int, NEW r \in Request, Fails(r)
  PROVE  Abstract!Fail(r.key)
<1> DEFINE old == mem.byKey[r.key]
<1> PICK t \in Int : Files(r, FailureReceipt(r, old.failures + 1, t))
  BY FailsFiles
<1> DEFINE x == FailureReceipt(r, old.failures + 1, t)
<1>1. r.key \in Key /\ old # NoReceipt /\ old.request = r
  BY FailsFiles, RequestFields DEF Recorded
<1>2. AdmittedNow' = [AdmittedNow EXCEPT ![r.key] = AdmissionOf(x)]
  BY FilesAdmission
<1>3. Abstract!Admitted(r.key)
  BY <1>1, AdmittedKeys
<1>4. AdmittedNow[r.key].request = r /\ AdmittedNow[r.key].failures = old.failures
  BY <1>1, AdmittedKeys
<1>5. AdmissionOf(x) =
        [request |-> r,
         phase |-> IF old.failures + 1 >= FailureThreshold THEN "stopped" ELSE "waiting",
         failures |-> old.failures + 1]
  BY DEF FailureReceipt, NewReceipt, AdmissionOf, Phase
<1>6. QED
  BY <1>2, <1>3, <1>4, <1>5 DEF Abstract!Fail, AdmittedNow

LEMMA ResetsResets ==
  ASSUME Sound(mem), NEW r \in Request, Resets(r)
  PROVE  Abstract!Reset(r.key)
<1> DEFINE x == NewReceipt(r, "accepted", 0, 0, "circuit reset")
<1>1. /\ r.key \in Key /\ mem.byKey[r.key] # NoReceipt
      /\ mem.byKey[r.key].request = r /\ mem.byKey[r.key].status = "circuit_open"
  BY RequestFields DEF Resets, Recorded
<1>2. AdmittedNow' = [AdmittedNow EXCEPT ![r.key] = AdmissionOf(x)]
  BY ResetsFiles, FilesAdmission
<1>3. Abstract!Admitted(r.key)
  BY <1>1, AdmittedKeys
<1>4. AdmittedNow[r.key].request = r /\ AdmittedNow[r.key].phase = "stopped"
  BY <1>1, AdmittedKeys DEF Phase
<1>5. AdmissionOf(x) = [request |-> r, phase |-> "active", failures |-> 0]
  BY DEF NewReceipt, AdmissionOf, Phase
<1>6. QED
  BY <1>2, <1>3, <1>4, <1>5 DEF Abstract!Reset, AdmittedNow

(***************************************************************************)
(* The coordinator implements Admission: behind the locks, the backoff      *)
(* windows, the stale clocks and the two indexes, every key moves only as   *)
(* Admission lets it.                                                       *)
(***************************************************************************)
THEOREM CoordinatorImplementsAdmission == Spec => AdmissionSpec
<1>1. Init => Abstract!Init
  BY DEF Init, EmptyMemory, Abstract!Init, AdmissionsOf
<1>2. CoordinatorInv /\ [Next]_vars => [Abstract!Next]_AdmittedNow
  <2> SUFFICES ASSUME CoordinatorInv, [Next]_vars
               PROVE  Abstract!Next \/ UNCHANGED AdmittedNow
    OBVIOUS
  <2>1. Sound(mem) /\ clock \in Int
    BY InvSound
  <2>2. CASE mem' = mem
    BY <2>2 DEF AdmittedNow
  <2>3. ASSUME NEW r \in Request, Changes(r)
        PROVE  Abstract!Next \/ UNCHANGED AdmittedNow
    <3>1. r.key \in Key
      BY RequestFields
    <3>2. CASE Accepts(r)
      BY <2>1, <3>1, <3>2, AcceptsAdmits DEF Abstract!Next
    <3>3. CASE Fails(r)
      BY <2>1, <3>1, <3>3, FailsFails DEF Abstract!Next
    <3>4. CASE Resets(r)
      BY <2>1, <3>1, <3>4, ResetsResets DEF Abstract!Next
    <3>5. CASE Locks(r)
      BY <3>5, LocksKeep DEF AdmittedNow
    <3>6. QED
      BY <2>3, <3>2, <3>3, <3>4, <3>5 DEF Changes
  <2>4. QED
    BY <2>2, <2>3, StepShape
<1>3. QED
  BY <1>1, <1>2, CoordinatorInvariant, PTL DEF Spec, AdmissionSpec, Abstract!Spec, AdmittedNow

-----------------------------------------------------------------------------
-----------------------------------------------------------------------------
(***************************************************************************)
(* What one step does to the memory and to the workers together.            *)
(***************************************************************************)
Starts(r) ==
  /\ Accepts(r)
  /\ receipt'.request = r
  /\ runs' = [runs EXCEPT ![r.key] = @ + 1]
  /\ failedAt' = failedAt
  /\ running' = running \cup {r}
  /\ completed' = completed
  /\ late' = late

\* The failing worker stops, or somebody else has reported its failure.
Reports(r) ==
  /\ Fails(r)
  /\ runs' = runs
  /\ mem' # mem => failedAt' = [failedAt EXCEPT ![r.key] = clock]
  /\ completed' = completed
  /\ \/ r \in running /\ running' = running \ {r} /\ late' = late
     \/ running' = running /\ late' = late \cup {r}

Reopens(r) ==
  /\ Resets(r)
  /\ runs' = [runs EXCEPT ![r.key] = 0]
  /\ UNCHANGED <<running, completed, late, failedAt>>

\* No receipt changes; a worker may stop, and it may have completed.
Rests ==
  /\ mem'.byKey = mem.byKey
  /\ runs' = runs
  /\ failedAt' = failedAt
  /\ running' \subseteq running
  /\ late \subseteq late'
  /\ completed' \subseteq completed \cup running
  /\ completed' \cap running' \subseteq completed \cap running

LEMMA WorkerStepShape ==
  ASSUME [WNext]_allVars
  PROVE  Rests \/ \E r \in Request : Starts(r) \/ Reports(r) \/ Reopens(r)
<1>1. ASSUME NEW r \in Request, WDispatch(r)
      PROVE  Rests \/ Starts(r)
  <2> PICK t \in Readings : \E ok \in Authorizations(r, t) :
        /\ mem' = IF DispatchVerdict(mem, r, ok, t) = "accepted" THEN AcceptDispatch(mem, r) ELSE mem
        /\ receipt' = Returned("dispatch", r, DispatchVerdict(mem, r, ok, t))
    BY <1>1 DEF WDispatch, Dispatch
  <2> PICK ok \in Authorizations(r, t) :
        /\ mem' = IF DispatchVerdict(mem, r, ok, t) = "accepted" THEN AcceptDispatch(mem, r) ELSE mem
        /\ receipt' = Returned("dispatch", r, DispatchVerdict(mem, r, ok, t))
    OBVIOUS
  <2>1. receipt'.status = DispatchVerdict(mem, r, ok, t) /\ receipt'.request = r
    BY DEF Returned
  <2>2. CASE DispatchVerdict(mem, r, ok, t) = "accepted"
    <3>1. Accepts(r)
      BY <2>2 DEF Accepts
    <3>2. QED
      BY <1>1, <2>1, <2>2, <3>1 DEF WDispatch, Starts
  <2>3. CASE DispatchVerdict(mem, r, ok, t) # "accepted"
    <3>1. mem' = mem
      BY <2>3
    <3>2. QED
      BY <1>1, <2>1, <2>3, <3>1 DEF WDispatch, Rests
  <2>4. QED
    BY <2>2, <2>3
<1>2. ASSUME NEW r \in Request, WAcquireLock(r)
      PROVE  Rests
  BY <1>2 DEF WAcquireLock, AcquireLock, SetLock, Rests
<1>3. ASSUME NEW r \in Request, Complete(r)
      PROVE  mem'.byKey = mem.byKey
  BY <1>3 DEF Complete, CompleteDispatch, SetLock
<1>4. ASSUME NEW r \in Request, WRelease(r) \/ WComplete(r) \/ WLateCompletion(r)
      PROVE  Rests
  BY <1>3, <1>4 DEF WRelease, WComplete, WLateCompletion, workerVars, Rests
<1>5. ASSUME NEW r \in Request, WFail(r) \/ WLateFailure(r)
      PROVE  Rests \/ Reports(r)
  <2>1. mem' = mem \/ Fails(r)
    BY <1>5 DEF WFail, WLateFailure, RecordFailure, Fails
  <2>2. QED
    BY <1>5, <2>1 DEF WFail, WLateFailure, Rests, Reports
<1>6. ASSUME NEW r \in Request, WReset(r)
      PROVE  Rests \/ Reopens(r)
  <2>1. mem' = mem \/ Resets(r)
    BY <1>6 DEF WReset, ResetCircuit, Resets, Returned
  <2>2. QED
    BY <1>6, <2>1 DEF WReset, Rests, Reopens
<1>7. WTick => Rests
  BY DEF WTick, Tick, workerVars, Rests
<1>8. (UNCHANGED allVars) => Rests
  BY DEF allVars, Rests
<1>9. QED
  BY <1>1, <1>2, <1>4, <1>5, <1>6, <1>7, <1>8 DEF WNext

\* The workers add nothing to what the coordinator does.
LEMMA WorkersCallTheCoordinator == [WNext]_allVars => [Next]_vars
<1>1. ASSUME NEW r \in Request,
             \/ WDispatch(r) \/ WAcquireLock(r) \/ WRelease(r) \/ WComplete(r)
             \/ WFail(r) \/ WLateFailure(r) \/ WLateCompletion(r) \/ WReset(r)
      PROVE  Next
  BY <1>1 DEF WDispatch, WAcquireLock, WRelease, WComplete, WFail, WLateFailure,
              WLateCompletion, WReset, Next
<1>2. QED
  BY <1>1 DEF WNext, WTick, Next, allVars, vars

-----------------------------------------------------------------------------
(***************************************************************************)
(* The inductive invariant of the workers.  Runs are counted against the    *)
(* failures of the receipt: one run may be under way while the receipt is   *)
(* accepted, none while it waits, and how long it waits was fixed when the  *)
(* failure was recorded.  And what a worker runs, or completed, is on       *)
(* record as accepted until somebody else reports its failure.              *)
(***************************************************************************)
RunsCounted(k) ==
  /\ mem.byKey[k] = NoReceipt => runs[k] = 0
  /\ mem.byKey[k] # NoReceipt =>
       CASE mem.byKey[k].status = "accepted"     -> runs[k] <= mem.byKey[k].failures + 1
         [] mem.byKey[k].status = "backoff"      -> runs[k] <= mem.byKey[k].failures
         [] mem.byKey[k].status = "circuit_open" -> runs[k] <= FailureThreshold

\* A failure opens a backoff window that is short by at most MaxWait.
WindowLong(k) ==
  mem.byKey[k] # NoReceipt /\ mem.byKey[k].status = "backoff" =>
    mem.byKey[k].retryAt + MaxWait >= failedAt[k] + Delay(mem.byKey[k].failures)

OnRecord(r) == Recorded(mem, r) /\ mem.byKey[r.key].status = "accepted"

WorkersInv ==
  /\ runs \in [Key -> Nat]
  /\ failedAt \in [Key -> Int]
  /\ \A k \in Key : RunsCounted(k) /\ WindowLong(k)
  /\ running \subseteq Request
  /\ completed \subseteq Request
  /\ \A r \in (running \cup completed) \ late : OnRecord(r)
  /\ CompletedNotRunAgain

LEMMA InitWorkersInv == WInit => WorkersInv
BY DEF WInit, Init, EmptyMemory, WorkersInv, RunsCounted, WindowLong, CompletedNotRunAgain

\* A receipt that is filed leaves the receipts of other keys alone.
LEMMA FilesOneKey ==
  ASSUME Sound(mem), NEW r \in Request, NEW x, Files(r, x)
  PROVE  /\ r.key \in Key
         /\ mem'.byKey[r.key] = x
         /\ \A k \in Key \ {r.key} : mem'.byKey[k] = mem.byKey[k]
BY RequestFields DEF Files, Sound, Memory

LEMMA StartsKeepsInv ==
  ASSUME Sound(mem), clock \in Int, WorkersInv, NEW r \in Request, Starts(r)
  PROVE  WorkersInv'
<1> DEFINE x == AcceptReceipt(mem, r)
<1>1. /\ Files(r, x)
      /\ \/ mem.byKey[r.key] = NoReceipt
         \/ Recorded(mem, r) /\ mem.byKey[r.key].status = "backoff"
  BY AcceptsFiles DEF Starts
<1>2. /\ r.key \in Key
      /\ mem'.byKey[r.key] = x
      /\ \A k \in Key \ {r.key} : mem'.byKey[k] = mem.byKey[k]
  BY <1>1, FilesOneKey
<1>3. x # NoReceipt /\ x.request = r /\ x.status = "accepted"
  BY <1>1, NoneAssumption DEF Files, AcceptReceipt, NewReceipt
<1>4. /\ mem.byKey[r.key] = NoReceipt => x.failures = 0
      /\ mem.byKey[r.key] # NoReceipt => x.failures = mem.byKey[r.key].failures
  BY DEF AcceptReceipt, NewReceipt
<1>5. mem.byKey[r.key] # NoReceipt => mem.byKey[r.key].failures \in Int
  BY <1>2, BoundsAssumption DEF Sound, Memory, Receipt
<1>6. runs' \in [Key -> Nat] /\ runs'[r.key] = runs[r.key] + 1
  BY <1>2 DEF WorkersInv, Starts
<1>7. ASSUME NEW k \in Key PROVE RunsCounted(k)'
  <2>1. CASE k # r.key
    <3>1. runs'[k] = runs[k] /\ mem'.byKey[k] = mem.byKey[k]
      BY <1>2, <2>1 DEF WorkersInv, Starts
    <3>2. QED
      BY <3>1 DEF WorkersInv, RunsCounted
  <2>2. CASE k = r.key
    <3>1. runs[k] <= x.failures
      <4>1. RunsCounted(r.key)
        BY <1>2 DEF WorkersInv
      <4>2. CASE mem.byKey[r.key] = NoReceipt
        BY <1>4, <2>2, <4>1, <4>2 DEF RunsCounted
      <4>3. CASE mem.byKey[r.key] # NoReceipt /\ mem.byKey[r.key].status = "backoff"
        <5>1. runs[r.key] <= mem.byKey[r.key].failures
          BY <4>1, <4>3 DEF RunsCounted
        <5>2. QED
          BY <1>4, <2>2, <4>3, <5>1
      <4>4. QED
        BY <1>1, <4>2, <4>3 DEF Recorded
    <3>2. runs[k] \in Int /\ x.failures \in Int
      BY <1>2, <1>4, <1>5, <2>2 DEF WorkersInv
    <3>3. runs'[k] <= x.failures + 1
      BY <1>6, <2>2, <3>1, <3>2
    <3>4. QED
      BY <1>2, <1>3, <2>2, <3>3 DEF RunsCounted
  <2>3. QED
    BY <2>1, <2>2
\* Who else is on record has another key, and r itself was not.
<1>8. ASSUME NEW s \in (running \cup completed) \ late PROVE s.key \in Key \ {r.key}
  <2>1. s \in Request /\ OnRecord(s)
    BY <1>8 DEF WorkersInv
  <2>2. QED
    BY <1>1, <2>1, RequestFields DEF OnRecord, Recorded
<1>9. ASSUME NEW s \in (running' \cup completed') \ late' PROVE OnRecord(s)'
  <2>1. CASE s = r
    BY <1>2, <1>3, <2>1 DEF OnRecord, Recorded
  <2>2. CASE s # r
    <3>1. s \in (running \cup completed) \ late
      BY <2>2, <1>9 DEF Starts
    <3>2. QED
      BY <1>2, <1>8, <3>1 DEF WorkersInv, OnRecord, Recorded
  <2>3. QED
    BY <2>1, <2>2
<1>10. CompletedNotRunAgain'
  <2>1. r \in completed => r \in late
    BY <1>8
  <2>2. QED
    BY <2>1 DEF WorkersInv, CompletedNotRunAgain, Starts
<1>11. ASSUME NEW k \in Key PROVE WindowLong(k)'
  <2>1. CASE k = r.key
    BY <1>2, <1>3, <2>1 DEF WindowLong
  <2>2. CASE k # r.key
    BY <1>2, <2>2 DEF WorkersInv, WindowLong, Starts
  <2>3. QED
    BY <2>1, <2>2
<1>12. QED
  BY <1>6, <1>7, <1>9, <1>10, <1>11 DEF WorkersInv, Starts

LEMMA ReportsKeepsInv ==
  ASSUME Sound(mem), clock \in Int, WorkersInv, NEW r \in Request, Reports(r)
  PROVE  WorkersInv'
<1> PICK t \in Readings : mem' = FailDispatch(mem, r, t)
  BY DEF Reports, Fails
<1>0. t \in Int /\ t + MaxWait >= clock
  BY TimeAssumption DEF Readings
<1> DEFINE old == mem.byKey[r.key]
           x == FailureReceipt(r, old.failures + 1, t)
<1>1. /\ r.key \in Key
      /\ mem'.byKey[r.key] = x
      /\ \A k \in Key \ {r.key} : mem'.byKey[k] = mem.byKey[k]
  <2>1. Recorded(mem, r) /\ old.failures + 1 \in 1 .. FailureLimit
    BY FailsFiles DEF Reports
  <2>2. x \in Receipt /\ x.request = r
    BY <1>0, <2>1, FailureReceiptSound
  <2>3. Files(r, x)
    BY <2>2 DEF FailDispatch, SetLock, Bind, Files
  <2>4. QED
    BY <2>3, FilesOneKey
<1>2. Recorded(mem, r)
  BY FailsFiles DEF Reports
<1>3. /\ old \in Receipt /\ old.failures \in Int
      /\ old.status \in {"accepted", "backoff", "circuit_open"}
      /\ old.status = "circuit_open" <=> old.failures >= FailureThreshold
  BY <1>1, <1>2, BoundsAssumption DEF Recorded, Sound, Memory, Receipt, BreakerAgreesIn
<1>4. /\ x # NoReceipt
      /\ x.failures = old.failures + 1
      /\ x.status = IF old.failures + 1 >= FailureThreshold THEN "circuit_open" ELSE "backoff"
      /\ x.status = "backoff" => x.retryAt = t + Delay(old.failures + 1)
  <2>1. x \in Receipt
    BY <1>0, FailsFiles, FailureReceiptSound DEF Reports
  <2>2. x # NoReceipt
    BY <2>1, NoneAssumption
  <2>3. QED
    BY <2>2 DEF FailureReceipt, NewReceipt
<1> HIDE DEF x
<1>5. ASSUME NEW k \in Key PROVE RunsCounted(k)'
  <2>1. runs'[k] = runs[k] /\ runs[k] \in Int
    BY DEF WorkersInv, Reports
  <2>2. CASE k # r.key
    BY <1>1, <2>1, <2>2 DEF WorkersInv, RunsCounted
  <2>3. CASE k = r.key
    <3>1. FailureThreshold \in Int
      BY BoundsAssumption
    <3>2. /\ old.status = "accepted" => runs[k] <= old.failures + 1
          /\ old.status = "backoff" => runs[k] <= old.failures
          /\ old.status = "circuit_open" => runs[k] <= FailureThreshold
      BY <1>2, <2>3 DEF WorkersInv, RunsCounted, Recorded
    <3>3. /\ runs[k] <= old.failures + 1
          /\ runs[k] <= FailureThreshold
      BY <1>3, <2>1, <3>1, <3>2
    <3>4. QED
      BY <1>1, <1>4, <2>1, <2>3, <3>3 DEF RunsCounted
  <2>4. QED
    BY <2>2, <2>3
\* The failed request is out: its worker stopped, or it is late now.
<1>6. ASSUME NEW s \in (running' \cup completed') \ late'
      PROVE  s \in (running \cup completed) \ late /\ s # r
  BY <1>6 DEF WorkersInv, Reports, CompletedNotRunAgain
<1>7. ASSUME NEW s \in (running' \cup completed') \ late' PROVE OnRecord(s)'
  <2>1. s \in Request /\ OnRecord(s) /\ s # r
    BY <1>6, <1>7 DEF WorkersInv
  <2>2. s.key \in Key \ {r.key}
    BY <1>2, <2>1, RequestFields DEF OnRecord, Recorded
  <2>3. QED
    BY <1>1, <2>1, <2>2 DEF OnRecord, Recorded
<1>8. failedAt' = [failedAt EXCEPT ![r.key] = clock]
  <2>1. mem' # mem
    BY <1>1, <1>3, <1>4
  <2>2. QED
    BY <2>1 DEF Reports
<1>9. ASSUME NEW k \in Key PROVE WindowLong(k)'
  <2>1. CASE k = r.key
    <3>1. SUFFICES ASSUME x.status = "backoff"
                   PROVE  x.retryAt + MaxWait >= clock + Delay(x.failures)
      BY <1>1, <1>8, <2>1 DEF WorkersInv, WindowLong
    <3>2. x.retryAt = t + Delay(x.failures) /\ Delay(x.failures) \in Int
      <4>1. x.failures \in 1 .. FailureLimit
        BY <1>4, FailsFiles DEF Reports
      <4>2. QED
        BY <1>4, <3>1, <4>1, DelayInt
    <3>3. QED
      BY <1>0, <3>2, TimeAssumption
  <2>2. CASE k # r.key
    BY <1>1, <1>8, <2>2 DEF WorkersInv, WindowLong
  <2>3. QED
    BY <2>1, <2>2
<1>10. QED
  BY <1>5, <1>7, <1>8, <1>9 DEF WorkersInv, Reports, CompletedNotRunAgain

LEMMA ReopensKeepsInv ==
  ASSUME Sound(mem), WorkersInv, NEW r \in Request, Reopens(r)
  PROVE  WorkersInv'
<1> DEFINE x == NewReceipt(r, "accepted", 0, 0, "circuit reset")
<1>1. /\ r.key \in Key
      /\ mem'.byKey[r.key] = x
      /\ \A k \in Key \ {r.key} : mem'.byKey[k] = mem.byKey[k]
  BY ResetsFiles, FilesOneKey DEF Reopens
<1>2. x.request = r /\ x.status = "accepted" /\ x.failures = 0 /\ x # NoReceipt
  BY ResetsFiles, NoneAssumption DEF Reopens, Files, NewReceipt
<1> HIDE DEF x
<1>3. Recorded(mem, r) /\ mem.byKey[r.key].status = "circuit_open"
  BY DEF Reopens, Resets
<1>4. runs' \in [Key -> Nat] /\ runs'[r.key] = 0
  BY <1>1 DEF WorkersInv, Reopens
<1>5. ASSUME NEW k \in Key PROVE RunsCounted(k)'
  <2>1. CASE k # r.key
    <3>1. runs'[k] = runs[k] /\ mem'.byKey[k] = mem.byKey[k]
      BY <1>1, <2>1 DEF WorkersInv, Reopens
    <3>2. QED
      BY <3>1 DEF WorkersInv, RunsCounted
  <2>2. CASE k = r.key
    <3>1. runs'[k] <= x.failures + 1
      BY <1>2, <1>4, <2>2
    <3>2. QED
      BY <1>1, <1>2, <2>2, <3>1 DEF RunsCounted
  <2>3. QED
    BY <2>1, <2>2
<1>6. ASSUME NEW s \in (running \cup completed) \ late PROVE OnRecord(s)'
  <2>1. s \in Request /\ OnRecord(s)
    BY <1>6 DEF WorkersInv
  <2>2. s.key \in Key \ {r.key}
    BY <1>3, <2>1, RequestFields DEF OnRecord
  <2>3. QED
    BY <1>1, <2>1, <2>2 DEF OnRecord, Recorded
<1>7. ASSUME NEW k \in Key PROVE WindowLong(k)'
  BY <1>1, <1>2 DEF WorkersInv, WindowLong, Reopens
<1>8. QED
  BY <1>4, <1>5, <1>6, <1>7 DEF WorkersInv, Reopens, CompletedNotRunAgain

LEMMA RestsKeepsInv == ASSUME WorkersInv, Rests PROVE WorkersInv'
<1>1. \A k \in Key : RunsCounted(k)' /\ WindowLong(k)'
  BY DEF WorkersInv, Rests, RunsCounted, WindowLong
<1>2. \A s \in (running' \cup completed') \ late' : OnRecord(s)'
  BY DEF WorkersInv, Rests, OnRecord, Recorded
<1>3. QED
  BY <1>1, <1>2 DEF WorkersInv, Rests, CompletedNotRunAgain

\* The invariant holds throughout, for every behaviour of the workers.
THEOREM WorkersInvariant == WSpec => [](CoordinatorInv /\ WorkersInv)
<1>1. WInit => CoordinatorInv /\ WorkersInv
  BY InitInv, InitWorkersInv DEF WInit
<1>2. CoordinatorInv /\ WorkersInv /\ [WNext]_allVars => (CoordinatorInv /\ WorkersInv)'
  <2> SUFFICES ASSUME CoordinatorInv, WorkersInv, [WNext]_allVars
               PROVE  CoordinatorInv' /\ WorkersInv'
    OBVIOUS
  <2>1. CoordinatorInv'
    BY StepInv, WorkersCallTheCoordinator
  <2>2. Sound(mem) /\ clock \in Int
    BY InvSound
  <2>3. WorkersInv'
    BY <2>2, WorkerStepShape, RestsKeepsInv, StartsKeepsInv, ReportsKeepsInv, ReopensKeepsInv
  <2>4. QED
    BY <2>1, <2>3
<1>3. QED
  BY <1>1, <1>2, PTL DEF WSpec

(***************************************************************************)
(* RunsWithinBreaker, for all executions: whoever reports failures, and in  *)
(* whatever order, no dispatch is run more than FailureThreshold times      *)
(* before somebody resets its circuit.                                      *)
(***************************************************************************)
THEOREM RunsStayWithinBreaker == WSpec => []RunsWithinBreaker
<1>1. CoordinatorInv /\ WorkersInv => RunsWithinBreaker
  <2> SUFFICES ASSUME CoordinatorInv, WorkersInv, NEW k \in Key
               PROVE  runs[k] <= FailureThreshold
    BY DEF RunsWithinBreaker
  <2>1. runs[k] \in Nat /\ FailureThreshold \in Nat
    BY BoundsAssumption DEF WorkersInv
  <2>2. RunsCounted(k)
    BY DEF WorkersInv
  <2>3. CASE mem.byKey[k] = NoReceipt
    BY <2>1, <2>2, <2>3 DEF RunsCounted
  <2>4. CASE mem.byKey[k] # NoReceipt
    <3>1. /\ mem.byKey[k].failures \in Int
          /\ mem.byKey[k].status \in {"accepted", "backoff", "circuit_open"}
          /\ mem.byKey[k].status = "circuit_open" <=> mem.byKey[k].failures >= FailureThreshold
      BY <2>4, InvSound, BoundsAssumption DEF Sound, Memory, Receipt, BreakerAgreesIn
    <3>2. /\ mem.byKey[k].status = "accepted" => runs[k] <= mem.byKey[k].failures + 1
          /\ mem.byKey[k].status = "backoff" => runs[k] <= mem.byKey[k].failures
          /\ mem.byKey[k].status = "circuit_open" => runs[k] <= FailureThreshold
      BY <2>2, <2>4 DEF RunsCounted
    <3>3. QED
      BY <2>1, <3>1, <3>2
  <2>5. QED
    BY <2>3, <2>4
<1>2. QED
  BY <1>1, WorkersInvariant, PTL

(***************************************************************************)
(* CompletedNotRunAgain, for all executions: the receipt of a completed     *)
(* dispatch keeps it from being run again, whatever else is called, until   *)
(* somebody other than its worker reports a failure of it.                  *)
(***************************************************************************)
THEOREM CompletedStaysCompleted == WSpec => []CompletedNotRunAgain
<1>1. WorkersInv => CompletedNotRunAgain
  BY DEF WorkersInv
<1>2. QED
  BY <1>1, WorkersInvariant, PTL

(***************************************************************************)
(* OneRunPerKeyAndEvent, for all executions: a worker is never started      *)
(* beside another one of the same key or the same event, except beside one  *)
(* whose failure was reported behind its back.                              *)
(***************************************************************************)
THEOREM RunsAreExclusive == WSpec => OneRunPerKeyAndEvent
<1> DEFINE Exclusive == runs # runs' /\ receipt'.op = "dispatch" => StartedAlone(receipt'.request)
<1>1. CoordinatorInv /\ WorkersInv /\ [WNext]_allVars => [Exclusive]_allVars
  <2> SUFFICES ASSUME CoordinatorInv, WorkersInv, [WNext]_allVars,
                      runs # runs', receipt'.op = "dispatch", NEW s \in running \ late
               PROVE  s.key # receipt'.request.key /\ s.event # receipt'.request.event
    BY DEF StartedAlone
  <2>1. Sound(mem) /\ clock \in Int
    BY InvSound
  <2>2. PICK r \in Request : Starts(r)
    <3>1. ~Rests
      BY DEF Rests
    <3>2. \A r \in Request : ~Reports(r) /\ ~Reopens(r)
      BY DEF Reports, Reopens, Resets
    <3>3. QED
      BY <3>1, <3>2, WorkerStepShape
  <2>3. \/ mem.byKey[r.key] = NoReceipt /\ mem.byEvent[r.event] = NoReceipt
        \/ Recorded(mem, r) /\ mem.byKey[r.key].status = "backoff"
    BY <2>1, <2>2, AcceptsFiles DEF Starts
  <2>4. s \in Request /\ s.key \in Key /\ OnRecord(s)
    BY RequestFields DEF WorkersInv
  <2>5. mem.byKey[s.key] # NoReceipt /\ mem.byKey[s.key].request = s /\ mem.byKey[s.key].status = "accepted"
    BY <2>4 DEF OnRecord, Recorded
  <2>6. mem.byEvent[s.event] = mem.byKey[s.key]
    BY <2>1, <2>4, <2>5 DEF Sound, IndexesAgreeIn
  <2>7. Recorded(mem, r) => mem.byEvent[r.event] = mem.byKey[r.key]
    BY <2>1, RequestFields DEF Sound, IndexesAgreeIn, Recorded
  <2>8. s.key # r.key /\ s.event # r.event
    BY <2>3, <2>5, <2>6, <2>7
  <2>9. QED
    BY <2>2, <2>8 DEF Starts
<1>2. QED
  BY <1>1, WorkersInvariant, PTL DEF WSpec, OneRunPerKeyAndEvent

(***************************************************************************)
(* RetryAfterBackoff, for all executions: whatever the backoff and however  *)
(* the callers' clocks lag within MaxWait, no retry starts before the delay *)
(* that belongs to the failure count has passed since the failure.          *)
(***************************************************************************)
THEOREM RetriesWaitForBackoff == WSpec => RetryAfterBackoff
<1> DEFINE Waited ==
      \A k \in Key : runs'[k] > runs[k] /\ mem.byKey[k] # NoReceipt =>
        clock + MaxWait >= failedAt[k] + Delay(mem.byKey[k].failures)
<1>1. CoordinatorInv /\ WorkersInv /\ [WNext]_allVars => [Waited]_allVars
  <2> SUFFICES ASSUME CoordinatorInv, WorkersInv, [WNext]_allVars,
                      NEW k \in Key, runs'[k] > runs[k], mem.byKey[k] # NoReceipt
               PROVE  clock + MaxWait >= failedAt[k] + Delay(mem.byKey[k].failures)
    OBVIOUS
  <2> DEFINE old == mem.byKey[k]
  <2>1. Sound(mem) /\ clock \in Int /\ runs[k] \in Nat
    BY InvSound DEF WorkersInv
  <2>2. PICK r \in Request : Starts(r) /\ r.key = k
    <3>1. ~Rests
      BY <2>1 DEF Rests
    <3>2. \A r \in Request : ~Reports(r) /\ ~Reopens(r)
      BY <2>1 DEF Reports, Reopens, WorkersInv
    <3>3. PICK r \in Request : Starts(r)
      BY <3>1, <3>2, WorkerStepShape
    <3>4. r.key = k
      BY <2>1, <3>3 DEF Starts, WorkersInv
    <3>5. QED
      BY <3>3, <3>4
  <2>3. Recorded(mem, r) /\ old.status = "backoff"
    BY <2>1, <2>2, AcceptsFiles DEF Starts
  <2>4. PICK t \in Readings : \E ok \in Authorizations(r, t) :
          DispatchVerdict(mem, r, ok, t) = "accepted"
    BY <2>2 DEF Starts, Accepts
  <2>5. old.retryAt \in Int /\ old.failures \in 1 .. FailureLimit
    BY <2>1, <2>3, BoundsAssumption DEF Sound, Memory, Receipt, BreakerAgreesIn
  <2>6. t \in Int /\ t <= clock /\ t >= old.retryAt
    <3>1. t \in Int /\ t <= clock
      BY <2>1 DEF Readings
    <3>2. ASSUME t < old.retryAt PROVE FALSE
      <4>1. \A ok : DispatchVerdict(mem, r, ok, t) = "backoff"
        BY <2>2, <2>3, <2>5, <3>1, <3>2 DEF DispatchVerdict, RepeatVerdict, Recorded
      <4>2. QED
        BY <2>4, <4>1
    <3>3. QED
      BY <2>5, <3>1, <3>2
  <2>7. old.retryAt + MaxWait >= failedAt[k] + Delay(old.failures)
    BY <2>3 DEF WorkersInv, WindowLong
  <2>8. failedAt[k] \in Int /\ Delay(old.failures) \in Int /\ MaxWait \in Int
    BY <2>5, DelayInt, TimeAssumption DEF WorkersInv
  <2>9. QED
    BY <2>1, <2>5, <2>6, <2>7, <2>8
<1>2. QED
  BY <1>1, WorkersInvariant, PTL DEF WSpec, RetryAfterBackoff
===============================================================================
