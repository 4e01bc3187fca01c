---------------------------- MODULE DispatchRules ----------------------------
(***************************************************************************)
(* The rules of the dispatch coordinator (src/scheduler.py): what a request *)
(* is, when it is authorised, what a call decides from the coordinator's    *)
(* memory, and what the decision does to that memory.  Both coordinators,   *)
(* the in-memory one and the one with a SQLite journal, use these rules.    *)
(*                                                                         *)
(* A request hash is a SHA-256 digest of the whole request, so two requests *)
(* have the same hash exactly when they are the same request: a lock, which *)
(* the code keeps as a hash, is kept here as the request.                   *)
(***************************************************************************)
EXTENDS Integers

CONSTANTS
  Key,               \* idempotency keys
  Event,             \* event identities
  Plan,              \* proposal plans (their hashes)
  Attempt,           \* attempt numbers a request may carry
  Signer,            \* identity and review digest behind an approval
  Request,           \* the requests callers make
  Token,             \* the approval tokens that exist
  NoReceipt, NoLock, NoToken, NoPlan, NoSigner,
  FailureThreshold,  \* failures that open the circuit
  FailureLimit,      \* largest failure_count a receipt can hold (1000)
  BaseBackoff, MaxBackoff

Action == {"proposal", "push", "create_pr", "merge_main"}

ASSUME RequestAssumption ==
  Request \subseteq [key : Key, event : Event, plan : Plan,
                     action : Action, attempt : Attempt]

ASSUME TokenAssumption ==
  Token \subseteq [scope : {"proposal", "push", "create_pr"}, plan : Plan,
                   signer : Signer, from : Nat, until : Nat]

ASSUME BoundsAssumption ==
  /\ FailureLimit \in Nat \ {0}
  /\ FailureThreshold \in 1 .. FailureLimit
  /\ BaseBackoff \in Nat \ {0}
  /\ MaxBackoff \in Nat \ {0}
  /\ BaseBackoff <= MaxBackoff

Status == {"accepted", "deduplicated", "locked", "backoff", "circuit_open", "rejected"}

\* "raised" stands for a call that ends in an exception and returns no receipt.
Outcome == Status \cup {"raised"}

Reason == {"dispatch accepted", "bounded retry", "failure", "circuit reset"}

\* retryAt is read only while the status is "backoff"; 0 stands for None.
Receipt == [request : Request, status : {"accepted", "backoff", "circuit_open"},
            failures : 0 .. FailureLimit, retryAt : Int,
            reason : Reason]

\* How a receipt looks to module Admission.
AdmittedAs == [request : Request, phase : {"active", "waiting", "stopped"},
              failures : 0 .. FailureLimit]

ASSUME NoneAssumption ==
  /\ NoReceipt \notin Receipt
  /\ NoReceipt \notin AdmittedAs
  /\ NoLock \notin Request

\* What one coordinator object holds: its two indexes of receipts and its locks.
Memory == [byKey : [Key -> Receipt \cup {NoReceipt}],
           byEvent : [Event -> Receipt \cup {NoReceipt}],
           locks : [Key -> Request \cup {NoLock}]]

EmptyMemory == [byKey |-> [k \in Key |-> NoReceipt],
                byEvent |-> [e \in Event |-> NoReceipt],
                locks |-> [k \in Key |-> NoLock]]

(***************************************************************************)
(* Authorisation of one request at time t with the token, the proposal      *)
(* plan and the signer the caller presents (each of them may be missing).   *)
(***************************************************************************)
\* Mistaken: forgets that a token is for one scope.
TokenCoversAnyScope(r, token, signer, t) ==
  /\ token # NoToken
  /\ token.plan = r.plan
  /\ signer \in {NoSigner, token.signer}
  /\ token.from <= t
  /\ t < token.until

TokenCovers(r, token, signer, t) ==
  /\ token # NoToken
  /\ token.plan = r.plan
  /\ token.scope = r.action
  /\ signer \in {NoSigner, token.signer}
  /\ token.from <= t
  /\ t < token.until

Authorized(r, token, plan, signer, t) ==
  /\ plan \in {NoPlan, r.plan}
  /\ r.action # "merge_main"
  /\ \/ r.action = "proposal"
     \/ plan # NoPlan /\ TokenCovers(r, token, signer, t)

\* Whatever callers can present, what it comes to: TRUE, FALSE or either.
Authorizations(r, t) ==
  {ok \in BOOLEAN :
     \E token \in Token \cup {NoToken}, plan \in Plan \cup {NoPlan},
        signer \in Signer \cup {NoSigner} : ok <=> Authorized(r, token, plan, signer, t)}

(***************************************************************************)
(* What dispatch decides.  ok says whether the call is authorised.          *)
(***************************************************************************)
SamePayload(r, s) == <<r.plan, r.action, r.attempt>> = <<s.plan, s.action, s.attempt>>

\* Mistaken: a circuit closes by itself when somebody tries again.
RepeatVerdictHalfOpen(receipt, ok, t) ==
  CASE receipt.status = "accepted" -> "deduplicated"
    [] receipt.status = "backoff" /\ t < receipt.retryAt -> "backoff"
    [] receipt.status = "circuit_open" \/ (receipt.status = "backoff" /\ t >= receipt.retryAt) ->
         IF ok THEN "accepted" ELSE "rejected"

\* Mistaken: does not wait for the backoff to pass.
RepeatVerdictImpatient(receipt, ok, t) ==
  CASE receipt.status = "circuit_open" -> "circuit_open"
    [] receipt.status = "accepted" -> "deduplicated"
    [] receipt.status = "backoff" -> IF ok THEN "accepted" ELSE "rejected"

\* Mistaken: takes an accepted receipt for one that may be accepted again.
RepeatVerdictAgain(receipt, ok, t) ==
  CASE receipt.status = "circuit_open" -> "circuit_open"
    [] receipt.status = "backoff" /\ t < receipt.retryAt -> "backoff"
    [] receipt.status = "accepted" \/ (receipt.status = "backoff" /\ t >= receipt.retryAt) ->
         IF ok THEN "accepted" ELSE "rejected"

\* The key is known and bound to this very request.
RepeatVerdict(receipt, ok, t) ==
  CASE receipt.status = "circuit_open" -> "circuit_open"
    [] receipt.status = "accepted" -> "deduplicated"
    [] receipt.status = "backoff" /\ t < receipt.retryAt -> "backoff"
    [] receipt.status = "backoff" /\ t >= receipt.retryAt -> IF ok THEN "accepted" ELSE "rejected"

\* Mistaken: deduplicates by key only.
FreshVerdictByKey(seen, lock, r, ok) ==
  CASE lock # NoLock -> IF lock = r THEN "locked" ELSE "rejected"
    [] lock = NoLock -> IF ok THEN "accepted" ELSE "rejected"

\* The key is new; the event or the lock may not be.
FreshVerdict(seen, lock, r, ok) ==
  CASE seen # NoReceipt -> IF SamePayload(seen.request, r) THEN "deduplicated" ELSE "rejected"
    [] seen = NoReceipt /\ lock # NoLock -> IF lock = r THEN "locked" ELSE "rejected"
    [] seen = NoReceipt /\ lock = NoLock -> IF ok THEN "accepted" ELSE "rejected"

\* Mistaken: does not compare the request with the one its key is bound to.
DispatchVerdictAnyRequest(m, r, ok, t) ==
  CASE m.byKey[r.key] = NoReceipt -> FreshVerdict(m.byEvent[r.event], m.locks[r.key], r, ok)
    [] m.byKey[r.key] # NoReceipt -> RepeatVerdict(m.byKey[r.key], ok, t)

DispatchVerdict(m, r, ok, t) ==
  CASE m.byKey[r.key] = NoReceipt -> FreshVerdict(m.byEvent[r.event], m.locks[r.key], r, ok)
    [] m.byKey[r.key] # NoReceipt /\ m.byKey[r.key].request = r ->
         RepeatVerdict(m.byKey[r.key], ok, t)
    [] m.byKey[r.key] # NoReceipt /\ m.byKey[r.key].request # r -> "rejected"

\* The request is the one its key is bound to.
Recorded(m, r) == m.byKey[r.key] # NoReceipt /\ m.byKey[r.key].request = r

(***************************************************************************)
(* What the decisions do to the memory.                                     *)
(***************************************************************************)
\* Mistaken: leaves the old receipt in the event index.
BindKeyOnly(m, receipt) ==
  [byKey |-> [m.byKey EXCEPT ![receipt.request.key] = receipt],
   byEvent |-> IF m.byEvent[receipt.request.event] = NoReceipt
               THEN [m.byEvent EXCEPT ![receipt.request.event] = receipt] ELSE m.byEvent,
   locks |-> m.locks]

Bind(m, receipt) ==
  [byKey |-> [m.byKey EXCEPT ![receipt.request.key] = receipt],
   byEvent |-> [m.byEvent EXCEPT ![receipt.request.event] = receipt],
   locks |-> m.locks]

SetLock(m, k, lock) ==
  [byKey |-> m.byKey, byEvent |-> m.byEvent, locks |-> [m.locks EXCEPT ![k] = lock]]

NewReceipt(r, status, failures, retryAt, reason) ==
  [request |-> r, status |-> status, failures |-> failures,
   retryAt |-> retryAt, reason |-> reason]

\* Mistaken: a retry starts with a clean failure count.
AcceptReceiptClean(m, r) ==
  IF m.byKey[r.key] = NoReceipt
  THEN NewReceipt(r, "accepted", 0, 0, "dispatch accepted")
  ELSE NewReceipt(r, "accepted", 0, 0, "bounded retry")

\* A retry keeps the failure count.  Neither branch looks at who holds the lock.
AcceptReceipt(m, r) ==
  IF m.byKey[r.key] = NoReceipt
  THEN NewReceipt(r, "accepted", 0, 0, "dispatch accepted")
  ELSE NewReceipt(r, "accepted", m.byKey[r.key].failures, 0, "bounded retry")

AcceptDispatch(m, r) == SetLock(Bind(m, AcceptReceipt(m, r)), r.key, r)

\* min(max_backoff_seconds, base_backoff_seconds * 2 ** (failures - 1))
Delay(failures) ==
  LET exponential == BaseBackoff * 2 ^ (failures - 1)
  IN  IF exponential < MaxBackoff THEN exponential ELSE MaxBackoff

\* Mistaken: off by one at the threshold.
FailureReceiptLate(r, failures, t) ==
  IF failures > FailureThreshold
  THEN NewReceipt(r, "circuit_open", failures, 0, "failure")
  ELSE NewReceipt(r, "backoff", failures, t + Delay(failures), "failure")

FailureReceipt(r, failures, t) ==
  IF failures >= FailureThreshold
  THEN NewReceipt(r, "circuit_open", failures, 0, "failure")
  ELSE NewReceipt(r, "backoff", failures, t + Delay(failures), "failure")

FailDispatch(m, r, t) ==
  SetLock(Bind(m, FailureReceipt(r, m.byKey[r.key].failures + 1, t)), r.key, NoLock)

CompleteDispatch(m, r) == SetLock(m, r.key, NoLock)

ResetDispatch(m, r) == Bind(m, NewReceipt(r, "accepted", 0, 0, "circuit reset"))

(***************************************************************************)
(* What a memory must never lose: both indexes hold the same receipts, each *)
(* under its own key and event; and a receipt's status agrees with its      *)
(* failure count.                                                           *)
(***************************************************************************)
IndexesAgreeIn(m) ==
  /\ \A k \in Key : m.byKey[k] # NoReceipt =>
       /\ m.byKey[k].request.key = k
       /\ m.byEvent[m.byKey[k].request.event] = m.byKey[k]
  /\ \A e \in Event : m.byEvent[e] # NoReceipt =>
       /\ m.byEvent[e].request.event = e
       /\ m.byKey[m.byEvent[e].request.key] = m.byEvent[e]

BreakerAgreesIn(kept) ==
  kept # NoReceipt =>
    /\ kept.status = "circuit_open" <=> kept.failures >= FailureThreshold
    /\ kept.status = "backoff" => kept.failures > 0

\* The receipts by key as the states of module Admission.
Phase(status) ==
  CASE status = "accepted" -> "active"
    [] status = "backoff" -> "waiting"
    [] status = "circuit_open" -> "stopped"

AdmissionOf(kept) ==
  [request |-> kept.request, phase |-> Phase(kept.status), failures |-> kept.failures]

AdmissionsOf(byKey) ==
  [k \in Key |-> IF byKey[k] = NoReceipt THEN NoReceipt ELSE AdmissionOf(byKey[k])]

=============================================================================
