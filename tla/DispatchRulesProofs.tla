------------------------- MODULE DispatchRulesProofs -------------------------
(***************************************************************************)
(* Lemmas about the rules of module DispatchRules: every change a rule      *)
(* makes to a sound memory gives a sound memory.                            *)
(***************************************************************************)
EXTENDS DispatchRules, TLAPS

Sound(m) ==
  /\ m \in Memory
  /\ IndexesAgreeIn(m)
  /\ \A k \in Key : BreakerAgreesIn(m.byKey[k])

\* A request has a key and an event.
LEMMA RequestFields ==
  ASSUME NEW r \in Request
  PROVE  r.key \in Key /\ r.event \in Event /\ r.action \in Action
BY RequestAssumption

\* The memory a coordinator starts with is sound.
LEMMA EmptyMemorySound == Sound(EmptyMemory)
BY DEF Sound, EmptyMemory, Memory, IndexesAgreeIn, BreakerAgreesIn

\* Locks do not touch the receipts.
LEMMA SetLockSound ==
  ASSUME NEW m, Sound(m), NEW k \in Key, NEW lock \in Request \cup {NoLock}
  PROVE  Sound(SetLock(m, k, lock))
<1> DEFINE new == SetLock(m, k, lock)
<1>1. new.byKey = m.byKey /\ new.byEvent = m.byEvent
  BY DEF SetLock
<1>2. new \in Memory
  BY DEF SetLock, Sound, Memory
<1>3. QED
  <2> HIDE DEF new
  <2>1. Sound(new)
    BY <1>1, <1>2 DEF Sound, IndexesAgreeIn, BreakerAgreesIn
  <2>2. QED
    BY <2>1 DEF new

\* A receipt is well filed if its key and event are both new, or both its own.
LEMMA BindSound ==
  ASSUME NEW m, Sound(m), NEW x \in Receipt, BreakerAgreesIn(x),
         \/ Recorded(m, x.request)
         \/ m.byKey[x.request.key] = NoReceipt /\ m.byEvent[x.request.event] = NoReceipt
  PROVE  Sound(Bind(m, x))
<1> DEFINE new == Bind(m, x)
           xk == x.request.key
           xe == x.request.event
<1>1. x.request \in Request /\ xk \in Key /\ xe \in Event
  BY RequestFields DEF Receipt
<1>2. /\ m.byKey \in [Key -> Receipt \cup {NoReceipt}]
      /\ m.byEvent \in [Event -> Receipt \cup {NoReceipt}]
      /\ m.locks \in [Key -> Request \cup {NoLock}]
  BY DEF Sound, Memory
<1>3. /\ new.byKey = [m.byKey EXCEPT ![xk] = x]
      /\ new.byEvent = [m.byEvent EXCEPT ![xe] = x]
      /\ new.locks = m.locks
  BY DEF Bind
<1>4. new \in Memory
  BY <1>1, <1>2 DEF Bind, Memory
<1>5. /\ \A k \in Key : new.byKey[k] = IF k = xk THEN x ELSE m.byKey[k]
      /\ \A e \in Event : new.byEvent[e] = IF e = xe THEN x ELSE m.byEvent[e]
  BY <1>1, <1>2, <1>3
<1>6. \A k \in Key : BreakerAgreesIn(new.byKey[k])
  BY <1>5 DEF Sound
<1>7. x # NoReceipt
  BY NoneAssumption
<1>8. \A k \in Key : (k # xk /\ m.byKey[k] # NoReceipt) => m.byKey[k].request.event # xe
  <2> SUFFICES ASSUME NEW k \in Key, k # xk, m.byKey[k] # NoReceipt,
                      m.byKey[k].request.event = xe
               PROVE  FALSE
    OBVIOUS
  <2>1. m.byEvent[xe] = m.byKey[k] /\ m.byKey[k].request.key = k
    BY DEF Sound, IndexesAgreeIn
  <2>2. CASE Recorded(m, x.request)
    <3>1. m.byKey[xk] # NoReceipt /\ m.byKey[xk].request = x.request
      BY <2>2 DEF Recorded
    <3>2. m.byEvent[xe] = m.byKey[xk] /\ m.byKey[xk].request.key = xk
      BY <3>1, <1>1 DEF Sound, IndexesAgreeIn
    <3>3. QED
      BY <3>2, <2>1
  <2>3. CASE m.byKey[xk] = NoReceipt /\ m.byEvent[xe] = NoReceipt
    BY <2>1, <2>3
  <2>4. QED
    BY <2>2, <2>3
<1>9. \A e \in Event : (e # xe /\ m.byEvent[e] # NoReceipt) => m.byEvent[e].request.key # xk
  <2> SUFFICES ASSUME NEW e \in Event, e # xe, m.byEvent[e] # NoReceipt,
                      m.byEvent[e].request.key = xk
               PROVE  FALSE
    OBVIOUS
  <2>1. m.byKey[xk] = m.byEvent[e] /\ m.byEvent[e].request.event = e
    BY DEF Sound, IndexesAgreeIn
  <2>2. CASE Recorded(m, x.request)
    BY <2>1, <2>2 DEF Recorded
  <2>3. CASE m.byKey[xk] = NoReceipt /\ m.byEvent[xe] = NoReceipt
    BY <2>1, <2>3
  <2>4. QED
    BY <2>2, <2>3
<1>10. \A k \in Key : new.byKey[k] # NoReceipt =>
         /\ new.byKey[k].request.key = k
         /\ new.byEvent[new.byKey[k].request.event] = new.byKey[k]
  <2> SUFFICES ASSUME NEW k \in Key, new.byKey[k] # NoReceipt
               PROVE  /\ new.byKey[k].request.key = k
                      /\ new.byEvent[new.byKey[k].request.event] = new.byKey[k]
    OBVIOUS
  <2> HIDE DEF new
  <2>1. CASE k = xk
    BY <1>1, <1>5, <2>1
  <2>2. CASE k # xk
    <3>1. new.byKey[k] = m.byKey[k]
      BY <1>5, <2>2
    <3>2. /\ m.byKey[k].request.key = k
          /\ m.byEvent[m.byKey[k].request.event] = m.byKey[k]
      BY <3>1 DEF Sound, IndexesAgreeIn
    <3>3. m.byKey[k].request.event \in Event /\ m.byKey[k].request.event # xe
      BY <3>1, <1>2, <1>8, <2>2, RequestFields DEF Receipt
    <3>4. QED
      BY <3>1, <3>2, <3>3, <1>5
  <2>3. QED
    BY <2>1, <2>2
<1>11. \A e \in Event : new.byEvent[e] # NoReceipt =>
         /\ new.byEvent[e].request.event = e
         /\ new.byKey[new.byEvent[e].request.key] = new.byEvent[e]
  <2> SUFFICES ASSUME NEW e \in Event, new.byEvent[e] # NoReceipt
               PROVE  /\ new.byEvent[e].request.event = e
                      /\ new.byKey[new.byEvent[e].request.key] = new.byEvent[e]
    OBVIOUS
  <2> HIDE DEF new
  <2>1. CASE e = xe
    BY <1>1, <1>5, <2>1
  <2>2. CASE e # xe
    <3>1. new.byEvent[e] = m.byEvent[e]
      BY <1>5, <2>2
    <3>2. /\ m.byEvent[e].request.event = e
          /\ m.byKey[m.byEvent[e].request.key] = m.byEvent[e]
      BY <3>1 DEF Sound, IndexesAgreeIn
    <3>3. m.byEvent[e].request.key \in Key /\ m.byEvent[e].request.key # xk
      BY <3>1, <1>2, <1>9, <2>2, RequestFields DEF Receipt
    <3>4. QED
      BY <3>1, <3>2, <3>3, <1>5
  <2>3. QED
    BY <2>1, <2>2
<1>12. QED
  <2> HIDE DEF new
  <2>1. IndexesAgreeIn(new)
    BY <1>10, <1>11 DEF IndexesAgreeIn
  <2>2. Sound(new)
    BY <2>1, <1>4, <1>6 DEF Sound
  <2>3. QED
    BY <2>2 DEF new

-----------------------------------------------------------------------------
\* What a dispatch that is accepted knows about its request.
LEMMA AcceptedRequest ==
  ASSUME NEW m, NEW r \in Request, NEW ok \in BOOLEAN, NEW t \in Int, Sound(m),
         DispatchVerdict(m, r, ok, t) = "accepted"
  PROVE  \/ m.byKey[r.key] = NoReceipt /\ m.byEvent[r.event] = NoReceipt
         \/ Recorded(m, r) /\ m.byKey[r.key].status = "backoff"
<1>1. r.key \in Key /\ r.event \in Event
  BY RequestFields
<1>2. CASE m.byKey[r.key] = NoReceipt
  <2>1. FreshVerdict(m.byEvent[r.event], m.locks[r.key], r, ok) = "accepted"
    BY <1>2 DEF DispatchVerdict
  <2>2. QED
    BY <1>2, <2>1 DEF FreshVerdict
<1>3. CASE m.byKey[r.key] # NoReceipt /\ m.byKey[r.key].request = r
  <2>1. RepeatVerdict(m.byKey[r.key], ok, t) = "accepted"
    BY <1>3 DEF DispatchVerdict
  <2>2. m.byKey[r.key].status \in {"accepted", "backoff", "circuit_open"}
    BY <1>1, <1>3 DEF Sound, Memory, Receipt
  <2>3. QED
    BY <1>3, <2>1, <2>2 DEF RepeatVerdict, Recorded
<1>4. CASE m.byKey[r.key] # NoReceipt /\ m.byKey[r.key].request # r
  BY <1>4 DEF DispatchVerdict
<1>5. QED
  BY <1>2, <1>3, <1>4

\* Only what is authorised is accepted.
LEMMA AcceptedAuthorized ==
  ASSUME NEW m, NEW r \in Request, NEW ok \in BOOLEAN, NEW t \in Int, Sound(m),
         DispatchVerdict(m, r, ok, t) = "accepted"
  PROVE  ok
<1>1. r.key \in Key /\ r.event \in Event
  BY RequestFields
<1>2. CASE m.byKey[r.key] = NoReceipt
  <2>1. FreshVerdict(m.byEvent[r.event], m.locks[r.key], r, ok) = "accepted"
    BY <1>2 DEF DispatchVerdict
  <2>2. QED
    BY <2>1 DEF FreshVerdict
<1>3. CASE m.byKey[r.key] # NoReceipt /\ m.byKey[r.key].request = r
  <2>1. RepeatVerdict(m.byKey[r.key], ok, t) = "accepted"
    BY <1>3 DEF DispatchVerdict
  <2>2. m.byKey[r.key].status \in {"accepted", "backoff", "circuit_open"}
        /\ m.byKey[r.key].retryAt \in Int
    BY <1>1, <1>3 DEF Sound, Memory, Receipt
  <2>3. QED
    BY <1>3, <2>1, <2>2 DEF RepeatVerdict
<1>4. CASE m.byKey[r.key] # NoReceipt /\ m.byKey[r.key].request # r
  BY <1>4 DEF DispatchVerdict
<1>5. QED
  BY <1>2, <1>3, <1>4

\* A new receipt that is accepted with fewer failures than the threshold.
LEMMA NewReceiptSound ==
  ASSUME NEW r \in Request, NEW failures \in 0 .. FailureLimit, failures < FailureThreshold,
         NEW reason \in Reason
  PROVE  /\ NewReceipt(r, "accepted", failures, 0, reason) \in Receipt
         /\ NewReceipt(r, "accepted", failures, 0, reason).request = r
         /\ BreakerAgreesIn(NewReceipt(r, "accepted", failures, 0, reason))
<1> DEFINE x == NewReceipt(r, "accepted", failures, 0, reason)
<1>1. x \in Receipt
  BY BoundsAssumption DEF NewReceipt, Receipt
<1>2. x.request = r /\ x.status = "accepted" /\ x.failures = failures
  BY DEF NewReceipt
<1>3. BreakerAgreesIn(x)
  <2> HIDE DEF x
  <2>1. QED
    BY <1>2, BoundsAssumption DEF BreakerAgreesIn
<1>4. QED
  BY <1>1, <1>2, <1>3

\* A dispatch without failures is below the threshold.
LEMMA NoFailures == 0 \in 0 .. FailureLimit /\ 0 < FailureThreshold
BY BoundsAssumption

\* A retry keeps the failure count of the receipt it follows.
LEMMA AcceptReceiptSound ==
  ASSUME NEW m, NEW r \in Request, Sound(m),
         \/ m.byKey[r.key] = NoReceipt
         \/ Recorded(m, r) /\ m.byKey[r.key].status = "backoff"
  PROVE  /\ AcceptReceipt(m, r) \in Receipt
         /\ AcceptReceipt(m, r).request = r
         /\ BreakerAgreesIn(AcceptReceipt(m, r))
<1>1. r.key \in Key
  BY RequestFields
<1>2. CASE m.byKey[r.key] = NoReceipt
  <2>1. "dispatch accepted" \in Reason
    BY DEF Reason
  <2>2. AcceptReceipt(m, r) = NewReceipt(r, "accepted", 0, 0, "dispatch accepted")
    BY <1>2 DEF AcceptReceipt
  <2>3. QED
    BY <2>1, <2>2, NoFailures, NewReceiptSound
<1>3. CASE m.byKey[r.key] # NoReceipt
  <2> DEFINE old == m.byKey[r.key]
  <2>1. old \in Receipt /\ old.status = "backoff" /\ BreakerAgreesIn(old)
    BY <1>1, <1>3 DEF Sound, Memory
  <2>2. old.failures \in 0 .. FailureLimit /\ old.failures < FailureThreshold
    BY <1>3, <2>1, BoundsAssumption DEF BreakerAgreesIn, Receipt
  <2>3. AcceptReceipt(m, r) = NewReceipt(r, "accepted", old.failures, 0, "bounded retry")
    BY <1>3 DEF AcceptReceipt
  <2>4. QED
    <3> HIDE DEF old
    <3>1. "bounded retry" \in Reason
      BY DEF Reason
    <3>2. QED
      BY <3>1, <2>2, <2>3, NewReceiptSound
<1>4. QED
  BY <1>2, <1>3

\* An accepted dispatch leaves a sound memory.
LEMMA AcceptDispatchSound ==
  ASSUME NEW m, NEW r \in Request, NEW ok \in BOOLEAN, NEW t \in Int, Sound(m),
         DispatchVerdict(m, r, ok, t) = "accepted"
  PROVE  Sound(AcceptDispatch(m, r))
<1>1. r.key \in Key
  BY RequestFields
<1>2. Sound(Bind(m, AcceptReceipt(m, r)))
  BY AcceptedRequest, AcceptReceiptSound, BindSound
<1>3. QED
  BY <1>1, <1>2, SetLockSound DEF AcceptDispatch

\* The delay before a retry is an integer.
LEMMA DelayInt ==
  ASSUME NEW failures \in 1 .. FailureLimit
  PROVE  Delay(failures) \in Int
<1>1. 2 ^ (failures - 1) \in Int
  BY BoundsAssumption
<1>2. QED
  BY <1>1, BoundsAssumption DEF Delay

\* One more failure gives a receipt whose status agrees with the new count.
LEMMA FailureReceiptSound ==
  ASSUME NEW r \in Request, NEW failures \in 1 .. FailureLimit, NEW t \in Int
  PROVE  /\ FailureReceipt(r, failures, t) \in Receipt
         /\ FailureReceipt(r, failures, t).request = r
         /\ FailureReceipt(r, failures, t).failures = failures
         /\ BreakerAgreesIn(FailureReceipt(r, failures, t))
<1>1. t + Delay(failures) \in Int
  BY DelayInt
<1>2. QED
  BY <1>1, BoundsAssumption DEF FailureReceipt, NewReceipt, Receipt, Reason, BreakerAgreesIn

\* What is known of a request that is on record.
LEMMA RecordedRequest ==
  ASSUME NEW m, NEW r \in Request, Sound(m), Recorded(m, r)
  PROVE  /\ r.key \in Key /\ r.event \in Event
         /\ m.byKey[r.key] \in Receipt
         /\ m.byKey[r.key].failures \in 0 .. FailureLimit
BY RequestFields DEF Recorded, Sound, Memory, Receipt

\* A failure report leaves a sound memory.
LEMMA FailDispatchSound ==
  ASSUME NEW m, NEW r \in Request, NEW t \in Int, Sound(m), Recorded(m, r),
         m.byKey[r.key].failures # FailureLimit
  PROVE  Sound(FailDispatch(m, r, t))
<1> DEFINE failures == m.byKey[r.key].failures + 1
<1>1. r.key \in Key /\ failures \in 1 .. FailureLimit
  BY RecordedRequest, BoundsAssumption
<1>2. Sound(Bind(m, FailureReceipt(r, failures, t)))
  <2> HIDE DEF failures
  <2>1. QED
    BY <1>1, FailureReceiptSound, BindSound
<1>3. QED
  BY <1>1, <1>2, SetLockSound DEF FailDispatch

\* A completion leaves a sound memory.
LEMMA CompleteDispatchSound ==
  ASSUME NEW m, NEW r \in Request, Sound(m)
  PROVE  Sound(CompleteDispatch(m, r))
BY RequestFields, SetLockSound DEF CompleteDispatch

\* A reset leaves a sound memory.
LEMMA ResetDispatchSound ==
  ASSUME NEW m, NEW r \in Request, Sound(m), Recorded(m, r)
  PROVE  Sound(ResetDispatch(m, r))
<1> DEFINE x == NewReceipt(r, "accepted", 0, 0, "circuit reset")
<1>1. x \in Receipt /\ x.request = r /\ BreakerAgreesIn(x)
  <2>1. "circuit reset" \in Reason
    BY DEF Reason
  <2>2. QED
    BY <2>1, NoFailures, NewReceiptSound
<1>2. Sound(Bind(m, x))
  <2> HIDE DEF x
  <2>1. QED
    BY <1>1, BindSound
<1>3. QED
  BY <1>2 DEF ResetDispatch
=============================================================================
