------------------------ MODULE DispatchJournalProofs ------------------------
(***************************************************************************)
(* Theorems about module DispatchJournal: crashes at any time, appends that *)
(* are refused, restarts, for every choice of the constants.                *)
(***************************************************************************)
EXTENDS DispatchJournal, DispatchRulesProofs, SequenceTheorems

\* The keys that kept binds, later binds to the same requests.
BindsOn(kept, later) ==
  \A k \in Key : kept[k] # NoReceipt =>
    later[k] # NoReceipt /\ later[k].request = kept[k].request

JournalTypeOK ==
  /\ mems \in [Proc -> Memory \cup {Down}]
  /\ journal \in Seq(Row)

\* The last row is the snapshot of a memory that a coordinator may have.
JournalInv ==
  /\ JournalTypeOK
  /\ \A p \in Proc : mems[p] # Down => Sound(mems[p])
  /\ \E m \in Memory : Sound(m) /\ LastRow = Snapshot(m)

\* The memory of an open coordinator has all that was journalled, or more.
Ahead == \A p \in Proc : mems[p] # Down => BindsOn(LastRow.byKey, mems[p].byKey)

\* Of the coordinators on one journal one is open at a time.
OneOpen == \A p, q \in Proc : (mems[p] # Down /\ mems[q] # Down) => p = q

-----------------------------------------------------------------------------
\* The event index that is rebuilt from the receipts is the one they were filed in.
LEMMA RestoreSnapshot ==
  ASSUME NEW m \in Memory, Sound(m)
  PROVE  Restore(Snapshot(m)) = m
<1> DEFINE row == Snapshot(m)
           rebuilt(e) == IF FiledUnder(row, e) = {} THEN NoReceipt
                         ELSE row.byKey[CHOOSE k \in FiledUnder(row, e) : TRUE]
<1>1. row.byKey = m.byKey /\ row.locks = m.locks
  BY DEF Snapshot
<1>2. ASSUME NEW e \in Event PROVE rebuilt(e) = m.byEvent[e]
  <2>1. ASSUME NEW k \in FiledUnder(row, e) PROVE m.byEvent[e] = m.byKey[k]
    BY <2>1, <1>1 DEF FiledUnder, Sound, IndexesAgreeIn
  <2>2. ASSUME FiledUnder(row, e) = {} PROVE m.byEvent[e] = NoReceipt
    <3> SUFFICES ASSUME m.byEvent[e] # NoReceipt PROVE FALSE
      OBVIOUS
    <3> DEFINE k == m.byEvent[e].request.key
    <3>1. m.byEvent[e] \in Receipt
      BY DEF Memory
    <3>2. k \in Key /\ m.byKey[k] = m.byEvent[e] /\ m.byEvent[e].request.event = e
      BY <3>1, RequestFields DEF Sound, IndexesAgreeIn, Receipt
    <3>3. k \in FiledUnder(row, e)
      BY <3>2, <1>1 DEF FiledUnder
    <3>4. QED
      BY <3>3, <2>2
  <2>3. CASE FiledUnder(row, e) = {}
    BY <2>2, <2>3
  <2>4. CASE FiledUnder(row, e) # {}
    BY <2>1, <2>4, <1>1
  <2>5. QED
    BY <2>3, <2>4
<1>3. [e \in Event |-> rebuilt(e)] = m.byEvent
  BY <1>2 DEF Memory
<1>4. Restore(row) = [byKey |-> m.byKey, byEvent |-> m.byEvent, locks |-> m.locks]
  BY <1>1, <1>3 DEF Restore
<1>5. QED
  BY <1>4 DEF Memory

\* What a receipt is filed for stays bound to what it was bound to.
LEMMA BindBindsOn ==
  ASSUME NEW m \in Memory, NEW x \in Receipt,
         m.byKey[x.request.key] = NoReceipt \/ Recorded(m, x.request)
  PROVE  BindsOn(m.byKey, Bind(m, x).byKey)
<1>1. x.request.key \in Key
  BY RequestFields DEF Receipt
<1>2. m.byKey \in [Key -> Receipt \cup {NoReceipt}]
  BY DEF Memory
<1>3. Bind(m, x).byKey = [m.byKey EXCEPT ![x.request.key] = x]
  BY DEF Bind
<1>4. QED
  BY <1>1, <1>2, <1>3, NoneAssumption DEF BindsOn, Recorded

\* Locks bind nothing.
LEMMA SetLockBindsOn ==
  ASSUME NEW m, NEW k, NEW lock PROVE SetLock(m, k, lock).byKey = m.byKey
BY DEF SetLock

-----------------------------------------------------------------------------
(***************************************************************************)
(* The three kinds of step: a coordinator is opened, stops, or changes its  *)
(* memory to a sound one that binds what it bound before.                   *)
(***************************************************************************)
Changed(p, m) ==
  /\ mems[p] # Down /\ m \in Memory /\ Sound(m)
  /\ BindsOn(mems[p].byKey, m.byKey)
  /\ Persist(p, m)

LEMMA DispatchChanges ==
  ASSUME JournalInv, NEW p \in Proc, NEW r \in Request, Dispatch(p, r)
  PROVE  \E m : Changed(p, m)
<1> DEFINE m == mems[p]
           x == AcceptReceipt(m, r)
<1>1. PICK t \in Times, ok \in BOOLEAN : DispatchVerdict(m, r, ok, t) = "accepted"
  BY DEF Dispatch, Authorizations
<1>2. m # Down /\ m \in Memory /\ Sound(m) /\ Persist(p, AcceptDispatch(m, r)) /\ t \in Int
  BY JournalAssumption DEF Dispatch, JournalInv, JournalTypeOK, Times
<1>3. Sound(AcceptDispatch(m, r))
  BY <1>1, <1>2, AcceptDispatchSound
<1>4. m.byKey[r.key] = NoReceipt \/ (Recorded(m, r) /\ m.byKey[r.key].status = "backoff")
  BY <1>1, <1>2, AcceptedRequest
<1>5. x \in Receipt /\ x.request = r
  BY <1>2, <1>4, AcceptReceiptSound
<1>6. BindsOn(m.byKey, Bind(m, x).byKey)
  BY <1>2, <1>4, <1>5, BindBindsOn
<1>7. BindsOn(m.byKey, AcceptDispatch(m, r).byKey)
  BY <1>6, SetLockBindsOn DEF AcceptDispatch
<1>8. QED
  BY <1>2, <1>3, <1>7 DEF Changed, Sound

LEMMA AcquireLockChanges ==
  ASSUME JournalInv, NEW p \in Proc, NEW r \in Request, AcquireLock(p, r)
  PROVE  \E m : Changed(p, m)
<1> DEFINE m == mems[p]
<1>1. m # Down /\ Sound(m) /\ Persist(p, SetLock(m, r.key, r))
  BY DEF AcquireLock, JournalInv
<1>2. Sound(SetLock(m, r.key, r))
  BY <1>1, SetLockSound, RequestFields
<1>3. QED
  BY <1>1, <1>2, SetLockBindsOn DEF Changed, Sound, BindsOn

LEMMA CompleteChanges ==
  ASSUME JournalInv, NEW p \in Proc, NEW r \in Request, Complete(p, r)
  PROVE  \E m : Changed(p, m)
<1> DEFINE m == mems[p]
<1>1. m # Down /\ Sound(m) /\ Persist(p, CompleteDispatch(m, r))
  BY DEF Complete, JournalInv
<1>2. Sound(CompleteDispatch(m, r))
  BY <1>1, CompleteDispatchSound
<1>3. BindsOn(m.byKey, CompleteDispatch(m, r).byKey)
  BY SetLockBindsOn DEF CompleteDispatch, BindsOn
<1>4. QED
  BY <1>1, <1>2, <1>3 DEF Changed, Sound

LEMMA RecordFailureChanges ==
  ASSUME JournalInv, NEW p \in Proc, NEW r \in Request, RecordFailure(p, r)
  PROVE  \E m : Changed(p, m)
<1> DEFINE m == mems[p]
           n == m.byKey[r.key].failures + 1
<1>1. PICK t \in Times : Persist(p, FailDispatch(m, r, t))
  BY DEF RecordFailure
<1>2. /\ m # Down /\ m \in Memory /\ Sound(m) /\ Recorded(m, r) /\ t \in Int
      /\ m.byKey[r.key].failures < FailureLimit
  BY JournalAssumption DEF RecordFailure, JournalInv, JournalTypeOK, Times
<1>3. m.byKey[r.key].failures \in 0 .. FailureLimit /\ n \in 1 .. FailureLimit
  BY <1>2, RecordedRequest, BoundsAssumption
<1>4. Sound(FailDispatch(m, r, t))
  BY <1>2, <1>3, BoundsAssumption, FailDispatchSound
<1>5. FailureReceipt(r, n, t) \in Receipt /\ FailureReceipt(r, n, t).request = r
  BY <1>2, <1>3, FailureReceiptSound
<1> HIDE DEF n
<1>6. BindsOn(m.byKey, Bind(m, FailureReceipt(r, n, t)).byKey)
  BY <1>2, <1>5, BindBindsOn
<1>7. BindsOn(m.byKey, FailDispatch(m, r, t).byKey)
  BY <1>6, SetLockBindsOn DEF FailDispatch, n
<1>8. QED
  BY <1>1, <1>2, <1>4, <1>7 DEF Changed, Sound

LEMMA ResetCircuitChanges ==
  ASSUME JournalInv, NEW p \in Proc, NEW r \in Request, ResetCircuit(p, r)
  PROVE  \E m : Changed(p, m)
<1> DEFINE m == mems[p]
           x == NewReceipt(r, "accepted", 0, 0, "circuit reset")
<1>1. m # Down /\ m \in Memory /\ Sound(m) /\ Recorded(m, r) /\ Persist(p, ResetDispatch(m, r))
  BY DEF ResetCircuit, JournalInv, JournalTypeOK
<1>2. Sound(ResetDispatch(m, r))
  BY <1>1, ResetDispatchSound
<1>3. x \in Receipt /\ x.request = r
  BY NoFailures, NewReceiptSound DEF Reason
<1> HIDE DEF x
<1>4. BindsOn(m.byKey, Bind(m, x).byKey)
  BY <1>1, <1>3, BindBindsOn
<1>5. QED
  BY <1>1, <1>2, <1>4 DEF Changed, Sound, ResetDispatch, x

LEMMA StepKinds ==
  ASSUME JournalInv, Next
  PROVE  \E p \in Proc : Open(p) \/ Crash(p) \/ \E m : Changed(p, m)
BY DispatchChanges, AcquireLockChanges, CompleteChanges, RecordFailureChanges,
   ResetCircuitChanges DEF Next

-----------------------------------------------------------------------------
\* The journal after a change: the last row is the new memory's, or none was added.
LEMMA PersistEffect ==
  ASSUME JournalInv, NEW p \in Proc, NEW m, Changed(p, m)
  PROVE  /\ JournalTypeOK' /\ mems' = [mems EXCEPT ![p] = m] /\ mems'[p] = m
         /\ \/ journal' = journal /\ LastRow' = LastRow
            \/ journal' # journal /\ LastRow' = Snapshot(m)
<1>1. /\ mems \in [Proc -> Memory \cup {Down}] /\ journal \in Seq(Row) /\ m \in Memory
      /\ mems' = [mems EXCEPT ![p] = m]
      /\ journal' \in {Append(journal, Snapshot(m)), journal}
  BY DEF Changed, Persist, JournalInv, JournalTypeOK
<1>2. Snapshot(m) \in Row
  BY <1>1 DEF Snapshot, Row, Memory
<1>3. CASE journal' = journal
  BY <1>1, <1>3 DEF JournalTypeOK, LastRow
<1>4. CASE journal' = Append(journal, Snapshot(m))
  <2>1. /\ journal' \in Seq(Row) /\ Len(journal') = Len(journal) + 1 /\ Len(journal) \in Nat
        /\ journal'[Len(journal) + 1] = Snapshot(m)
    BY <1>1, <1>2, <1>4, AppendProperties, LenProperties
  <2>2. journal' # <<>> /\ journal' # journal
    BY <2>1, EmptySeq
  <2>3. LastRow' = Snapshot(m)
    BY <2>1, <2>2 DEF LastRow
  <2>4. QED
    BY <1>1, <2>1, <2>2, <2>3 DEF JournalTypeOK
<1>5. QED
  BY <1>1, <1>3, <1>4

LEMMA OpenEffect ==
  ASSUME JournalInv, NEW p \in Proc, Open(p)
  PROVE  \E m \in Memory : /\ Sound(m) /\ LastRow = Snapshot(m)
                           /\ mems' = [mems EXCEPT ![p] = m] /\ journal' = journal
<1>1. PICK m \in Memory : Sound(m) /\ LastRow = Snapshot(m)
  BY DEF JournalInv
<1>2. Restore(LastRow) = m
  BY <1>1, RestoreSnapshot
<1>3. QED
  BY <1>1, <1>2 DEF Open

LEMMA JournalInitial == Init => JournalInv /\ Ahead
<1> SUFFICES ASSUME Init PROVE JournalInv /\ Ahead
  OBVIOUS
<1>1. JournalTypeOK /\ \A p \in Proc : mems[p] = Down
  <2>1. <<>> \in Seq(Row)
    OBVIOUS
  <2>2. QED
    BY <2>1 DEF Init, JournalTypeOK
<1>2. LastRow = Snapshot(EmptyMemory) /\ EmptyMemory \in Memory /\ Sound(EmptyMemory)
  BY EmptyMemorySound DEF Init, LastRow, EmptyRow, Sound
<1>3. QED
  BY <1>1, <1>2 DEF JournalInv, Ahead

LEMMA JournalStep ==
  ASSUME JournalInv, [Next]_vars
  PROVE  JournalInv'
<1>1. CASE UNCHANGED vars
  BY <1>1 DEF vars, JournalInv, JournalTypeOK, LastRow
<1>2. CASE Next
  <2>1. PICK p \in Proc : Open(p) \/ Crash(p) \/ \E m : Changed(p, m)
    BY <1>2, StepKinds
  <2>2. mems \in [Proc -> Memory \cup {Down}] /\ journal \in Seq(Row)
    BY DEF JournalInv, JournalTypeOK
  <2>3. CASE Open(p)
    <3>1. PICK m \in Memory : /\ Sound(m) /\ LastRow = Snapshot(m)
                              /\ mems' = [mems EXCEPT ![p] = m] /\ journal' = journal
      BY <2>3, OpenEffect
    <3>2. LastRow' = LastRow
      BY <3>1 DEF LastRow
    <3>3. QED
      BY <2>2, <3>1, <3>2 DEF JournalInv, JournalTypeOK
  <2>4. CASE Crash(p)
    <3>1. mems' = [mems EXCEPT ![p] = Down] /\ journal' = journal /\ LastRow' = LastRow
      BY <2>4 DEF Crash, LastRow
    <3>2. QED
      BY <2>2, <3>1 DEF JournalInv, JournalTypeOK
  <2>5. CASE \E m : Changed(p, m)
    <3>1. PICK m : Changed(p, m)
      BY <2>5
    <3>2. /\ JournalTypeOK' /\ mems' = [mems EXCEPT ![p] = m] /\ m \in Memory /\ Sound(m)
          /\ LastRow' = LastRow \/ LastRow' = Snapshot(m)
      BY <3>1, PersistEffect DEF Changed
    <3>3. QED
      BY <2>2, <3>2 DEF JournalInv
  <2>6. QED
    BY <2>1, <2>3, <2>4, <2>5
<1>3. QED
  BY <1>1, <1>2

\* The last row is always the snapshot of a sound memory, and so is what is restored.
THEOREM JournalInvariant == Spec => []JournalInv
<1>1. JournalInv /\ [Next]_vars => JournalInv'
  BY JournalStep
<1>2. QED
  BY <1>1, JournalInitial, PTL DEF Spec

\* Opening the journal after an append (_apply_snapshot) gives back the very
\* memory that was appended, for any requests, tokens and bounds.
THEOREM RestoresLoseNothing == Spec => RestoreLossless
<1>1. ASSUME JournalInv, [Next]_vars
      PROVE  [\A p \in Proc : (journal' # journal /\ mems'[p] # mems[p]) =>
                mems'[p] = Restore(LastRow')]_vars
  <2> SUFFICES ASSUME Next, NEW q \in Proc, journal' # journal, mems'[q] # mems[q]
               PROVE  mems'[q] = Restore(LastRow')
    BY <1>1
  <2>1. PICK p \in Proc : Open(p) \/ Crash(p) \/ \E m : Changed(p, m)
    BY <1>1, StepKinds
  <2>2. PICK m : Changed(p, m)
    BY <2>1 DEF Open, Crash
  <2>3. mems' = [mems EXCEPT ![p] = m] /\ mems'[p] = m /\ LastRow' = Snapshot(m)
    BY <1>1, <2>2, PersistEffect
  <2>4. q = p
    BY <2>3, <1>1 DEF JournalInv, JournalTypeOK
  <2>5. Restore(Snapshot(m)) = m
    BY <2>2, RestoreSnapshot DEF Changed
  <2>6. QED
    BY <2>3, <2>4, <2>5
<1>2. QED
  BY <1>1, JournalInvariant, PTL DEF Spec, RestoreLossless

-----------------------------------------------------------------------------
(***************************************************************************)
(* One coordinator at a time.  Its memory is never behind the journal, so a *)
(* row that it appends never drops an admission.                            *)
(***************************************************************************)
LEMMA BindsOnTransitive ==
  ASSUME NEW a, NEW b, NEW c, BindsOn(a, b), BindsOn(b, c) PROVE BindsOn(a, c)
BY DEF BindsOn

LEMMA StepKeepsAdmissions ==
  ASSUME OneOpen, JournalInv, Ahead, Next
  PROVE  Ahead' /\ BindsOn(LastRow.byKey, LastRow'.byKey)
<1>1. PICK p \in Proc : Open(p) \/ Crash(p) \/ \E m : Changed(p, m)
  BY StepKinds
<1>2. /\ mems \in [Proc -> Memory \cup {Down}]
      /\ \A kept : BindsOn(kept, kept)
  BY DEF JournalInv, JournalTypeOK, BindsOn
<1>3. CASE Open(p)
  <2>1. PICK m \in Memory : /\ LastRow = Snapshot(m)
                            /\ mems' = [mems EXCEPT ![p] = m] /\ journal' = journal
    BY <1>3, OpenEffect
  <2>2. LastRow' = LastRow /\ LastRow.byKey = m.byKey
    BY <2>1 DEF LastRow, Snapshot
  <2>3. \A q \in Proc : mems'[q] = IF q = p THEN m ELSE mems[q]
    BY <2>1, <1>2
  <2>4. QED
    BY <2>2, <2>3, <1>2 DEF Ahead
<1>4. CASE Crash(p)
  <2>1. LastRow' = LastRow /\ \A q \in Proc : mems'[q] = IF q = p THEN Down ELSE mems[q]
    BY <1>2, <1>4 DEF Crash, LastRow
  <2>2. QED
    BY <2>1, <1>2 DEF Ahead
<1>5. CASE \E m : Changed(p, m)
  <2>1. PICK m : Changed(p, m)
    BY <1>5
  <2>2. BindsOn(LastRow.byKey, m.byKey)
    BY <2>1, BindsOnTransitive DEF Changed, Ahead
  <2>3. mems' = [mems EXCEPT ![p] = m] /\ (LastRow' = LastRow \/ LastRow' = Snapshot(m))
    BY <2>1, PersistEffect
  <2>4. LastRow'.byKey = LastRow.byKey \/ LastRow'.byKey = m.byKey
    BY <2>3 DEF Snapshot
  <2>5. \A q \in Proc : mems'[q] = m \/ mems'[q] = Down
    BY <2>1, <2>3, <1>2 DEF Changed, OneOpen
  <2>6. QED
    BY <2>2, <2>4, <2>5, <1>2 DEF Ahead
<1>6. QED
  BY <1>1, <1>3, <1>4, <1>5

\* However coordinators crash, are refused an append and are opened again, while
\* no two are open at once, an admission that was journalled is in every later
\* row, bound to its request.
THEOREM AdmissionsAreKept == Spec /\ []OneOpen => AdmissionKept
<1>1. OneOpen /\ JournalInv /\ Ahead /\ [Next]_vars => Ahead'
  <2> SUFFICES ASSUME OneOpen, JournalInv, Ahead, [Next]_vars PROVE Ahead'
    OBVIOUS
  <2>1. CASE UNCHANGED vars
    BY <2>1 DEF vars, Ahead, LastRow
  <2>2. CASE Next
    BY <2>2, StepKeepsAdmissions
  <2>3. QED
    BY <2>1, <2>2
<1>2. OneOpen /\ JournalInv /\ Ahead /\ [Next]_vars =>
        [\A k \in Key : LastRow.byKey[k] # NoReceipt =>
           /\ LastRow'.byKey[k] # NoReceipt
           /\ LastRow'.byKey[k].request = LastRow.byKey[k].request]_vars
  BY StepKeepsAdmissions DEF BindsOn
<1>3. QED
  BY <1>1, <1>2, JournalInitial, JournalInvariant, PTL DEF Spec, AdmissionKept

-----------------------------------------------------------------------------
(***************************************************************************)
(* What the loader refuses of an undamaged journal.  Receipts are filed     *)
(* under their own events, so of two checks only the one of locks can fail, *)
(* and only acquire_lock takes a lock for another request than the recorded *)
(* one: every other call takes the lock for the request that it records,    *)
(* frees the lock, or changes neither lock nor recorded request.            *)
(***************************************************************************)
LocksFit(m) ==
  \A k \in Key : (m.byKey[k] # NoReceipt /\ m.locks[k] # NoLock) =>
    m.locks[k] = m.byKey[k].request

Replayable ==
  /\ Loadable
  /\ \A p \in Proc : mems[p] # Down => LocksFit(mems[p])

\* acquire_lock for a key that is not recorded, or for the recorded request.
LocksAsRecorded ==
  \A p \in Proc, r \in Request : AcquireLock(p, r) =>
    mems[p].byKey[r.key] = NoReceipt \/ Recorded(mems[p], r)

\* The snapshot of a sound memory whose locks fit can be loaded.
LEMMA FittingIsValid ==
  ASSUME NEW m \in Memory, Sound(m), LocksFit(m)
  PROVE  RowValid(Snapshot(m))
<1>1. Snapshot(m).byKey = m.byKey /\ Snapshot(m).locks = m.locks
  BY DEF Snapshot
<1>2. \A k \in Key : m.byKey[k] # NoReceipt =>
        m.byEvent[m.byKey[k].request.event] = m.byKey[k] /\ m.byKey[k].request.key = k
  BY DEF Sound, IndexesAgreeIn
<1>3. QED
  BY <1>1, <1>2 DEF RowValid, LocksFit

\* Taking the lock of a key for the request that is recorded, or freeing it, fits.
LEMMA SetLockFits ==
  ASSUME NEW m \in Memory, NEW k \in Key, NEW lock, LocksFit(m),
         \/ lock = NoLock \/ m.byKey[k] = NoReceipt \/ lock = m.byKey[k].request
  PROVE  LocksFit(SetLock(m, k, lock))
<1>1. m.locks \in [Key -> Request \cup {NoLock}]
  BY DEF Memory
<1>2. QED
  BY <1>1 DEF SetLock, LocksFit

\* Filing a receipt fits when the lock of its key is taken for its request or free.
LEMMA BindFits ==
  ASSUME NEW m \in Memory, NEW x \in Receipt, NEW lock, LocksFit(m),
         lock = NoLock \/ lock = x.request
  PROVE  /\ LocksFit(SetLock(Bind(m, x), x.request.key, lock))
         /\ m.locks[x.request.key] = lock => LocksFit(Bind(m, x))
<1>1. /\ m.byKey \in [Key -> Receipt \cup {NoReceipt}]
      /\ m.locks \in [Key -> Request \cup {NoLock}]
      /\ x.request.key \in Key
  BY RequestFields DEF Memory, Receipt
<1>2. LocksFit(SetLock(Bind(m, x), x.request.key, lock))
  BY <1>1 DEF SetLock, Bind, LocksFit
<1>3. m.locks[x.request.key] = lock => LocksFit(Bind(m, x))
  BY <1>1 DEF Bind, LocksFit
<1>4. QED
  BY <1>2, <1>3

\* After a call on a memory whose locks fit, they fit.
LEMMA CallsFit ==
  ASSUME JournalInv, LocksAsRecorded, NEW p \in Proc, NEW r \in Request,
         mems[p] # Down => LocksFit(mems[p]),
         \/ Dispatch(p, r) \/ AcquireLock(p, r) \/ Complete(p, r)
         \/ RecordFailure(p, r) \/ ResetCircuit(p, r)
  PROVE  \E m : Persist(p, m) /\ LocksFit(m)
<1> DEFINE m == mems[p]
<1>1. m # Down /\ m \in Memory /\ Sound(m) /\ LocksFit(m) /\ r.key \in Key
  BY RequestFields
     DEF JournalInv, JournalTypeOK, Dispatch, AcquireLock, Complete, RecordFailure, ResetCircuit
<1>2. CASE Dispatch(p, r)
  <2>1. PICK t \in Times, ok \in BOOLEAN : DispatchVerdict(m, r, ok, t) = "accepted"
    BY <1>2 DEF Dispatch, Authorizations
  <2>2. t \in Int
    BY JournalAssumption DEF Times
  <2>3. m.byKey[r.key] = NoReceipt \/ (Recorded(m, r) /\ m.byKey[r.key].status = "backoff")
    BY <1>1, <2>1, <2>2, AcceptedRequest
  <2>4. AcceptReceipt(m, r) \in Receipt /\ AcceptReceipt(m, r).request = r
    BY <1>1, <2>3, AcceptReceiptSound
  <2>5. LocksFit(AcceptDispatch(m, r))
    BY <1>1, <2>4, BindFits DEF AcceptDispatch
  <2>6. QED
    BY <1>2, <2>5 DEF Dispatch
<1>3. CASE AcquireLock(p, r)
  <2>1. m.byKey[r.key] = NoReceipt \/ r = m.byKey[r.key].request
    BY <1>3 DEF LocksAsRecorded, Recorded
  <2>2. LocksFit(SetLock(m, r.key, r))
    BY <1>1, <2>1, SetLockFits
  <2>3. QED
    BY <1>3, <2>2 DEF AcquireLock
<1>4. CASE Complete(p, r)
  <2>1. LocksFit(CompleteDispatch(m, r))
    BY <1>1, SetLockFits DEF CompleteDispatch
  <2>2. QED
    BY <1>4, <2>1 DEF Complete
<1>5. CASE RecordFailure(p, r)
  <2>1. PICK t \in Times : Persist(p, FailDispatch(m, r, t))
    BY <1>5 DEF RecordFailure
  <2>2. Recorded(m, r) /\ t \in Int /\ m.byKey[r.key].failures < FailureLimit
    BY <1>5, JournalAssumption DEF RecordFailure, Times
  <2> DEFINE n == m.byKey[r.key].failures + 1
  <2>3. n \in 1 .. FailureLimit
    BY <1>1, <2>2, RecordedRequest, BoundsAssumption
  <2>4. FailureReceipt(r, n, t) \in Receipt /\ FailureReceipt(r, n, t).request = r
    BY <2>2, <2>3, FailureReceiptSound
  <2> HIDE DEF n
  <2>5. LocksFit(SetLock(Bind(m, FailureReceipt(r, n, t)), r.key, NoLock))
    BY <1>1, <2>4, BindFits
  <2>6. LocksFit(FailDispatch(m, r, t))
    BY <2>5 DEF FailDispatch, n
  <2>7. QED
    BY <2>1, <2>6
<1>6. CASE ResetCircuit(p, r)
  <2> DEFINE x == NewReceipt(r, "accepted", 0, 0, "circuit reset")
  <2>1. x \in Receipt /\ x.request = r
    BY NoFailures, NewReceiptSound DEF Reason
  <2>2. m.locks[r.key] = NoLock \/ m.locks[r.key] = r
    BY <1>1, <1>6 DEF ResetCircuit, Recorded, LocksFit
  <2> HIDE DEF x
  <2>3. LocksFit(Bind(m, x))
    BY <1>1, <2>1, <2>2, BindFits
  <2>4. QED
    BY <1>6, <2>3 DEF ResetCircuit, ResetDispatch, x
<1>7. QED
  BY <1>2, <1>3, <1>4, <1>5, <1>6

LEMMA ReplayableStep ==
  ASSUME JournalInv, Replayable, LocksAsRecorded, Next
  PROVE  Replayable'
<1>1. ASSUME NEW p \in Proc, Open(p) PROVE Replayable'
  <2>1. PICK m \in Memory : /\ Sound(m) /\ LastRow = Snapshot(m)
                            /\ mems' = [mems EXCEPT ![p] = m] /\ journal' = journal
    BY <1>1, OpenEffect
  <2>2. RowValid(LastRow)
    <3>1. CASE journal = <<>>
      BY <3>1, NoneAssumption DEF LastRow, EmptyRow, Snapshot, EmptyMemory, RowValid
    <3>2. CASE journal # <<>>
      <4>1. Len(journal) \in 1 .. Len(journal)
        BY <3>2, EmptySeq, LenProperties DEF JournalInv, JournalTypeOK
      <4>2. QED
        BY <3>2, <4>1 DEF Replayable, Loadable, LastRow
    <3>3. QED
      BY <3>1, <3>2
  <2>3. LocksFit(m)
    BY <2>1, <2>2 DEF RowValid, LocksFit, Snapshot
  <2>4. QED
    BY <2>1, <2>3 DEF JournalInv, JournalTypeOK, Replayable, Loadable
<1>2. ASSUME NEW p \in Proc, Crash(p) PROVE Replayable'
  BY <1>2 DEF Crash, JournalInv, JournalTypeOK, Replayable, Loadable
<1>3. ASSUME NEW p \in Proc, NEW r \in Request,
             \/ Dispatch(p, r) \/ AcquireLock(p, r) \/ Complete(p, r)
             \/ RecordFailure(p, r) \/ ResetCircuit(p, r)
      PROVE  Replayable'
  <2>1. PICK m : Changed(p, m)
    BY <1>3, DispatchChanges, AcquireLockChanges, CompleteChanges, RecordFailureChanges,
       ResetCircuitChanges
  <2>2. PICK n : Persist(p, n) /\ LocksFit(n)
    BY <1>3, CallsFit DEF Replayable
  <2>3. /\ mems' = [mems EXCEPT ![p] = n] /\ n = m
        /\ journal' \in {Append(journal, Snapshot(m)), journal}
    BY <2>1, <2>2 DEF Changed, Persist, JournalInv, JournalTypeOK
  <2>4. RowValid(Snapshot(m)) /\ Snapshot(m) \in Row
    BY <2>1, <2>2, <2>3, FittingIsValid DEF Changed, Snapshot, Row, Memory
  <2>5. Loadable'
    <3>1. CASE journal' = journal
      BY <3>1 DEF Replayable, Loadable
    <3>2. CASE journal' = Append(journal, Snapshot(m))
      <4>1. \A i \in 1 .. Len(journal') : journal'[i] = Snapshot(m) \/
              (i \in 1 .. Len(journal) /\ journal'[i] = journal[i])
        BY <3>2, <2>4, AppendProperties, LenProperties DEF JournalInv, JournalTypeOK
      <4>2. QED
        BY <4>1, <2>4 DEF Replayable, Loadable
    <3>3. QED
      BY <2>3, <3>1, <3>2
  <2>6. QED
    BY <2>2, <2>3, <2>5 DEF JournalInv, JournalTypeOK, Replayable
<1>4. QED
  BY <1>1, <1>2, <1>3 DEF Next

\* A journal that the coordinator wrote can be opened again (_apply_snapshot),
\* whatever crashed and however many coordinators wrote it, unless acquire_lock
\* took the lock of a recorded key for another request: that is the one way.
THEOREM JournalOpensAgain ==
  Spec /\ [][LocksAsRecorded]_vars => []JournalReplayable
<1>1. Init => Replayable
  <2> SUFFICES ASSUME Init PROVE Replayable
    OBVIOUS
  <2>1. Len(journal) = 0
    BY DEF Init
  <2>2. QED
    BY <2>1 DEF Init, Replayable, Loadable
<1>2. JournalInv /\ Replayable /\ [Next]_vars /\ [LocksAsRecorded]_vars => Replayable'
  <2> SUFFICES ASSUME JournalInv, Replayable, [Next]_vars, [LocksAsRecorded]_vars
               PROVE  Replayable'
    OBVIOUS
  <2>1. CASE UNCHANGED vars
    BY <2>1 DEF vars, Replayable, Loadable
  <2>2. CASE Next /\ LocksAsRecorded
    BY <2>2, ReplayableStep
  <2>3. QED
    BY <2>1, <2>2
<1>3. Replayable => JournalReplayable
  BY DEF Replayable, JournalReplayable
<1>4. QED
  BY <1>1, <1>2, <1>3, JournalInvariant, PTL DEF Spec
=============================================================================
