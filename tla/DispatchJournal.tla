--------------------------- MODULE DispatchJournal ---------------------------
(***************************************************************************)
(* SQLiteDispatchCoordinator (src/scheduler.py): the coordinator with an    *)
(* append-only journal of complete snapshots.  A process is one coordinator *)
(* object; it changes its memory first and then appends a snapshot of all   *)
(* of it, so the append may fail with the memory already changed, and the   *)
(* process may stop at any time and a new one be opened on the journal.     *)
(*                                                                         *)
(* The snapshot's configuration and hashes are left out: rows are never     *)
(* damaged here, and every process is opened with the same configuration.   *)
(***************************************************************************)
EXTENDS DispatchRules, Sequences

CONSTANTS
  Proc,     \* coordinator objects that may be open on one journal
  Down,     \* the memory of one that is not open
  MaxRows,  \* bound: rows in the journal
  MaxTime   \* bound: the times calls are made at

ASSUME JournalAssumption ==
  /\ Down \notin Memory
  /\ MaxRows \in Nat /\ MaxTime \in Nat

VARIABLES
  mems,     \* per process: its memory, or Down
  journal   \* the rows: what _snapshot keeps of a memory

vars == <<mems, journal>>

Times == 0 .. MaxTime

\* A snapshot holds the receipts by key and the locks; the event index is rebuilt.
Snapshot(m) == [byKey |-> m.byKey, locks |-> m.locks]

EmptyRow == Snapshot(EmptyMemory)

Row == [byKey : [Key -> Receipt \cup {NoReceipt}], locks : [Key -> Request \cup {NoLock}]]

\* What _apply_snapshot demands of a row: one receipt per event, and no lock
\* on a recorded key for another request than the recorded one.
RowValid(row) ==
  /\ \A j, k \in Key :
       (j # k /\ row.byKey[j] # NoReceipt /\ row.byKey[k] # NoReceipt) =>
         row.byKey[j].request.event # row.byKey[k].request.event
  /\ \A k \in Key :
       (row.byKey[k] # NoReceipt /\ row.locks[k] # NoLock) =>
         row.locks[k] = row.byKey[k].request

Loadable == \A i \in 1 .. Len(journal) : RowValid(journal[i])

LastRow == IF journal = <<>> THEN EmptyRow ELSE journal[Len(journal)]

\* Mistaken: files only the receipts that are active.
FiledUnderActive(row, e) ==
  {k \in Key : /\ row.byKey[k] # NoReceipt
               /\ row.byKey[k].status = "accepted"
               /\ row.byKey[k].request.event = e}

FiledUnder(row, e) == {k \in Key : row.byKey[k] # NoReceipt /\ row.byKey[k].request.event = e}

Restore(row) ==
  [byKey |-> row.byKey,
   byEvent |-> [e \in Event |->
     IF FiledUnder(row, e) = {} THEN NoReceipt
     ELSE row.byKey[CHOOSE k \in FiledUnder(row, e) : TRUE]],
   locks |-> row.locks]

-----------------------------------------------------------------------------
Init ==
  /\ mems = [p \in Proc |-> Down]
  /\ journal = <<>>

\* Mistaken: starts with an empty memory.
OpenEmpty(p) ==
  /\ mems[p] = Down
  /\ Loadable
  /\ mems' = [mems EXCEPT ![p] = EmptyMemory]
  /\ UNCHANGED journal

\* The constructor applies every row in order; one bad row and it raises.
Open(p) ==
  /\ mems[p] = Down
  /\ Loadable
  /\ mems' = [mems EXCEPT ![p] = Restore(LastRow)]
  /\ UNCHANGED journal

Crash(p) ==
  /\ mems[p] # Down
  /\ mems' = [mems EXCEPT ![p] = Down]
  /\ UNCHANGED journal

\* The memory is m now; the snapshot is appended, or sqlite refuses and the call raises.
Persist(p, m) ==
  /\ Len(journal) < MaxRows
  /\ mems' = [mems EXCEPT ![p] = m]
  /\ journal' \in {Append(journal, Snapshot(m)), journal}

\* Dispatch that is not accepted changes and persists nothing.
Dispatch(p, r) ==
  /\ mems[p] # Down
  /\ \E t \in Times : \E ok \in Authorizations(r, t) :
       DispatchVerdict(mems[p], r, ok, t) = "accepted"
  /\ Persist(p, AcceptDispatch(mems[p], r))

AcquireLock(p, r) ==
  /\ mems[p] # Down
  /\ mems[p].locks[r.key] = NoLock
  /\ Persist(p, SetLock(mems[p], r.key, r))

Complete(p, r) ==
  /\ mems[p] # Down
  /\ Recorded(mems[p], r)
  /\ Persist(p, CompleteDispatch(mems[p], r))

RecordFailure(p, r) ==
  /\ mems[p] # Down
  /\ Recorded(mems[p], r)
  /\ mems[p].byKey[r.key].failures < FailureLimit
  /\ \E t \in Times : Persist(p, FailDispatch(mems[p], r, t))

ResetCircuit(p, r) ==
  /\ mems[p] # Down
  /\ Recorded(mems[p], r)
  /\ mems[p].byKey[r.key].status = "circuit_open"
  /\ Persist(p, ResetDispatch(mems[p], r))

Next ==
  \E p \in Proc :
    \/ Open(p)
    \/ Crash(p)
    \/ \E r \in Request :
         \/ Dispatch(p, r)
         \/ AcquireLock(p, r)
         \/ Complete(p, r)
         \/ RecordFailure(p, r)
         \/ ResetCircuit(p, r)

Spec == Init /\ [][Next]_vars

-----------------------------------------------------------------------------
(***************************************************************************)
(* "lets a damaged row fail closed rather than silently losing admission    *)
(* state": a key that the journal's last row has bound to a request stays   *)
(* bound to it in every later row.                                          *)
(***************************************************************************)
AdmissionKept ==
  [][\A k \in Key : LastRow.byKey[k] # NoReceipt =>
       /\ LastRow'.byKey[k] # NoReceipt
       /\ LastRow'.byKey[k].request = LastRow.byKey[k].request]_vars

(***************************************************************************)
(* A journal the coordinator wrote can be opened again: it was never        *)
(* damaged, so every row passes the checks of the loader.                   *)
(***************************************************************************)
JournalReplayable == Loadable

(***************************************************************************)
(* Rebuilding the event index from the receipts loses nothing: opening the  *)
(* journal after an append gives back the very memory that was appended.    *)
(***************************************************************************)
RestoreLossless ==
  [][\A p \in Proc : (journal' # journal /\ mems'[p] # mems[p]) =>
       mems'[p] = Restore(LastRow')]_vars
=============================================================================
