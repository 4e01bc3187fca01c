--------------------------- MODULE DispatchWorkers ---------------------------
(***************************************************************************)
(* The coordinator with the callers its receipts are for: a worker that is  *)
(* told "accepted" by dispatch runs the request and then reports completion *)
(* or failure, a caller told "accepted" by acquire_lock holds the key until *)
(* it calls release, and an operator resets open circuits.  src/ holds the  *)
(* coordinator only ("a later worker may consume the receipts"), so what    *)
(* the workers do is an assumption, and it is a weak one: a report may also *)
(* come from somebody else than the worker that was accepted, a watchdog    *)
(* that gives up on a slow worker, or a report that is delivered twice.     *)
(***************************************************************************)
EXTENDS DispatchCoordinator

VARIABLES
  running,   \* the requests some worker is running
  holding,   \* the requests whose caller holds an explicit lock
  completed, \* the requests whose worker reported completion
  late,      \* the requests somebody else has reported a failure of
  runs,      \* per key: runs started since the key was new or was reset
  failedAt   \* per key: when the last failure was recorded, in real time

workerVars == <<running, holding, completed, late, runs, failedAt>>
allVars == <<mem, clock, receipt, running, holding, completed, late, runs, failedAt>>

WInit ==
  /\ Init
  /\ running = {}
  /\ holding = {}
  /\ completed = {}
  /\ late = {}
  /\ runs = [k \in Key |-> 0]
  /\ failedAt = [k \in Key |-> 0]

WDispatch(r) ==
  /\ Dispatch(r)
  /\ IF receipt'.status = "accepted"
     THEN running' = running \cup {r} /\ runs' = [runs EXCEPT ![r.key] = @ + 1]
     ELSE UNCHANGED <<running, runs>>
  /\ UNCHANGED <<holding, completed, late, failedAt>>

WAcquireLock(r) ==
  /\ AcquireLock(r)
  /\ holding' = IF receipt'.status = "accepted" THEN holding \cup {r} ELSE holding
  /\ UNCHANGED <<running, completed, late, runs, failedAt>>

\* The holder of an explicit lock calls release, an alias of complete.
WRelease(r) ==
  /\ r \in holding
  /\ Complete(r)
  /\ holding' = holding \ {r}
  /\ UNCHANGED <<running, completed, late, runs, failedAt>>

WComplete(r) ==
  /\ r \in running
  /\ Complete(r)
  /\ running' = running \ {r}
  /\ completed' = completed \cup {r}
  /\ UNCHANGED <<holding, late, runs, failedAt>>

\* The worker reports its own failure; a rejected report changes nothing but
\* the worker has stopped all the same.
WFail(r) ==
  /\ r \in running
  /\ RecordFailure(r)
  /\ running' = running \ {r}
  /\ failedAt' = IF mem' # mem THEN [failedAt EXCEPT ![r.key] = clock] ELSE failedAt
  /\ UNCHANGED <<holding, completed, late, runs>>

\* Somebody else reports a failure; if a worker runs the request it keeps running.
WLateFailure(r) ==
  /\ RecordFailure(r)
  /\ late' = late \cup {r}
  /\ failedAt' = IF mem' # mem THEN [failedAt EXCEPT ![r.key] = clock] ELSE failedAt
  /\ UNCHANGED <<running, holding, completed, runs>>

\* A report of completion that was delivered before, or a second release.
WLateCompletion(r) ==
  /\ r \in completed
  /\ Complete(r)
  /\ UNCHANGED workerVars

WReset(r) ==
  /\ ResetCircuit(r)
  /\ runs' = IF mem' # mem THEN [runs EXCEPT ![r.key] = 0] ELSE runs
  /\ UNCHANGED <<running, holding, completed, late, failedAt>>

WTick == Tick /\ UNCHANGED workerVars

WNext ==
  \/ \E r \in Request :
       \/ WDispatch(r)
       \/ WAcquireLock(r)
       \/ WRelease(r)
       \/ WComplete(r)
       \/ WFail(r)
       \/ WLateFailure(r)
       \/ WLateCompletion(r)
       \/ WReset(r)
  \/ WTick

WSpec == WInit /\ [][WNext]_allVars

-----------------------------------------------------------------------------
(***************************************************************************)
(* No worker is started beside one that runs the same idempotency key, or   *)
(* the same event under another key; the one exception is a request whose   *)
(* failure somebody else reported while its worker was still running.       *)
(***************************************************************************)
StartedAlone(r) == \A s \in running \ late : s.key # r.key /\ s.event # r.event

OneRunPerKeyAndEvent ==
  [][runs # runs' /\ receipt'.op = "dispatch" => StartedAlone(receipt'.request)]_allVars

(***************************************************************************)
(* A failing dispatch is run at most FailureThreshold times before somebody *)
(* resets its circuit, whoever reports the failures and in whatever order.  *)
(***************************************************************************)
RunsWithinBreaker == \A k \in Key : runs[k] <= FailureThreshold

(***************************************************************************)
(* A retry starts no earlier than the backoff delay after the failure was   *)
(* recorded, short by at most the time either call waited for the lock: the *)
(* window is computed from a clock read before the lock was taken.          *)
(***************************************************************************)
RetryAfterBackoff ==
  [][\A k \in Key : runs'[k] > runs[k] /\ mem.byKey[k] # NoReceipt =>
       clock + MaxWait >= failedAt[k] + Delay(mem.byKey[k].failures)]_allVars

(***************************************************************************)
(* A dispatch whose worker reported completion is never run again, unless   *)
(* somebody reports a failure of it after all: the receipt of a completed   *)
(* dispatch stays accepted, and a failure report reopens it.                *)
(***************************************************************************)
CompletedNotRunAgain == completed \cap running \subseteq late

=============================================================================
