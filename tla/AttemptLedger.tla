---------------------------- MODULE AttemptLedger ----------------------------
(***************************************************************************)
(* The ledger of attempts (src/storage/ledger_db.py) under any sequence of  *)
(* calls: record_attempt and transition_attempt with whatever rows callers  *)
(* build, legal or not.  Each call is one BEGIN IMMEDIATE transaction, so each is   *)
(* one action whatever the threads and processes that call; a call that     *)
(* raises rolls back and a replay commits nothing, so neither is a step.    *)
(***************************************************************************)
EXTENDS AttemptRules, Sequences

CONSTANTS
  NoRow,
  Offered  \* the rows callers offer

ASSUME OfferedAssumption == Offered \subseteq Row

ASSUME NoneAssumption ==
  /\ NoRow \notin Row /\ NoRow \notin IdemKey
  /\ None \notin Hash \cup TestEvidence \cup Reason \cup Diagnosis

VARIABLES
  attempts,  \* the attempts table: per id, the latest snapshot
  events     \* the attempt_events table: per id, the snapshots by revision

ledgerVars == <<attempts, events>>

LedgerInit ==
  /\ attempts = [a \in AttemptId |-> NoRow]
  /\ events = [a \in AttemptId |-> <<>>]

\* The row with this idempotency key (the column is UNIQUE), or NoRow.
FindByKey(k) ==
  IF \E a \in AttemptId : attempts[a] # NoRow /\ attempts[a].key = k
  THEN attempts[CHOOSE a \in AttemptId : attempts[a] # NoRow /\ attempts[a].key = k]
  ELSE NoRow

\* Mistaken: looks for the attempt's id instead of its key.
RecordVerdictById(row) ==
  CASE attempts[row.id] # NoRow ->
         IF attempts[row.id] = row \/ InitialReplay(attempts[row.id], row)
         THEN "existing" ELSE "conflict"
    [] attempts[row.id] = NoRow -> IF InitialRow(row) THEN "inserted" ELSE "conflict"

\* What record_attempt answers.  The key is looked up before the new row is
\* validated; an id that is taken under another key breaks the PRIMARY KEY.
RecordVerdict(row) ==
  CASE FindByKey(row.key) # NoRow ->
         IF FindByKey(row.key) = row \/ InitialReplay(FindByKey(row.key), row)
         THEN "existing" ELSE "conflict"
    [] FindByKey(row.key) = NoRow /\ ~InitialRow(row) -> "conflict"
    [] FindByKey(row.key) = NoRow /\ InitialRow(row) ->
         IF attempts[row.id] = NoRow THEN "inserted" ELSE "integrity_error"

\* What transition_attempt answers.
TransitionVerdict(row) ==
  CASE attempts[row.id] = NoRow -> "conflict"
    [] attempts[row.id] # NoRow /\ SemanticReplay(attempts[row.id], row) -> "replay"
    [] attempts[row.id] # NoRow /\ ~SemanticReplay(attempts[row.id], row) ->
         IF TransitionValid(attempts[row.id], row) THEN "applied" ELSE "conflict"

\* Mistaken: updates the last event instead of adding one.
WriteOver(row) ==
  /\ attempts' = [attempts EXCEPT ![row.id] = row]
  /\ events' = [events EXCEPT ![row.id] = <<row>>]

\* Mistaken: logs the row that is replaced, not the new one.
WriteBefore(row) ==
  /\ attempts' = [attempts EXCEPT ![row.id] = row]
  /\ events' = [events EXCEPT ![row.id] = Append(@, attempts[row.id])]

\* The snapshot becomes the row and is appended as the next revision.
Write(row) ==
  /\ attempts' = [attempts EXCEPT ![row.id] = row]
  /\ events' = [events EXCEPT ![row.id] = Append(@, row)]

RecordAttempt(row) == RecordVerdict(row) = "inserted" /\ Write(row)

TransitionAttempt(row) == TransitionVerdict(row) = "applied" /\ Write(row)

LedgerNext == \E row \in Offered : RecordAttempt(row) \/ TransitionAttempt(row)

LedgerSpec == LedgerInit /\ [][LedgerNext]_ledgerVars

-----------------------------------------------------------------------------
\* Every variable has its type.
LedgerTypeOK ==
  /\ attempts \in [AttemptId -> Row \cup {NoRow}]
  /\ events \in [AttemptId -> Seq(Row)]

(***************************************************************************)
(* Every snapshot in the ledger, the current ones and all revisions, holds  *)
(* exactly the evidence of its stage; an attempt succeeds only with all of  *)
(* it and a receipt, and fails only with a reason.                          *)
(***************************************************************************)
RowValid(row) ==
  /\ StageEvidenceValid(row)
  /\ (row.status = "succeeded") = (row.stage = Completed)
  /\ row.status = "proposed" => InitialRow(row)

EvidenceMatchesStage ==
  \A a \in AttemptId :
    /\ attempts[a] # NoRow => attempts[a].id = a /\ RowValid(attempts[a])
    /\ \A i \in 1 .. Len(events[a]) : RowValid(events[a][i])

(***************************************************************************)
(* An idempotency key has one attempt: concurrent callers that all found    *)
(* the key free do not create two.                                          *)
(***************************************************************************)
KeyHasOneAttempt ==
  \A a, b \in AttemptId :
    (attempts[a] # NoRow /\ attempts[b] # NoRow /\ attempts[a].key = attempts[b].key) => a = b

(***************************************************************************)
(* The append-only log and the latest snapshot tell the same story: the log *)
(* starts with the captured attempt, its last revision is the row, and each *)
(* revision follows from the one before by a legal transition.              *)
(***************************************************************************)
LogLeadsToRow ==
  \A a \in AttemptId :
    IF attempts[a] = NoRow
    THEN events[a] = <<>>
    ELSE /\ events[a] # <<>>
         /\ InitialRow(events[a][1])
         /\ events[a][Len(events[a])] = attempts[a]
         /\ \A i \in 1 .. Len(events[a]) - 1 : TransitionValid(events[a][i], events[a][i + 1])

(***************************************************************************)
(* History is never rewritten: revisions are only appended, a closed        *)
(* attempt is never touched again, and an attempt keeps its identity.       *)
(***************************************************************************)
HistoryAppendOnly ==
  [][\A a \in AttemptId :
       /\ Len(events[a]) <= Len(events'[a])
       /\ \A i \in 1 .. Len(events[a]) : events'[a][i] = events[a][i]
       /\ attempts[a] # NoRow =>
            /\ attempts'[a] # NoRow
            /\ SameIdentity(attempts[a], attempts'[a])
            /\ attempts[a].status \in Terminal => attempts'[a] = attempts[a]]_ledgerVars
=============================================================================
