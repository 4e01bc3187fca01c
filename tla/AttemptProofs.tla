---------------------------- MODULE AttemptProofs ----------------------------
(***************************************************************************)
(* Theorems about module AttemptLedger, for every set of rows that callers  *)
(* may offer, legal or not, and about module AttemptPipeline, for any       *)
(* number of callers, any calls, any crashes.                               *)
(***************************************************************************)
EXTENDS AttemptPipeline, TLAPS, SequenceTheorems

\* Every row of a log is a row of that attempt, and the log ends in the snapshot.
LogSound(a) ==
  IF attempts[a] = NoRow
  THEN events[a] = <<>>
  ELSE /\ events[a] # <<>>
       /\ InitialRow(events[a][1])
       /\ events[a][Len(events[a])] = attempts[a]
       /\ \A i \in 1 .. Len(events[a]) - 1 : TransitionValid(events[a][i], events[a][i + 1])

RowSound(a) ==
  /\ attempts[a] # NoRow => attempts[a].id = a /\ RowValid(attempts[a])
  /\ \A i \in 1 .. Len(events[a]) : RowValid(events[a][i])

LedgerInv ==
  /\ LedgerTypeOK
  /\ \A a \in AttemptId : LogSound(a) /\ RowSound(a)
  /\ KeyHasOneAttempt

-----------------------------------------------------------------------------
\* A fresh attempt holds the evidence of its stage: none.
LEMMA InitialRowValid ==
  ASSUME NEW row, InitialRow(row)
  PROVE  RowValid(row)
<1>1. row = NewRow(row.id, row.key, row.ident, row.source)
  BY DEF InitialRow
<1>2. /\ row.status = "proposed" /\ row.stage = 0
      /\ row.evidence = [s \in EvidenceStage |-> None]
      /\ row.receipt = None /\ row.reason = None
  BY <1>1 DEF NewRow, NoEvidence, Captured
<1>3. \A s \in EvidenceStage : row.evidence[s] = None /\ s > 0
  BY <1>2 DEF EvidenceStage, BaselineEvaluated, AcceptanceEvaluated
<1>4. StageEvidenceValid(row)
  BY <1>2, <1>3 DEF StageEvidenceValid, EvidenceStage, BaselineEvaluated, AcceptanceEvaluated
<1>5. QED
  BY <1>2, <1>4 DEF RowValid, Completed

\* A transition leads to a row that holds the evidence of its stage.
LEMMA TransitionRowValid ==
  ASSUME NEW current, NEW updated, TransitionValid(current, updated)
  PROVE  RowValid(updated) /\ SameIdentity(current, updated)
BY DEF TransitionValid, StatusMayBecome, RowValid, Terminal

\* A key that FindByKey does not find belongs to no attempt.
LEMMA KeyIsFree ==
  ASSUME NEW k, FindByKey(k) = NoRow, LedgerTypeOK
  PROVE  \A a \in AttemptId : attempts[a] # NoRow => attempts[a].key # k
<1> SUFFICES ASSUME NEW b \in AttemptId, attempts[b] # NoRow, attempts[b].key = k
             PROVE  FALSE
  OBVIOUS
<1> DEFINE c == CHOOSE a \in AttemptId : attempts[a] # NoRow /\ attempts[a].key = k
<1>1. c \in AttemptId /\ attempts[c] # NoRow
  OBVIOUS
<1>2. FindByKey(k) = attempts[c]
  BY DEF FindByKey
<1>3. QED
  BY <1>1, <1>2

(***************************************************************************)
(* A step writes one row: a fresh attempt where there was none, under a key *)
(* nobody has, or a legal transition of the row that was there.             *)
(***************************************************************************)
Inserts(row) ==
  /\ InitialRow(row)
  /\ attempts[row.id] = NoRow
  /\ \A a \in AttemptId : attempts[a] # NoRow => attempts[a].key # row.key

Updates(row) ==
  /\ attempts[row.id] # NoRow
  /\ TransitionValid(attempts[row.id], row)

LEMMA RecordInserts ==
  ASSUME LedgerTypeOK, NEW row \in Row, RecordAttempt(row)
  PROVE  Inserts(row) /\ Write(row)
<1>1. RecordVerdict(row) = "inserted" /\ Write(row)
  BY DEF RecordAttempt
<1>2. FindByKey(row.key) = NoRow /\ InitialRow(row) /\ attempts[row.id] = NoRow
  BY <1>1 DEF RecordVerdict
<1>3. QED
  BY <1>1, <1>2, KeyIsFree DEF Inserts

LEMMA TransitionUpdates ==
  ASSUME NEW row \in Row, TransitionAttempt(row)
  PROVE  Updates(row) /\ Write(row)
<1>1. TransitionVerdict(row) = "applied" /\ Write(row)
  BY DEF TransitionAttempt
<1>2. QED
  BY <1>1 DEF TransitionVerdict, Updates

-----------------------------------------------------------------------------
\* The rows and logs after a write.
LEMMA WriteEffect ==
  ASSUME LedgerTypeOK, NEW row \in Row, Write(row)
  PROVE  /\ LedgerTypeOK'
         /\ attempts'[row.id] = row
         /\ events'[row.id] = Append(events[row.id], row)
         /\ \A a \in AttemptId : a # row.id => attempts'[a] = attempts[a] /\ events'[a] = events[a]
<1>1. row.id \in AttemptId
  BY DEF Row
<1>2. attempts \in [AttemptId -> Row \cup {NoRow}] /\ events \in [AttemptId -> Seq(Row)]
  BY DEF LedgerTypeOK
<1>3. /\ attempts' = [attempts EXCEPT ![row.id] = row]
      /\ events' = [events EXCEPT ![row.id] = Append(events[row.id], row)]
  BY DEF Write
<1>4. Append(events[row.id], row) \in Seq(Row)
  BY <1>1, <1>2
<1>5. attempts' \in [AttemptId -> Row \cup {NoRow}] /\ events' \in [AttemptId -> Seq(Row)]
  BY <1>1, <1>2, <1>3, <1>4
<1>6. QED
  BY <1>1, <1>2, <1>3, <1>5 DEF LedgerTypeOK

\* The log of the attempt that was written.
LEMMA WriteLog ==
  ASSUME LedgerInv, NEW row \in Row, Write(row), Inserts(row) \/ Updates(row)
  PROVE  LogSound(row.id)' /\ RowSound(row.id)'
<1> DEFINE a == row.id
           n == Len(events[a])
<1>1. a \in AttemptId
  BY DEF Row
<1>2. /\ events[a] \in Seq(Row) /\ n \in Nat
      /\ LedgerTypeOK /\ LogSound(a) /\ RowSound(a)
  BY <1>1, LenProperties DEF LedgerInv, LedgerTypeOK
<1>3. attempts'[a] = row /\ events'[a] = Append(events[a], row)
  BY <1>2, WriteEffect
<1>4. /\ Len(events'[a]) = n + 1
      /\ events'[a][n + 1] = row
      /\ \A i \in 1 .. n : events'[a][i] = events[a][i]
  BY <1>2, <1>3, AppendProperties
<1>5. row # NoRow /\ events'[a] # <<>>
  <2>1. row # NoRow
    BY NoneAssumption
  <2>2. QED
    BY <2>1, <1>2, <1>3, AppendProperties
<1>6. RowValid(row)
  BY InitialRowValid, TransitionRowValid DEF Inserts, Updates
<1>7. RowSound(a)'
  <2>1. \A i \in 1 .. n + 1 : RowValid(events'[a][i])
    <3> SUFFICES ASSUME NEW i \in 1 .. n + 1 PROVE RowValid(events'[a][i])
      OBVIOUS
    <3>1. CASE i = n + 1
      BY <3>1, <1>4, <1>6
    <3>2. CASE i \in 1 .. n
      BY <3>2, <1>2, <1>4 DEF RowSound
    <3>3. QED
      BY <3>1, <3>2, <1>2
  <2>2. QED
    BY <2>1, <1>3, <1>4, <1>6 DEF RowSound, RowValid, StageEvidenceValid, InitialRow
<1>8. LogSound(a)'
  <2>1. CASE Inserts(row)
    <3>1. n = 0
      BY <2>1, <1>2, EmptySeq DEF LogSound, Inserts
    <3>2. InitialRow(events'[a][1])
      BY <2>1, <3>1, <1>4 DEF Inserts
    <3>3. \A i \in 1 .. Len(events'[a]) - 1 : FALSE
      BY <3>1, <1>4
    <3>4. QED
      BY <3>1, <3>2, <3>3, <1>3, <1>4, <1>5 DEF LogSound, InitialRow
  <2>2. CASE Updates(row)
    <3>1. /\ n > 0 /\ InitialRow(events[a][1]) /\ events[a][n] = attempts[a]
          /\ \A i \in 1 .. n - 1 : TransitionValid(events[a][i], events[a][i + 1])
      BY <2>2, <1>2, EmptySeq DEF LogSound, Updates
    <3>2. InitialRow(events'[a][1])
      BY <3>1, <1>2, <1>4
    <3>3. \A i \in 1 .. n : TransitionValid(events'[a][i], events'[a][i + 1])
      <4> SUFFICES ASSUME NEW i \in 1 .. n
                   PROVE  TransitionValid(events'[a][i], events'[a][i + 1])
        OBVIOUS
      <4>1. CASE i = n
        BY <4>1, <2>2, <3>1, <1>2, <1>4 DEF Updates
      <4>2. CASE i \in 1 .. n - 1
        <5>1. events'[a][i] = events[a][i] /\ events'[a][i + 1] = events[a][i + 1]
          BY <4>2, <1>2, <1>4
        <5>2. QED
          BY <5>1, <4>2, <3>1
      <4>3. QED
        BY <4>1, <4>2, <1>2
    <3>4. QED
      BY <3>2, <3>3, <1>2, <1>3, <1>4, <1>5 DEF LogSound
  <2>3. QED
    BY <2>1, <2>2
<1>9. QED
  BY <1>7, <1>8

-----------------------------------------------------------------------------
\* A step keeps the keys apart: a fresh attempt's key was free, and an
\* attempt that moves keeps its key.
LEMMA WriteKeepsKeys ==
  ASSUME LedgerInv, NEW row \in Row, Write(row), Inserts(row) \/ Updates(row)
  PROVE  KeyHasOneAttempt'
<1>1. LedgerTypeOK /\ KeyHasOneAttempt
  BY DEF LedgerInv
<1>2. /\ row.id \in AttemptId
      /\ attempts'[row.id] = row
      /\ \A a \in AttemptId : a # row.id => attempts'[a] = attempts[a]
  BY <1>1, WriteEffect DEF Row
<1>3. \A a \in AttemptId : (a # row.id /\ attempts[a] # NoRow) => attempts[a].key # row.key
  <2>1. CASE Inserts(row)
    BY <2>1 DEF Inserts
  <2>2. CASE Updates(row)
    <3>1. attempts[row.id] # NoRow /\ attempts[row.id].key = row.key
      BY <2>2 DEF Updates, TransitionValid, SameIdentity
    <3>2. QED
      BY <3>1, <1>1, <1>2 DEF KeyHasOneAttempt
  <2>3. QED
    BY <2>1, <2>2
<1>4. SUFFICES ASSUME NEW a \in AttemptId, NEW b \in AttemptId,
                      attempts'[a] # NoRow, attempts'[b] # NoRow,
                      attempts'[a].key = attempts'[b].key
               PROVE  a = b
  BY DEF KeyHasOneAttempt
<1>5. CASE a # row.id /\ b # row.id
  BY <1>5, <1>4, <1>2, <1>1 DEF KeyHasOneAttempt
<1>6. CASE a = row.id \/ b = row.id
  BY <1>6, <1>4, <1>2, <1>3
<1>7. QED
  BY <1>5, <1>6

\* Callers of the ledger may pass any row whatever.
AnyCall == \E row \in Row : RecordAttempt(row) \/ TransitionAttempt(row)

AnyLedgerSpec == LedgerInit /\ [][AnyCall]_ledgerVars

\* Every step writes one row, by record_attempt or transition_attempt.
LEMMA StepWrites ==
  ASSUME LedgerInv, AnyCall
  PROVE  \E row \in Row : Write(row) /\ (Inserts(row) \/ Updates(row))
<1>1. PICK row \in Row : RecordAttempt(row) \/ TransitionAttempt(row)
  BY DEF AnyCall
<1>2. Write(row) /\ (Inserts(row) \/ Updates(row))
  BY <1>1, RecordInserts, TransitionUpdates DEF LedgerInv
<1>3. QED
  BY <1>2

\* The rows that are offered are rows.
LEMMA OfferedCalls == LedgerNext => AnyCall
BY OfferedAssumption DEF LedgerNext, AnyCall

\* A legal write keeps the whole invariant.
LEMMA WriteKeeps ==
  ASSUME LedgerInv, NEW row \in Row, Write(row), Inserts(row) \/ Updates(row)
  PROVE  LedgerInv'
<1>1. LedgerTypeOK' /\ \A a \in AttemptId : a # row.id =>
                          attempts'[a] = attempts[a] /\ events'[a] = events[a]
  BY WriteEffect DEF LedgerInv
<1>2. \A a \in AttemptId : LogSound(a)' /\ RowSound(a)'
  <2> SUFFICES ASSUME NEW a \in AttemptId PROVE LogSound(a)' /\ RowSound(a)'
    OBVIOUS
  <2>1. CASE a = row.id
    BY <2>1, WriteLog
  <2>2. CASE a # row.id
    BY <2>2, <1>1 DEF LedgerInv, LogSound, RowSound
  <2>3. QED
    BY <2>1, <2>2
<1>3. KeyHasOneAttempt'
  BY WriteKeepsKeys
<1>4. QED
  BY <1>1, <1>2, <1>3 DEF LedgerInv

\* Before the first call the ledger is empty.
LEMMA InitialLedger ==
  ASSUME LedgerInit PROVE LedgerInv
<1>1. \A a \in AttemptId : attempts[a] = NoRow /\ events[a] = <<>>
  BY DEF LedgerInit
<1>2. LedgerTypeOK
  <2>1. <<>> \in Seq(Row)
    OBVIOUS
  <2>2. QED
    BY <2>1 DEF LedgerInit, LedgerTypeOK
<1>3. \A a \in AttemptId : LogSound(a) /\ RowSound(a)
  <2> SUFFICES ASSUME NEW a \in AttemptId PROVE LogSound(a) /\ RowSound(a)
    OBVIOUS
  <2>1. Len(events[a]) = 0
    BY <1>1
  <2>2. QED
    BY <1>1, <2>1 DEF LogSound, RowSound
<1>4. KeyHasOneAttempt
  BY <1>1 DEF KeyHasOneAttempt
<1>5. QED
  BY <1>2, <1>3, <1>4 DEF LedgerInv

\* The invariant that is inductive: typed, sound logs, sound rows, unique keys.
LEMMA AnyLedgerInvariant == AnyLedgerSpec => []LedgerInv
<1>1. LedgerInit => LedgerInv
  BY InitialLedger
<1>2. LedgerInv /\ [AnyCall]_ledgerVars => LedgerInv'
  <2> SUFFICES ASSUME LedgerInv, [AnyCall]_ledgerVars PROVE LedgerInv'
    OBVIOUS
  <2>1. CASE UNCHANGED ledgerVars
    BY <2>1 DEF ledgerVars, LedgerInv, LedgerTypeOK, LogSound, RowSound, KeyHasOneAttempt
  <2>2. CASE AnyCall
    BY <2>2, StepWrites, WriteKeeps
  <2>3. QED
    BY <2>1, <2>2
<1>3. QED
  BY <1>1, <1>2, PTL DEF AnyLedgerSpec

LEMMA LedgerTakesAnyCall == LedgerSpec => AnyLedgerSpec
<1>1. [LedgerNext]_ledgerVars => [AnyCall]_ledgerVars
  BY OfferedCalls
<1>2. QED
  BY <1>1, PTL DEF LedgerSpec, AnyLedgerSpec

\* The same of the ledger with the rows that are offered to it.
THEOREM LedgerInvariant == LedgerSpec => []LedgerInv
BY AnyLedgerInvariant, LedgerTakesAnyCall, PTL

-----------------------------------------------------------------------------
\* Type correctness of the ledger, whatever rows callers offer.
THEOREM LedgerTypesHold == LedgerSpec => []LedgerTypeOK
<1>1. LedgerInv => LedgerTypeOK
  BY DEF LedgerInv
<1>2. QED
  BY <1>1, LedgerInvariant, PTL

\* Every snapshot and every revision holds exactly the evidence of its stage
\* (_validate_stage_evidence), whatever rows callers offer.
THEOREM EvidenceAlwaysMatchesStage == LedgerSpec => []EvidenceMatchesStage
<1>1. LedgerInv => EvidenceMatchesStage
  BY DEF LedgerInv, RowSound, EvidenceMatchesStage
<1>2. QED
  BY <1>1, LedgerInvariant, PTL

\* An idempotency key never has two attempts, however many callers race for it.
THEOREM KeyAlwaysHasOneAttempt == LedgerSpec => []KeyHasOneAttempt
<1>1. LedgerInv => KeyHasOneAttempt
  BY DEF LedgerInv
<1>2. QED
  BY <1>1, LedgerInvariant, PTL

\* The log of an attempt always leads by legal transitions to its snapshot.
THEOREM LogAlwaysLeadsToRow == LedgerSpec => []LogLeadsToRow
<1>1. LedgerInv => LogLeadsToRow
  BY DEF LedgerInv, LogSound, LogLeadsToRow
<1>2. QED
  BY <1>1, LedgerInvariant, PTL

\* A write appends to one log, keeps the identity of the attempt it moves and
\* moves no attempt that is closed.
LEMMA WriteKeepsHistory ==
  ASSUME LedgerInv, NEW row \in Row, Write(row), Inserts(row) \/ Updates(row),
         NEW a \in AttemptId
  PROVE  /\ Len(events[a]) <= Len(events'[a])
         /\ \A i \in 1 .. Len(events[a]) : events'[a][i] = events[a][i]
         /\ attempts[a] # NoRow =>
              /\ attempts'[a] # NoRow
              /\ SameIdentity(attempts[a], attempts'[a])
              /\ attempts[a].status \in Terminal => attempts'[a] = attempts[a]
<1>1. events[a] \in Seq(Row) /\ LedgerTypeOK
  BY DEF LedgerInv, LedgerTypeOK
<1>2. /\ attempts'[row.id] = row
      /\ events'[row.id] = Append(events[row.id], row)
      /\ a # row.id => attempts'[a] = attempts[a] /\ events'[a] = events[a]
  BY <1>1, WriteEffect
<1>3. Len(events[a]) \in Nat
  BY <1>1, LenProperties
<1>4. CASE a # row.id
  BY <1>4, <1>2, <1>3 DEF SameIdentity
<1>5. CASE a = row.id
  <2>1. /\ Len(events'[a]) = Len(events[a]) + 1
        /\ \A i \in 1 .. Len(events[a]) : events'[a][i] = events[a][i]
    BY <1>5, <1>1, <1>2, AppendProperties
  <2>2. ASSUME attempts[a] # NoRow
        PROVE  /\ attempts'[a] # NoRow
               /\ SameIdentity(attempts[a], attempts'[a])
               /\ attempts[a].status \in Terminal => attempts'[a] = attempts[a]
    <3>1. TransitionValid(attempts[a], row)
      BY <2>2, <1>5 DEF Updates, Inserts
    <3>2. row # NoRow
      BY NoneAssumption
    <3>3. attempts[a].status \notin Terminal
      BY <3>1 DEF TransitionValid, StatusMayBecome, Terminal
    <3>4. QED
      BY <3>1, <3>2, <3>3, <1>2, <1>5 DEF TransitionValid
  <2>3. QED
    BY <2>1, <2>2, <1>3
<1>6. QED
  BY <1>4, <1>5

LEMMA AnyCallKeepsHistory == AnyLedgerSpec => HistoryAppendOnly
<1> DEFINE Kept ==
  \A a \in AttemptId :
    /\ Len(events[a]) <= Len(events'[a])
    /\ \A i \in 1 .. Len(events[a]) : events'[a][i] = events[a][i]
    /\ attempts[a] # NoRow =>
         /\ attempts'[a] # NoRow
         /\ SameIdentity(attempts[a], attempts'[a])
         /\ attempts[a].status \in Terminal => attempts'[a] = attempts[a]
<1>1. LedgerInv /\ [AnyCall]_ledgerVars => [Kept]_ledgerVars
  <2> SUFFICES ASSUME LedgerInv, AnyCall PROVE Kept
    OBVIOUS
  <2>1. PICK row \in Row : Write(row) /\ (Inserts(row) \/ Updates(row))
    BY StepWrites
  <2>2. QED
    BY <2>1, WriteKeepsHistory
<1>2. QED
  BY <1>1, AnyLedgerInvariant, PTL DEF AnyLedgerSpec, HistoryAppendOnly

\* History is append-only and closed attempts stay closed, whatever rows
\* callers offer.
THEOREM HistoryIsAppendOnly == LedgerSpec => HistoryAppendOnly
BY AnyCallKeepsHistory, LedgerTakesAnyCall, PTL

-----------------------------------------------------------------------------
(***************************************************************************)
(* Calls that are made again.  A caller whose answer was lost offers a row  *)
(* that is in the log already; what the ledger may have become since is     *)
(* that the attempt went on.                                                *)
(***************************************************************************)
RetryAnswered ==
  \A a \in AttemptId : attempts[a] # NoRow =>
    /\ RecordVerdict(events[a][1]) = "existing"
    /\ TransitionVerdict(attempts[a]) = "replay"
    /\ \A i \in 1 .. Len(events[a]) :
         RecordVerdict(events[a][i]) # "inserted" /\ TransitionVerdict(events[a][i]) # "applied"

\* The attempt has gone on from every revision, and stopped at one that closed it.
LogBelow(a) ==
  attempts[a] # NoRow =>
    \A i \in 1 .. Len(events[a]) :
      LET row == events[a][i]
      IN  /\ SameIdentity(row, attempts[a]) /\ row.stage <= attempts[a].stage
          /\ row.status \in Terminal => row = attempts[a]

LEMMA WriteKeepsBelow ==
  ASSUME LedgerInv, NEW row \in Row, Write(row), Inserts(row) \/ Updates(row),
         NEW a \in AttemptId, LogBelow(a)
  PROVE  LogBelow(a)'
<1> DEFINE n == Len(events[a])
<1>1. /\ events[a] \in Seq(Row) /\ n \in Nat /\ LedgerTypeOK /\ LogSound(a)
      /\ attempts[a] # NoRow => attempts[a] \in Row
  BY LenProperties DEF LedgerInv, LedgerTypeOK
<1>2. /\ attempts'[row.id] = row /\ events'[row.id] = Append(events[row.id], row)
      /\ a # row.id => attempts'[a] = attempts[a] /\ events'[a] = events[a]
  BY <1>1, WriteEffect
<1>3. CASE a # row.id
  BY <1>3, <1>2 DEF LogBelow
<1>4. CASE a = row.id
  <2>1. /\ Len(events'[a]) = n + 1 /\ events'[a][n + 1] = row
        /\ \A i \in 1 .. n : events'[a][i] = events[a][i]
    BY <1>1, <1>2, <1>4, AppendProperties
  <2>2. row.stage \in Nat /\ row.stage <= row.stage
    BY DEF Row, Stage, Captured, Completed
  <2> DEFINE Gone(i) == /\ SameIdentity(events'[a][i], row) /\ events'[a][i].stage <= row.stage
                        /\ events'[a][i].status \in Terminal => events'[a][i] = row
  <2>3. Gone(n + 1)
    BY <2>1, <2>2 DEF SameIdentity
  <2>4. ASSUME NEW i \in 1 .. n PROVE Gone(i)
    <3>1. attempts[a] # NoRow
      <4> SUFFICES ASSUME attempts[a] = NoRow PROVE FALSE
        OBVIOUS
      <4>1. Len(<<>>) = 0 /\ events[a] = <<>>
        BY <1>1 DEF LogSound
      <4>2. QED
        BY <4>1, <2>4
    <3>2. TransitionValid(attempts[a], row)
      BY <3>1, <1>4 DEF Inserts, Updates
    <3>3. /\ SameIdentity(attempts[a], row) /\ attempts[a].status \notin Terminal
          /\ row.stage \in {attempts[a].stage, attempts[a].stage + 1}
      BY <3>2 DEF TransitionValid, StatusMayBecome, Terminal
    <3>4. events[a][i] \in Row /\ attempts[a] \in Row
      BY <3>1, <2>4, <1>1, ElementOfSeq
    <3>5. events[a][i].stage \in Nat /\ attempts[a].stage \in Nat
      BY <3>4 DEF Row, Stage, Captured, Completed
    <3>6. /\ SameIdentity(events[a][i], attempts[a]) /\ events[a][i].stage <= attempts[a].stage
          /\ events[a][i].status \notin Terminal
      BY <3>1, <3>3, <2>4 DEF LogBelow
    <3>7. SameIdentity(events[a][i], row)
      BY <3>3, <3>6 DEF SameIdentity
    <3>8. events[a][i].stage <= row.stage
      BY <3>3, <3>5, <3>6
    <3>9. events'[a][i] = events[a][i]
      BY <2>1, <2>4
    <3>10. QED
      BY <3>6, <3>7, <3>8, <3>9
  <2>5. \A i \in 1 .. n + 1 : Gone(i)
    <3>1. \A i \in 1 .. n + 1 : i \in 1 .. n \/ i = n + 1
      BY <1>1
    <3> HIDE DEF Gone
    <3>2. QED
      BY <3>1, <2>3, <2>4
  <2>6. attempts'[a] = row
    BY <1>2, <1>4
  <2> HIDE DEF n
  <2>7. QED
    BY <2>1, <2>5, <2>6 DEF LogBelow
<1>5. QED
  BY <1>3, <1>4

\* An attempt is found by its key.
LEMMA KeyFinds ==
  ASSUME LedgerInv, NEW a \in AttemptId, attempts[a] # NoRow
  PROVE  FindByKey(attempts[a].key) = attempts[a]
<1> DEFINE k == attempts[a].key
           c == CHOOSE b \in AttemptId : attempts[b] # NoRow /\ attempts[b].key = k
<1>1. c \in AttemptId /\ attempts[c] # NoRow /\ attempts[c].key = k
  OBVIOUS
<1>2. c = a
  BY <1>1 DEF LedgerInv, KeyHasOneAttempt
<1>3. FindByKey(k) = attempts[c]
  BY DEF FindByKey
<1>4. QED
  BY <1>2, <1>3

LEMMA RetriesAreAnswered ==
  ASSUME LedgerInv, \A a \in AttemptId : LogBelow(a)
  PROVE  RetryAnswered
<1> SUFFICES ASSUME NEW a \in AttemptId, attempts[a] # NoRow
             PROVE  /\ RecordVerdict(events[a][1]) = "existing"
                    /\ TransitionVerdict(attempts[a]) = "replay"
                    /\ \A i \in 1 .. Len(events[a]) :
                         /\ RecordVerdict(events[a][i]) # "inserted"
                         /\ TransitionVerdict(events[a][i]) # "applied"
  BY DEF RetryAnswered
<1> DEFINE now == attempts[a]
<1>1. /\ events[a] \in Seq(Row) /\ Len(events[a]) \in Nat /\ now \in Row /\ now.id = a
      /\ events[a] # <<>> /\ InitialRow(events[a][1]) /\ LogBelow(a)
      /\ FindByKey(now.key) = now
  BY LenProperties, KeyFinds DEF LedgerInv, LedgerTypeOK, LogSound, RowSound
<1>2. 1 \in 1 .. Len(events[a])
  BY <1>1, EmptySeq
<1>3. RecordVerdict(events[a][1]) = "existing"
  <2>1. SameIdentity(now, events[a][1]) /\ events[a][1].key = now.key
    BY <1>1, <1>2 DEF LogBelow, SameIdentity
  <2>2. QED
    BY <2>1, <1>1 DEF RecordVerdict, InitialReplay
<1>4. TransitionVerdict(now) = "replay"
  BY <1>1 DEF TransitionVerdict, SemanticReplay
<1>5. ASSUME NEW i \in 1 .. Len(events[a])
      PROVE  /\ RecordVerdict(events[a][i]) # "inserted"
             /\ TransitionVerdict(events[a][i]) # "applied"
  <2> DEFINE row == events[a][i]
  <2>1. /\ row \in Row /\ row.id = a /\ row.key = now.key /\ row.stage <= now.stage
        /\ row.status \in Terminal => row = now
    BY <1>1, <1>5, ElementOfSeq DEF LogBelow, SameIdentity
  <2> HIDE DEF row
  <2>2. RecordVerdict(row) # "inserted"
    BY <2>1, <1>1 DEF RecordVerdict
  <2>3. ~TransitionValid(now, row)
    <3> SUFFICES ASSUME TransitionValid(now, row) PROVE FALSE
      OBVIOUS
    <3>1. row.stage \in Nat /\ now.stage \in Nat
      BY <2>1, <1>1 DEF Row, Stage, Captured, Completed
    <3>2. row.status \in {"running"} \cup Terminal /\ now.status \notin Terminal
      BY DEF TransitionValid, StatusMayBecome, Terminal
    <3>3. row.status # "running"
      BY <3>1, <2>1 DEF TransitionValid
    <3>4. QED
      BY <3>2, <3>3, <2>1
  <2>4. TransitionVerdict(row) # "applied"
    BY <2>1, <2>3, <1>1 DEF TransitionVerdict
  <2>5. QED
    BY <2>2, <2>4 DEF row
<1>6. QED
  BY <1>3, <1>4, <1>5

\* A call that is made again, because its answer was lost, finds what it
\* recorded (record_attempt, transition_attempt): the attempt it created still
\* answers to its first row, its last row is a replay, and no row of the log is
\* ever written twice, whatever others made of the attempt meanwhile.
THEOREM RetriesChangeNothing == AnyLedgerSpec => []RetryAnswered
<1> DEFINE Below == \A a \in AttemptId : LogBelow(a)
<1>1. LedgerInit => Below
  BY DEF LedgerInit, LogBelow
<1>2. LedgerInv /\ Below /\ [AnyCall]_ledgerVars => Below'
  <2> SUFFICES ASSUME LedgerInv, Below, [AnyCall]_ledgerVars PROVE Below'
    OBVIOUS
  <2>1. CASE UNCHANGED ledgerVars
    BY <2>1 DEF ledgerVars, LogBelow
  <2>2. CASE AnyCall
    BY <2>2, StepWrites, WriteKeepsBelow
  <2>3. QED
    BY <2>1, <2>2
<1>3. LedgerInv /\ Below => RetryAnswered
  BY RetriesAreAnswered
<1>4. QED
  BY <1>1, <1>2, <1>3, AnyLedgerInvariant, PTL DEF AnyLedgerSpec

-----------------------------------------------------------------------------
Call == CaptureCall \cup PipelineCall

CaptureStep == {"diagnose", "capture", "close"}
PipelineStep == {"get", "find", "record", "gates"}

PipeTypeOK ==
  /\ diagnoses \subseteq Diagnosis
  /\ pc \in [Caller -> {"idle"} \cup CaptureStep \cup PipelineStep]
  /\ call \in [Caller -> Call \cup {NoCall}]
  /\ snap \in [Caller -> Row \cup {NoRow}]
  /\ passed \in [Caller -> 0 .. AcceptanceEvaluated]
  /\ \A x \in returned : x.call \in Call

(***************************************************************************)
(* How a row may change while callers work on it: what was recorded of the  *)
(* stages passed stays as it was.  The ledger alone does not promise this.  *)
(***************************************************************************)
Precedes(old, new) ==
  /\ SameIdentity(old, new) /\ old.stage <= new.stage
  /\ \A s \in EvidenceStage : s <= old.stage => new.evidence[s] = old.evidence[s]
  /\ old.stage >= AcceptanceEvaluated => new.tests = old.tests
  /\ old.status \in Terminal => new = old

Gathers(old, new) ==
  /\ new.status = "running" /\ new.stage = old.stage + 1 /\ new.stage \in EvidenceStage
  /\ \E h \in Hash : new.evidence = [old.evidence EXCEPT ![new.stage] = h]

Closes(old, new) ==
  /\ new.status \in Terminal /\ new.evidence = old.evidence
  /\ old.stage >= AcceptanceEvaluated => new.tests = old.tests

\* A success is some call's receipt, on what that call found.
Vouched(row) ==
  row.status = "succeeded" =>
    \E c \in PipelineCall :
      c.receipt = row.receipt /\ c.evidence = row.evidence /\ c.tests = row.tests

Sourced(source) == source = None \/ source \in diagnoses

RowsTrue ==
  \A a \in AttemptId : attempts[a] # NoRow => Vouched(attempts[a]) /\ Sourced(attempts[a].source)

\* The row a caller holds is of its attempt, and the ledger has gone on from it.
Knows(p) ==
  LET row == snap[p]
  IN  /\ row \in Row /\ RowValid(row) /\ row.id = call[p].id
      /\ attempts[row.id] # NoRow /\ Precedes(row, attempts[row.id])

\* What the callbacks so far have compared or recorded.
Agrees(p) ==
  snap[p].status \notin Terminal =>
    /\ passed[p] <= snap[p].stage
    /\ \A s \in EvidenceStage : s <= passed[p] => snap[p].evidence[s] = call[p].evidence[s]
    /\ passed[p] = AcceptanceEvaluated => snap[p].tests = call[p].tests

CallInv(p) ==
  /\ pc[p] \in CaptureStep => call[p] \in CaptureCall
  /\ pc[p] \in PipelineStep => call[p] \in PipelineCall
  /\ pc[p] = "diagnose" => call[p].source # None
  /\ pc[p] \in {"capture", "close"} => Sourced(call[p].source)
  /\ pc[p] = "close" => call[p].close # "open"
  /\ pc[p] # "gates" => passed[p] = 0
  /\ pc[p] \in {"close", "gates"} => Knows(p)
  /\ pc[p] = "gates" => Agrees(p) /\ passed[p] <= call[p].gates

\* What a caller was told of its call holds, and will: the row it is about is closed.
ResultTrue(x) ==
  /\ x.result = "receipt" =>
       /\ x.call \in PipelineCall /\ attempts[x.call.id] # NoRow
       /\ LET row == attempts[x.call.id]
          IN  /\ row.status = "succeeded" /\ row.receipt = x.call.receipt
              /\ row.evidence = x.call.evidence /\ row.tests = x.call.tests
  /\ x.result \in {"rejected", "closed"} =>
       /\ attempts[x.call.id] # NoRow
       /\ LET row == attempts[x.call.id]
          IN  /\ row.status \in Terminal /\ row.reason = x.call.reason
              /\ row.status = IF x.result = "rejected" THEN "rejected" ELSE x.call.close

PipeInv ==
  /\ LedgerInv /\ PipeTypeOK /\ RowsTrue
  /\ \A p \in Caller : CallInv(p)
  /\ \A x \in returned : ResultTrue(x)

\* A step of a caller writes at most one row: a fresh one whose diagnosis is on
\* record, or the next stage or the end of the row that is there.
LedgerMoves ==
  \/ UNCHANGED ledgerVars
  \/ \E row \in Row :
       /\ Write(row) /\ Vouched(row)
       /\ \/ Inserts(row) /\ Sourced(row.source)
          \/ Updates(row) /\ (Gathers(attempts[row.id], row) \/ Closes(attempts[row.id], row))

-----------------------------------------------------------------------------
(***************************************************************************)
(* Rows.                                                                    *)
(***************************************************************************)
LEMMA Stages == Stage = 0 .. 5 /\ EvidenceStage = 1 .. 4 /\ AcceptanceEvaluated = 4 /\ Completed = 5
BY DEF Stage, EvidenceStage, Captured, BaselineEvaluated, AcceptanceEvaluated, Completed

LEMMA NewRowTyped ==
  ASSUME NEW c, CallIdentity(c), NEW source \in Diagnosis \cup {None}
  PROVE  LET row == NewRow(c.id, c.key, c.ident, source)
         IN  /\ row \in Row /\ InitialRow(row) /\ RowValid(row)
             /\ row.id = c.id /\ row.source = source /\ Vouched(row)
             /\ row.status = "proposed"
<1> DEFINE row == NewRow(c.id, c.key, c.ident, source)
<1>1. NoEvidence \in [EvidenceStage -> Hash \cup {None}]
  BY DEF NoEvidence
<1>2. row \in Row
  BY <1>1, Stages DEF NewRow, Row, CallIdentity, AttemptStatus, Captured
<1>3. InitialRow(row) /\ row.id = c.id /\ row.source = source /\ row.status = "proposed"
  BY DEF InitialRow, NewRow
<1>4. QED
  BY <1>2, <1>3, InitialRowValid DEF Vouched

LEMMA PrecedesItself == ASSUME NEW row \in Row PROVE Precedes(row, row)
BY Stages DEF Precedes, SameIdentity, Row

LEMMA PrecedesOn ==
  ASSUME NEW a \in Row, NEW b \in Row, NEW c \in Row, Precedes(a, b), Precedes(b, c)
  PROVE  Precedes(a, c)
<1>1. a.stage \in Int /\ b.stage \in Int /\ c.stage \in Int
  BY Stages DEF Row
<1>2. SameIdentity(a, c) /\ a.stage <= c.stage
  BY <1>1 DEF Precedes, SameIdentity
<1>3. \A s \in EvidenceStage : s <= a.stage => c.evidence[s] = a.evidence[s]
  BY <1>1, Stages DEF Precedes
<1>4. a.stage >= AcceptanceEvaluated => c.tests = a.tests
  BY <1>1, Stages DEF Precedes
<1>5. a.status \in Terminal => c = a
  BY DEF Precedes
<1>6. QED
  BY <1>2, <1>3, <1>4, <1>5 DEF Precedes

\* The next stage or the end of a row goes on from it.
LEMMA MovePrecedes ==
  ASSUME NEW old \in Row, NEW new \in Row, TransitionValid(old, new),
         Gathers(old, new) \/ Closes(old, new)
  PROVE  Precedes(old, new)
<1>1. /\ SameIdentity(old, new) /\ old.status \notin Terminal
      /\ new.stage \in {old.stage, old.stage + 1}
  BY DEF TransitionValid, StatusMayBecome, Terminal
<1>2. /\ old.stage \in Nat /\ new.stage \in Nat
      /\ old.evidence \in [EvidenceStage -> Hash \cup {None}]
  BY Stages DEF Row
<1>3. old.stage <= new.stage
  BY <1>1, <1>2
<1>4. CASE Gathers(old, new)
  <2>1. new.stage = old.stage + 1 /\ old.stage < 4
    BY <1>4, <1>2, Stages DEF Gathers
  <2>2. PICK h \in Hash : new.evidence = [old.evidence EXCEPT ![new.stage] = h]
    BY <1>4 DEF Gathers
  <2>3. \A s \in EvidenceStage : s <= old.stage => new.evidence[s] = old.evidence[s]
    BY <2>1, <2>2, <1>2, Stages
  <2>4. QED
    BY <2>1, <2>3, <1>1, <1>2, <1>3, Stages DEF Precedes
<1>5. CASE Closes(old, new)
  BY <1>5, <1>1, <1>3 DEF Precedes, Closes
<1>6. QED
  BY <1>4, <1>5

\* A row without evidence beyond its stage is what a later row of that stage holds.
LEMMA SameEvidence ==
  ASSUME NEW known \in Row, NEW current \in Row, RowValid(known), RowValid(current),
         Precedes(known, current), known.stage = current.stage
  PROVE  current.evidence = known.evidence
<1>1. /\ known.evidence \in [EvidenceStage -> Hash \cup {None}]
      /\ current.evidence \in [EvidenceStage -> Hash \cup {None}]
      /\ known.stage \in Nat
  BY Stages DEF Row
<1>2. ASSUME NEW s \in EvidenceStage PROVE current.evidence[s] = known.evidence[s]
  <2>1. CASE s <= known.stage
    BY <2>1 DEF Precedes
  <2>2. CASE ~(s <= known.stage)
    BY <2>2 DEF RowValid, StageEvidenceValid
  <2>3. QED
    BY <2>1, <2>2
<1>3. QED
  BY <1>1, <1>2

(***************************************************************************)
(* What a recorder builds from the row it holds, and the ledger accepts,    *)
(* is a next stage or an end of the row that the ledger holds by then.      *)
(***************************************************************************)
LEMMA RecorderGathers ==
  ASSUME NEW known \in Row, NEW current \in Row, NEW new \in Row,
         RowValid(known), RowValid(current), Precedes(known, current),
         NEW s \in EvidenceStage, ~(s <= known.stage), NEW h \in Hash,
         new.status = "running", new.stage = s,
         new.evidence = [known.evidence EXCEPT ![s] = h],
         TransitionValid(current, new)
  PROVE  Gathers(current, new)
<1>1. /\ known.evidence \in [EvidenceStage -> Hash \cup {None}]
      /\ known.stage \in Nat /\ current.stage \in Nat /\ s \in Nat
  BY Stages DEF Row
<1>2. current.stage + 1 = s
  BY DEF TransitionValid
<1>3. known.stage <= current.stage
  BY DEF Precedes
<1>4. known.stage = current.stage
  <2> SUFFICES ASSUME known.stage < current.stage PROVE FALSE
    BY <1>1, <1>3
  <2>1. current.stage \in EvidenceStage /\ current.stage # s /\ current.stage <= s
    BY <1>1, <1>2, Stages
  <2>2. new.evidence[current.stage] # None
    BY <2>1 DEF TransitionValid, StageEvidenceValid
  <2>3. known.evidence[current.stage] = None
    BY <2>1, <1>1 DEF RowValid, StageEvidenceValid
  <2>4. QED
    BY <2>1, <2>2, <2>3, <1>1
<1>5. current.evidence = known.evidence
  BY <1>4, SameEvidence
<1>6. QED
  BY <1>1, <1>2, <1>5 DEF Gathers

LEMMA RecorderCloses ==
  ASSUME NEW known \in Row, NEW current \in Row, NEW new \in Row,
         RowValid(known), RowValid(current), Precedes(known, current),
         new.status \in Terminal, new.evidence = known.evidence, new.tests = known.tests,
         known.status \notin Terminal,
         new.status # "succeeded" => new.stage = known.stage,
         TransitionValid(current, new)
  PROVE  Closes(current, new)
<1>1. known.stage \in 0 .. 5 /\ current.stage \in 0 .. 5 /\ new.stage \in 0 .. 5
  BY Stages DEF Row
<1>2. /\ new.stage \in {current.stage, current.stage + 1} /\ known.stage <= current.stage
      /\ (new.status = "succeeded") = (new.stage = 5)
  BY Stages DEF TransitionValid, Precedes
<1>3. known.stage = current.stage
  <2>1. CASE new.status # "succeeded"
    BY <2>1, <1>1, <1>2
  <2>2. CASE new.status = "succeeded"
    <3>1. current.status \notin Terminal
      BY DEF TransitionValid, StatusMayBecome, Terminal
    <3>2. current.stage # 5 /\ known.stage # 5
      BY <3>1, Stages DEF RowValid, Terminal
    <3>3. current.stage = 4
      BY <2>2, <3>2, <1>1, <1>2
    <3>4. 4 \in EvidenceStage /\ new.evidence[4] # None
      BY <2>2, <1>2, Stages DEF TransitionValid, StageEvidenceValid
    <3>5. 4 <= known.stage
      BY <3>4 DEF RowValid, StageEvidenceValid
    <3>6. QED
      BY <3>2, <3>3, <3>5, <1>1
  <2>3. QED
    BY <2>1, <2>2
<1>4. current.evidence = known.evidence
  BY <1>3, SameEvidence
<1>5. current.stage >= AcceptanceEvaluated => new.tests = current.tests
  BY <1>3 DEF Precedes
<1>6. QED
  BY <1>4, <1>5 DEF Closes

-----------------------------------------------------------------------------
(***************************************************************************)
(* What a step of one caller leaves true for all.                           *)
(***************************************************************************)
LEMMA LedgerGoesOn ==
  ASSUME LedgerInv, LedgerMoves
  PROVE  /\ LedgerInv'
         /\ \A a \in AttemptId : attempts[a] # NoRow =>
              attempts'[a] # NoRow /\ attempts'[a] \in Row /\ Precedes(attempts[a], attempts'[a])
<1>1. \A a \in AttemptId : attempts[a] # NoRow => attempts[a] \in Row /\ attempts[a].id = a
  BY DEF LedgerInv, LedgerTypeOK, RowSound
<1>2. CASE UNCHANGED ledgerVars
  <2>1. LedgerInv'
    BY <1>2 DEF ledgerVars, LedgerInv, LedgerTypeOK, LogSound, RowSound, KeyHasOneAttempt
  <2>2. QED
    BY <2>1, <1>1, <1>2, PrecedesItself DEF ledgerVars
<1>3. CASE ~(UNCHANGED ledgerVars)
  <2>1. PICK row \in Row :
          /\ Write(row)
          /\ \/ Inserts(row)
             \/ Updates(row) /\ (Gathers(attempts[row.id], row) \/ Closes(attempts[row.id], row))
    BY <1>3 DEF LedgerMoves
  <2>2. LedgerInv'
    BY <2>1, WriteKeeps
  <2>3. /\ row.id \in AttemptId /\ attempts'[row.id] = row
        /\ \A a \in AttemptId : a # row.id => attempts'[a] = attempts[a]
    BY <2>1, WriteEffect DEF LedgerInv, Row
  <2>4. ASSUME NEW a \in AttemptId, attempts[a] # NoRow
        PROVE  attempts'[a] # NoRow /\ attempts'[a] \in Row /\ Precedes(attempts[a], attempts'[a])
    <3>1. CASE a # row.id
      BY <3>1, <2>3, <2>4, <1>1, PrecedesItself
    <3>2. CASE a = row.id
      <4>1. TransitionValid(attempts[a], row)
        BY <3>2, <2>1, <2>4 DEF Inserts, Updates
      <4>2. Gathers(attempts[a], row) \/ Closes(attempts[a], row)
        BY <3>2, <2>1, <2>4 DEF Inserts
      <4>3. Precedes(attempts[a], row)
        BY <4>1, <4>2, <2>4, <1>1, MovePrecedes
      <4>4. QED
        BY <4>3, <3>2, <2>3, NoneAssumption
    <3>3. QED
      BY <3>1, <3>2
  <2>5. QED
    BY <2>2, <2>4
<1>4. QED
  BY <1>2, <1>3

LEMMA RowsStayTrue ==
  ASSUME LedgerInv, RowsTrue, LedgerMoves, diagnoses \subseteq diagnoses'
  PROVE  RowsTrue'
<1> SUFFICES ASSUME NEW a \in AttemptId, attempts'[a] # NoRow
             PROVE  /\ Vouched(attempts'[a])
                    /\ attempts'[a].source = None \/ attempts'[a].source \in diagnoses'
  BY DEF RowsTrue, Sourced
<1>1. CASE UNCHANGED ledgerVars
  BY <1>1 DEF ledgerVars, RowsTrue, Sourced
<1>2. CASE ~(UNCHANGED ledgerVars)
  <2>1. PICK row \in Row :
          /\ Write(row) /\ Vouched(row)
          /\ \/ Inserts(row) /\ Sourced(row.source)
             \/ Updates(row)
    BY <1>2 DEF LedgerMoves
  <2>2. /\ row.id \in AttemptId /\ attempts'[row.id] = row
        /\ \A b \in AttemptId : b # row.id => attempts'[b] = attempts[b]
    BY <2>1, WriteEffect DEF LedgerInv, Row
  <2>3. CASE a # row.id
    BY <2>3, <2>2 DEF RowsTrue, Sourced
  <2>4. CASE a = row.id
    <3>1. Sourced(row.source)
      BY <2>1, <2>2 DEF Updates, TransitionValid, SameIdentity, RowsTrue
    <3>2. QED
      BY <3>1, <2>1, <2>2, <2>4 DEF Sourced
  <2>5. QED
    BY <2>3, <2>4
<1>3. QED
  BY <1>1, <1>2

\* What a caller holds and was told does not become false by what others do.
LEMMA OthersKeep ==
  ASSUME PipeInv, LedgerMoves, diagnoses \subseteq diagnoses', NEW q \in Caller,
         pc'[q] = pc[q], call'[q] = call[q], snap'[q] = snap[q], passed'[q] = passed[q]
  PROVE  CallInv(q)'
<1>1. CallInv(q)
  BY DEF PipeInv
<1>2. Agrees(q) => Agrees(q)'
  BY DEF Agrees
<1>3. \A d : Sourced(d) => Sourced(d)'
  BY DEF Sourced
<1>4. ASSUME Knows(q) PROVE Knows(q)'
  <2>1. snap[q].id \in AttemptId /\ snap[q] \in Row /\ attempts[snap[q].id] # NoRow
    BY <1>4 DEF Knows, Row
  <2>2. attempts[snap[q].id] \in Row
    BY <2>1 DEF PipeInv, LedgerInv, LedgerTypeOK
  <2>3. /\ attempts'[snap[q].id] # NoRow /\ attempts'[snap[q].id] \in Row
        /\ Precedes(attempts[snap[q].id], attempts'[snap[q].id])
    BY <2>1, LedgerGoesOn DEF PipeInv
  <2>4. Precedes(snap[q], attempts'[snap[q].id])
    BY <1>4, <2>1, <2>2, <2>3, PrecedesOn DEF Knows
  <2>5. QED
    BY <1>4, <2>3, <2>4 DEF Knows
<1>5. QED
  BY <1>1, <1>2, <1>3, <1>4 DEF CallInv

LEMMA CallsTyped ==
  /\ \A c \in Call : CallIdentity(c) /\ c.id \in AttemptId
  /\ CaptureCall \cap PipelineCall = {}
BY CaptureAssumption, PipelineAssumption DEF Call, CallIdentity

LEMMA ResultsStay ==
  ASSUME PipeInv, LedgerMoves, NEW x \in returned
  PROVE  ResultTrue(x)'
<1>1. ResultTrue(x) /\ x.call.id \in AttemptId
  BY CallsTyped DEF PipeInv, PipeTypeOK
<1>2. attempts[x.call.id] # NoRow =>
        attempts'[x.call.id] # NoRow /\ Precedes(attempts[x.call.id], attempts'[x.call.id])
  BY <1>1, LedgerGoesOn DEF PipeInv
<1>3. (attempts[x.call.id] # NoRow /\ attempts[x.call.id].status \in Terminal) =>
        attempts'[x.call.id] = attempts[x.call.id]
  BY <1>2 DEF Precedes
<1>4. QED
  BY <1>1, <1>2, <1>3 DEF ResultTrue, Terminal

\* A step of p that keeps the invariant: each part of it that p can disturb.
Kept(p) ==
  /\ LedgerMoves /\ diagnoses \subseteq diagnoses' /\ PipeTypeOK'
  /\ \A q \in Caller : q # p =>
       pc'[q] = pc[q] /\ call'[q] = call[q] /\ snap'[q] = snap[q] /\ passed'[q] = passed[q]
  /\ CallInv(p)'
  /\ \A x \in returned' : x \in returned \/ ResultTrue(x)'

LEMMA KeptKeeps ==
  ASSUME PipeInv, NEW p \in Caller, Kept(p)
  PROVE  PipeInv'
<1>1. LedgerInv' /\ RowsTrue'
  BY LedgerGoesOn, RowsStayTrue DEF PipeInv, Kept
<1>2. \A q \in Caller : CallInv(q)'
  BY OthersKeep DEF PipeInv, Kept
<1>3. \A x \in returned' : ResultTrue(x)'
  BY ResultsStay DEF Kept
<1>4. QED
  BY <1>1, <1>2, <1>3 DEF PipeInv, Kept

-----------------------------------------------------------------------------
(***************************************************************************)
(* The ways a step ends: the caller goes on, or the call is over.           *)
(***************************************************************************)
LEMMA FinishKeeps ==
  ASSUME PipeInv, NEW p \in Caller, pc[p] # "idle", NEW result, Finish(p, result),
         LedgerMoves, diagnoses' = diagnoses,
         \A x : x.call = call[p] /\ x.result = result => ResultTrue(x)'
  PROVE  Kept(p)
<1>1. call[p] \in Call /\ PipeTypeOK
  BY DEF PipeInv, PipeTypeOK, CallInv, Call
<1>2. /\ pc' = [pc EXCEPT ![p] = "idle"] /\ call' = [call EXCEPT ![p] = NoCall]
      /\ snap' = [snap EXCEPT ![p] = NoRow] /\ passed' = [passed EXCEPT ![p] = 0]
      /\ returned' = returned \cup {[call |-> call[p], result |-> result]}
  BY DEF Finish, Idle
<1>3. 0 \in 0 .. AcceptanceEvaluated
  BY Stages
<1>4. PipeTypeOK'
  BY <1>1, <1>2, <1>3 DEF PipeTypeOK
<1>5. pc'[p] = "idle" /\ passed'[p] = 0
  BY <1>1, <1>2 DEF PipeTypeOK
<1>6. CallInv(p)'
  BY <1>5 DEF CallInv, CaptureStep, PipelineStep
<1>7. QED
  BY <1>1, <1>2, <1>4, <1>6 DEF Kept, PipeTypeOK

LEMMA FailKeeps ==
  ASSUME PipeInv, NEW p \in Caller, pc[p] # "idle",
         NEW result \in {"conflict", "integrity_error"}, Fail(p, result), diagnoses' = diagnoses
  PROVE  Kept(p)
<1>1. Finish(p, result) /\ LedgerMoves
  BY DEF Fail, LedgerMoves
<1>2. \A x : x.call = call[p] /\ x.result = result => ResultTrue(x)'
  BY DEF ResultTrue
<1>3. QED
  BY <1>1, <1>2, FinishKeeps

LEMMA ProceedKeeps ==
  ASSUME PipeInv, NEW p \in Caller, NEW step \in CaptureStep \cup PipelineStep,
         NEW row \in Row \cup {NoRow}, NEW n \in 0 .. AcceptanceEvaluated,
         Proceed(p, step, row), passed' = [passed EXCEPT ![p] = n],
         LedgerMoves, diagnoses \subseteq diagnoses', diagnoses' \subseteq Diagnosis,
         (pc'[p] = step /\ call'[p] = call[p] /\ snap'[p] = row /\ passed'[p] = n) => CallInv(p)'
  PROVE  Kept(p)
<1>1. PipeTypeOK
  BY DEF PipeInv
<1>2. /\ pc' = [pc EXCEPT ![p] = step] /\ snap' = [snap EXCEPT ![p] = row]
      /\ call' = call /\ returned' = returned
  BY DEF Proceed
<1>3. PipeTypeOK'
  BY <1>1, <1>2 DEF PipeTypeOK
<1>4. pc'[p] = step /\ call'[p] = call[p] /\ snap'[p] = row /\ passed'[p] = n
  BY <1>1, <1>2 DEF PipeTypeOK
<1>5. QED
  BY <1>1, <1>2, <1>3, <1>4 DEF Kept, PipeTypeOK

LEMMA AcceptedRow ==
  ASSUME LedgerInv, NEW row \in Row, Accepted(row)
  PROVE  \/ /\ Write(row) /\ Updates(row) /\ Answer(row) = row
            /\ TransitionValid(attempts[row.id], row) /\ attempts[row.id] # NoRow
         \/ /\ UNCHANGED ledgerVars /\ attempts[row.id] # NoRow
            /\ SemanticReplay(attempts[row.id], row) /\ Answer(row) = attempts[row.id]
<1>1. CASE TransitionAttempt(row)
  <2>1. Write(row) /\ Updates(row) /\ TransitionVerdict(row) = "applied"
    BY <1>1, TransitionUpdates DEF TransitionAttempt
  <2>2. QED
    BY <2>1 DEF Updates, Answer
<1>2. CASE TransitionVerdict(row) = "replay" /\ UNCHANGED ledgerVars
  <2>1. attempts[row.id] # NoRow
    BY <1>2 DEF TransitionVerdict
  <2>2. SemanticReplay(attempts[row.id], row)
    BY <2>1, <1>2 DEF TransitionVerdict
  <2>3. QED
    BY <2>1, <2>2, <1>2 DEF Answer
<1>3. QED
  BY <1>1, <1>2 DEF Accepted

-----------------------------------------------------------------------------
(***************************************************************************)
(* One lemma for each action.                                               *)
(***************************************************************************)
LEMMA PipeInitial == Init => PipeInv
<1> SUFFICES ASSUME Init PROVE PipeInv
  OBVIOUS
<1>1. LedgerInv
  BY InitialLedger DEF Init
<1>2. \A a \in AttemptId : attempts[a] = NoRow
  BY DEF Init, LedgerInit
<1>3. PipeTypeOK
  BY Stages DEF Init, PipeTypeOK
<1>4. \A p \in Caller : CallInv(p)
  BY DEF Init, CallInv, CaptureStep, PipelineStep
<1>5. QED
  BY <1>1, <1>2, <1>3, <1>4 DEF PipeInv, RowsTrue, Init

LEMMA BeginKeeps == ASSUME PipeInv, NEW p \in Caller, Begin(p) PROVE Kept(p)
<1>1. PICK c \in Call :
        /\ call' = [call EXCEPT ![p] = c]
        /\ pc' = [pc EXCEPT ![p] = IF c.kind = "pipeline" THEN "get"
                                   ELSE IF c.source = None THEN "capture" ELSE "diagnose"]
  BY DEF Begin, Call
<1>2. /\ pc[p] = "idle" /\ PipeTypeOK /\ CallInv(p)
      /\ UNCHANGED <<attempts, events, diagnoses, snap, passed, returned>>
  BY DEF Begin, PipeInv
<1>3. PipeTypeOK'
  BY <1>1, <1>2 DEF PipeTypeOK, CaptureStep, PipelineStep
<1>4. call'[p] = c /\ passed'[p] = 0 /\ passed' = passed
  BY <1>1, <1>2 DEF PipeTypeOK, CallInv
<1>5. CASE c \in PipelineCall
  <2>1. pc'[p] = "get"
    BY <1>1, <1>2, <1>5, PipelineAssumption DEF PipeTypeOK
  <2>2. CallInv(p)'
    BY <2>1, <1>4, <1>5 DEF CallInv, CaptureStep, PipelineStep
  <2>3. QED
    BY <2>2, <1>1, <1>2, <1>3 DEF Kept, LedgerMoves, ledgerVars, PipeTypeOK
<1>6. CASE c \in CaptureCall
  <2>1. pc'[p] = IF c.source = None THEN "capture" ELSE "diagnose"
    BY <1>1, <1>2, <1>6, CaptureAssumption DEF PipeTypeOK
  <2>2. CallInv(p)'
    BY <2>1, <1>4, <1>6 DEF CallInv, CaptureStep, PipelineStep, Sourced
  <2>3. QED
    BY <2>2, <1>1, <1>2, <1>3 DEF Kept, LedgerMoves, ledgerVars, PipeTypeOK
<1>7. QED
  BY <1>5, <1>6 DEF Call

LEMMA CrashKeeps == ASSUME PipeInv, NEW p \in Caller, Crash(p) PROVE Kept(p)
<1>1. /\ PipeTypeOK /\ UNCHANGED <<attempts, events, diagnoses, returned>>
      /\ pc' = [pc EXCEPT ![p] = "idle"] /\ call' = [call EXCEPT ![p] = NoCall]
      /\ snap' = [snap EXCEPT ![p] = NoRow] /\ passed' = [passed EXCEPT ![p] = 0]
  BY DEF Crash, Idle, PipeInv
<1>2. PipeTypeOK' /\ pc'[p] = "idle" /\ passed'[p] = 0
  BY <1>1, Stages DEF PipeTypeOK
<1>3. CallInv(p)'
  BY <1>2 DEF CallInv, CaptureStep, PipelineStep
<1>4. QED
  BY <1>1, <1>2, <1>3 DEF Kept, LedgerMoves, ledgerVars, PipeTypeOK

\* The call of a caller that is at a step of a handoff, or of the pipeline.
LEMMA HandoffCall ==
  ASSUME PipeInv, NEW p \in Caller, pc[p] \in CaptureStep
  PROVE  /\ call[p] \in CaptureCall /\ CallIdentity(call[p])
         /\ call[p].source \in Diagnosis \cup {None}
         /\ call[p].close \in {"open", "failed", "rejected"} /\ call[p].reason \in Reason
         /\ passed[p] = 0 /\ passed \in [Caller -> 0 .. AcceptanceEvaluated]
         /\ pc[p] # "idle" /\ CallInv(p)
BY CaptureAssumption DEF PipeInv, CallInv, CaptureStep, PipeTypeOK

LEMMA PipelineCallHere ==
  ASSUME PipeInv, NEW p \in Caller, pc[p] \in PipelineStep
  PROVE  /\ call[p] \in PipelineCall /\ CallIdentity(call[p])
         /\ call[p].evidence \in [EvidenceStage -> Hash] /\ call[p].tests \in TestEvidence
         /\ call[p].receipt \in Hash /\ call[p].gates \in 0 .. AcceptanceEvaluated
         /\ call[p].reason = None => call[p].gates = AcceptanceEvaluated
         /\ call[p].reason # None => call[p].reason \in Reason
         /\ passed \in [Caller -> 0 .. AcceptanceEvaluated]
         /\ pc[p] # "idle" /\ CallInv(p)
BY PipelineAssumption DEF PipeInv, CallInv, PipelineStep, PipeTypeOK

LEMMA RecordDiagnosisKeeps ==
  ASSUME PipeInv, NEW p \in Caller, RecordDiagnosis(p) PROVE Kept(p)
<1> DEFINE d == call[p].source
<1>1. pc[p] = "diagnose" /\ pc[p] \in CaptureStep /\ diagnoses \subseteq Diagnosis
  BY DEF RecordDiagnosis, CaptureStep, PipeInv, PipeTypeOK
<1>2. /\ d \in Diagnosis /\ call[p] \in CaptureCall /\ pc[p] # "idle"
      /\ passed[p] = 0 /\ passed \in [Caller -> 0 .. AcceptanceEvaluated]
  BY <1>1, HandoffCall DEF CallInv
<1>3. CASE Fail(p, "conflict") /\ UNCHANGED diagnoses
  BY <1>3, <1>2, FailKeeps
<1>4. CASE ~(Fail(p, "conflict") /\ UNCHANGED diagnoses)
  <2>1. /\ diagnoses' = diagnoses \cup {d} /\ Proceed(p, "capture", NoRow)
        /\ UNCHANGED <<attempts, events, passed>>
    BY <1>4 DEF RecordDiagnosis
  <2>2. LedgerMoves /\ passed' = [passed EXCEPT ![p] = 0]
    BY <2>1, <1>2 DEF LedgerMoves, ledgerVars
  <2>3. (pc'[p] = "capture" /\ call'[p] = call[p] /\ passed'[p] = 0) => CallInv(p)'
    BY <2>1, <1>2 DEF CallInv, CaptureStep, PipelineStep, Sourced
  <2>4. 0 \in 0 .. AcceptanceEvaluated
    BY Stages
  <2>5. QED
    BY <2>1, <2>2, <2>3, <2>4, <1>1, <1>2, ProceedKeeps DEF CaptureStep
<1>5. QED
  BY <1>3, <1>4

\* A row of the ledger as it is now, for the caller that it is given to.
LEMMA RowHere ==
  ASSUME LedgerInv, NEW a \in AttemptId, attempts[a] # NoRow
  PROVE  /\ attempts[a] \in Row /\ attempts[a].id = a /\ RowValid(attempts[a])
         /\ Precedes(attempts[a], attempts[a])
BY PrecedesItself DEF LedgerInv, LedgerTypeOK, RowSound

LEMMA FoundRow ==
  ASSUME LedgerInv, NEW k, FindByKey(k) # NoRow
  PROVE  LET row == FindByKey(k)
         IN  /\ row \in Row /\ RowValid(row) /\ row.key = k /\ row.id \in AttemptId
             /\ attempts[row.id] = row
<1> DEFINE a == CHOOSE b \in AttemptId : attempts[b] # NoRow /\ attempts[b].key = k
<1>1. \E b \in AttemptId : attempts[b] # NoRow /\ attempts[b].key = k
  BY DEF FindByKey
<1>2. a \in AttemptId /\ attempts[a] # NoRow /\ attempts[a].key = k /\ FindByKey(k) = attempts[a]
  BY <1>1 DEF FindByKey
<1>3. QED
  BY <1>2, RowHere

\* After the capture: the call is over, or it goes on to close the row it has.
LEMMA AfterCaptureKeeps ==
  ASSUME PipeInv, NEW p \in Caller, pc[p] = "capture", NEW row \in Row, RowValid(row),
         row.id = call[p].id, LedgerMoves, diagnoses' = diagnoses,
         attempts'[row.id] = row, AfterCapture(p, row)
  PROVE  Kept(p)
<1>1. /\ pc[p] \in CaptureStep /\ call[p] \in CaptureCall /\ Sourced(call[p].source)
      /\ passed[p] = 0 /\ passed \in [Caller -> 0 .. AcceptanceEvaluated] /\ pc[p] # "idle"
  BY HandoffCall DEF CaptureStep, CallInv
<1>2. CASE call[p].close = "open"
  <2>1. Finish(p, "captured")
    BY <1>2 DEF AfterCapture
  <2>2. \A x : x.call = call[p] /\ x.result = "captured" => ResultTrue(x)'
    BY DEF ResultTrue
  <2>3. QED
    BY <2>1, <2>2, <1>1, FinishKeeps
<1>3. CASE call[p].close # "open"
  <2>1. Proceed(p, "close", row) /\ passed' = passed
    BY <1>3 DEF AfterCapture
  <2>2. passed' = [passed EXCEPT ![p] = 0] /\ 0 \in 0 .. AcceptanceEvaluated
    BY <2>1, <1>1, Stages
  <2>3. ASSUME pc'[p] = "close", call'[p] = call[p], snap'[p] = row, passed'[p] = 0
        PROVE  CallInv(p)'
    <3>1. row # NoRow /\ Precedes(row, row)
      BY NoneAssumption, PrecedesItself
    <3>2. Knows(p)'
      BY <2>3, <3>1 DEF Knows
    <3>3. QED
      BY <2>3, <3>2, <1>1, <1>3 DEF CallInv, CaptureStep, PipelineStep, Sourced
  <2>4. diagnoses' \subseteq Diagnosis
    BY DEF PipeInv, PipeTypeOK
  <2>5. QED
    BY <2>1, <2>2, <2>3, <2>4, ProceedKeeps DEF CaptureStep
<1>4. QED
  BY <1>2, <1>3

LEMMA CaptureKeeps == ASSUME PipeInv, NEW p \in Caller, Capture(p) PROVE Kept(p)
<1> DEFINE c == call[p]
           row == NewRow(c.id, c.key, c.ident, c.source)
<1>1. pc[p] = "capture" /\ pc[p] \in CaptureStep /\ diagnoses' = diagnoses /\ LedgerInv
  BY DEF Capture, CaptureStep, PipeInv
<1>2. /\ CallIdentity(c) /\ c.source \in Diagnosis \cup {None} /\ pc[p] # "idle"
      /\ Sourced(c.source)
  BY <1>1, HandoffCall DEF CallInv
<1>3. /\ row \in Row /\ RowValid(row) /\ row.id = c.id /\ row.key = c.key
      /\ row.source = c.source /\ Vouched(row) /\ InitialRow(row)
  BY <1>2, NewRowTyped DEF NewRow
<1> HIDE DEF row
<1>4. CASE RecordAttempt(row) /\ AfterCapture(p, row)
  <2>1. Inserts(row) /\ Write(row)
    BY <1>1, <1>3, <1>4, RecordInserts DEF LedgerInv
  <2>2. LedgerMoves /\ attempts'[row.id] = row
    BY <2>1, <1>1, <1>2, <1>3, WriteEffect DEF LedgerMoves, LedgerInv
  <2>3. QED
    BY <2>2, <1>1, <1>3, <1>4, AfterCaptureKeeps
<1>5. CASE /\ RecordVerdict(row) = "existing" /\ UNCHANGED ledgerVars
           /\ AfterCapture(p, FindByKey(c.key))
  <2>1. FindByKey(c.key) # NoRow
    BY <1>5, <1>3 DEF RecordVerdict
  <2>2. FindByKey(c.key) = row \/ InitialReplay(FindByKey(c.key), row)
    BY <2>1, <1>5, <1>3 DEF RecordVerdict
  <2>3. /\ FindByKey(c.key) \in Row /\ RowValid(FindByKey(c.key))
        /\ attempts[FindByKey(c.key).id] = FindByKey(c.key)
    BY <2>1, <1>1, FoundRow
  <2>4. FindByKey(c.key).id = c.id
    BY <2>2, <1>3 DEF InitialReplay, SameIdentity
  <2>5. LedgerMoves /\ attempts' = attempts
    BY <1>5 DEF LedgerMoves, ledgerVars
  <2>6. attempts'[FindByKey(c.key).id] = FindByKey(c.key)
    BY <2>3, <2>5
  <2>7. QED
    BY <2>3, <2>4, <2>5, <2>6, <1>1, <1>5, AfterCaptureKeeps
<1>6. CASE \E verdict \in {"conflict", "integrity_error"} : Fail(p, verdict)
  BY <1>6, <1>1, <1>2, FailKeeps
<1>7. QED
  BY <1>4, <1>5, <1>6 DEF Capture, row

\* A caller's end of the row it holds, once the ledger takes it or has it already.
LEMMA AcceptedEnd ==
  ASSUME PipeInv, NEW p \in Caller, Knows(p), NEW row \in Row, Accepted(row), Vouched(row),
         row.id = snap[p].id, row.status \in Terminal,
         row.evidence = snap[p].evidence, row.tests = snap[p].tests,
         row.status # "succeeded" => row.stage = snap[p].stage
  PROVE  LedgerMoves /\ attempts'[row.id] = row
<1> DEFINE current == attempts[row.id]
<1>1. LedgerInv /\ row.id \in AttemptId
  BY DEF PipeInv, Row
<1>2. CASE Write(row) /\ Updates(row) /\ TransitionValid(current, row) /\ current # NoRow
  <2>1. current \in Row /\ RowValid(current)
    BY <1>1, <1>2, RowHere
  <2>2. snap[p] \in Row /\ RowValid(snap[p]) /\ Precedes(snap[p], current)
    BY DEF Knows
  <2>3. snap[p].status \notin Terminal
    BY <2>2, <1>2 DEF Precedes, TransitionValid, StatusMayBecome, Terminal
  <2>4. Closes(current, row)
    BY <2>1, <2>2, <2>3, <1>2, RecorderCloses
  <2>5. QED
    BY <2>4, <1>1, <1>2, WriteEffect DEF LedgerMoves, LedgerInv
<1>3. CASE UNCHANGED ledgerVars /\ current # NoRow /\ SemanticReplay(current, row)
  <2>1. current = row
    BY <1>3 DEF SemanticReplay, Terminal
  <2>2. QED
    BY <2>1, <1>3 DEF LedgerMoves, ledgerVars
<1>4. QED
  BY <1>1, <1>2, <1>3, AcceptedRow

LEMMA CloseCaptureKeeps == ASSUME PipeInv, NEW p \in Caller, CloseCapture(p) PROVE Kept(p)
<1> DEFINE row == [snap[p] EXCEPT !.status = call[p].close, !.reason = call[p].reason]
<1>1. pc[p] = "close" /\ pc[p] \in CaptureStep /\ diagnoses' = diagnoses
  BY DEF CloseCapture, CaptureStep
<1>2. /\ Knows(p) /\ call[p].close \in {"failed", "rejected"} /\ call[p].reason \in Reason
      /\ pc[p] # "idle"
  BY <1>1, HandoffCall DEF CallInv
<1>3. snap[p] \in Row /\ snap[p].id = call[p].id
  BY <1>2 DEF Knows
<1>4. /\ row \in Row /\ row.id = call[p].id /\ row.status = call[p].close
      /\ row.reason = call[p].reason /\ row.stage = snap[p].stage
      /\ row.evidence = snap[p].evidence /\ row.tests = snap[p].tests
      /\ row.status \in Terminal /\ row.status # "succeeded"
  BY <1>2, <1>3 DEF Row, AttemptStatus, Terminal
<1> HIDE DEF row
<1>5. CASE Refused(p, row)
  BY <1>5, <1>1, <1>2, FailKeeps DEF Refused
<1>6. CASE Accepted(row) /\ Finish(p, "closed")
  <2>1. LedgerMoves /\ attempts'[row.id] = row
    BY <1>6, <1>2, <1>3, <1>4, AcceptedEnd DEF Vouched
  <2>2. row # NoRow
    BY <1>4, NoneAssumption
  <2>3. ASSUME NEW x, x.call = call[p], x.result = "closed" PROVE ResultTrue(x)'
    BY <2>1, <2>2, <2>3, <1>4 DEF ResultTrue
  <2>4. QED
    BY <2>1, <2>3, <1>1, <1>2, <1>6, FinishKeeps
<1>7. QED
  BY <1>5, <1>6 DEF CloseCapture, row

-----------------------------------------------------------------------------
\* A caller goes to its gates with the row the ledger has.
LEMMA ToGatesKeeps ==
  ASSUME PipeInv, NEW p \in Caller, pc[p] \in PipelineStep \ {"gates"}, NEW row \in Row,
         RowValid(row), row.id = call[p].id, LedgerMoves, attempts'[row.id] = row,
         Proceed(p, "gates", row), UNCHANGED <<passed, diagnoses>>
  PROVE  Kept(p)
<1>1. /\ call[p] \in PipelineCall /\ passed[p] = 0 /\ call[p].gates \in 0 .. AcceptanceEvaluated
      /\ passed \in [Caller -> 0 .. AcceptanceEvaluated]
  BY PipelineCallHere DEF CallInv
<1>2. passed' = [passed EXCEPT ![p] = 0] /\ 0 \in 0 .. AcceptanceEvaluated
  BY <1>1, Stages
<1>3. ASSUME pc'[p] = "gates", call'[p] = call[p], snap'[p] = row, passed'[p] = 0
      PROVE  CallInv(p)'
  <2>1. row # NoRow /\ Precedes(row, row)
    BY NoneAssumption, PrecedesItself
  <2>2. Knows(p)'
    BY <1>3, <2>1 DEF Knows
  <2>3. Agrees(p)' /\ passed'[p] <= call'[p].gates
    BY <1>3, <1>1, Stages DEF Agrees, Row
  <2>4. QED
    BY <2>2, <2>3, <1>3, <1>1 DEF CallInv, CaptureStep, PipelineStep
<1>4. diagnoses' \subseteq Diagnosis
  BY DEF PipeInv, PipeTypeOK
<1>5. QED
  BY <1>2, <1>3, <1>4, ProceedKeeps DEF PipelineStep

LEMMA AdoptKeeps ==
  ASSUME PipeInv, NEW p \in Caller, pc[p] \in PipelineStep \ {"gates"}, NEW row \in Row,
         RowValid(row), attempts[row.id] = row, Adopt(p, row), diagnoses' = diagnoses
  PROVE  Kept(p)
<1>1. CASE SameCall(call[p], row)
  <2>1. /\ Proceed(p, "gates", row) /\ UNCHANGED <<attempts, events, passed>>
        /\ row.id = call[p].id
    BY <1>1 DEF Adopt, SameCall
  <2>2. LedgerMoves /\ attempts'[row.id] = row
    BY <2>1 DEF LedgerMoves, ledgerVars
  <2>3. QED
    BY <2>1, <2>2, ToGatesKeeps
<1>2. CASE ~SameCall(call[p], row)
  BY <1>2, FailKeeps DEF Adopt, PipelineStep
<1>3. QED
  BY <1>1, <1>2

\* Nothing was found: the caller goes on to look elsewhere, knowing nothing.
LEMMA LookOnKeeps ==
  ASSUME PipeInv, NEW p \in Caller, pc[p] \in PipelineStep \ {"gates"},
         NEW step \in {"find", "record"}, Proceed(p, step, NoRow),
         UNCHANGED <<attempts, events, passed, diagnoses>>
  PROVE  Kept(p)
<1>1. /\ call[p] \in PipelineCall /\ passed[p] = 0
      /\ passed \in [Caller -> 0 .. AcceptanceEvaluated]
  BY PipelineCallHere DEF CallInv
<1>2. passed' = [passed EXCEPT ![p] = 0] /\ 0 \in 0 .. AcceptanceEvaluated
  BY <1>1, Stages
<1>3. (pc'[p] = step /\ call'[p] = call[p] /\ passed'[p] = 0) => CallInv(p)'
  BY <1>1 DEF CallInv, CaptureStep, PipelineStep
<1>4. LedgerMoves /\ diagnoses' \subseteq Diagnosis
  BY DEF LedgerMoves, ledgerVars, PipeInv, PipeTypeOK
<1>5. QED
  BY <1>2, <1>3, <1>4, ProceedKeeps DEF PipelineStep

LEMMA GetAttemptKeeps == ASSUME PipeInv, NEW p \in Caller, GetAttempt(p) PROVE Kept(p)
<1>1. pc[p] \in PipelineStep \ {"gates"} /\ diagnoses' = diagnoses /\ LedgerInv
  BY DEF GetAttempt, PipelineStep, PipeInv
<1>2. call[p].id \in AttemptId
  BY <1>1, PipelineCallHere DEF CallIdentity
<1>3. CASE attempts[call[p].id] = NoRow
  BY <1>3, <1>1, LookOnKeeps DEF GetAttempt
<1>4. CASE attempts[call[p].id] # NoRow
  BY <1>4, <1>1, <1>2, RowHere, AdoptKeeps DEF GetAttempt
<1>5. QED
  BY <1>3, <1>4

LEMMA FindAttemptKeeps == ASSUME PipeInv, NEW p \in Caller, FindAttempt(p) PROVE Kept(p)
<1>1. pc[p] \in PipelineStep \ {"gates"} /\ diagnoses' = diagnoses /\ LedgerInv
  BY DEF FindAttempt, PipelineStep, PipeInv
<1>2. CASE FindByKey(call[p].key) = NoRow
  BY <1>2, <1>1, LookOnKeeps DEF FindAttempt
<1>3. CASE FindByKey(call[p].key) # NoRow
  BY <1>3, <1>1, FoundRow, AdoptKeeps DEF FindAttempt
<1>4. QED
  BY <1>2, <1>3

LEMMA RecordInitialKeeps == ASSUME PipeInv, NEW p \in Caller, RecordInitial(p) PROVE Kept(p)
<1> DEFINE c == call[p]
           row == NewRow(c.id, c.key, c.ident, None)
<1>1. pc[p] \in PipelineStep \ {"gates"} /\ diagnoses' = diagnoses /\ LedgerInv /\ pc[p] # "idle"
  BY DEF RecordInitial, PipelineStep, PipeInv
<1>2. CallIdentity(c)
  BY <1>1, PipelineCallHere
<1>3. /\ row \in Row /\ RowValid(row) /\ row.id = c.id /\ row.key = c.key
      /\ row.source = None /\ Vouched(row)
  BY <1>2, NewRowTyped DEF NewRow
<1> HIDE DEF row
<1>4. CASE RecordAttempt(row) /\ Proceed(p, "gates", row) /\ UNCHANGED passed
  <2>1. Inserts(row) /\ Write(row)
    BY <1>1, <1>3, <1>4, RecordInserts DEF LedgerInv
  <2>2. LedgerMoves /\ attempts'[row.id] = row
    BY <2>1, <1>1, <1>3, WriteEffect DEF LedgerMoves, LedgerInv, Sourced
  <2>3. QED
    BY <2>2, <1>1, <1>3, <1>4, ToGatesKeeps
<1>5. CASE RecordVerdict(row) = "existing" /\ Adopt(p, FindByKey(c.key))
  <2>1. FindByKey(c.key) # NoRow
    BY <1>5, <1>3 DEF RecordVerdict
  <2>2. QED
    BY <2>1, <1>1, <1>5, FoundRow, AdoptKeeps
<1>6. CASE \E verdict \in {"conflict", "integrity_error"} : Fail(p, verdict)
  BY <1>6, <1>1, FailKeeps
<1>7. QED
  BY <1>4, <1>5, <1>6 DEF RecordInitial, row

-----------------------------------------------------------------------------
\* The recorder's next row: its stage is the next callback's, on what was agreed.
LEMMA AdvancedRow ==
  ASSUME PipeInv, NEW p \in Caller, pc[p] = "gates", passed[p] < call[p].gates,
         snap[p].status \notin Terminal
  PROVE  LET s == NextStage(p)
             row == Advanced(p)
         IN  /\ s \in EvidenceStage /\ row \in Row /\ row.id = snap[p].id
             /\ row.status = "running" /\ row.stage = s
             /\ call[p].evidence[s] \in Hash
             /\ row.evidence = [snap[p].evidence EXCEPT ![s] = call[p].evidence[s]]
             /\ \A t \in EvidenceStage : t <= s => row.evidence[t] = call[p].evidence[t]
             /\ s = AcceptanceEvaluated => row.tests = call[p].tests
<1> DEFINE s == NextStage(p)
           row == Advanced(p)
<1>1. pc[p] \in PipelineStep
  BY DEF PipelineStep
<1>2. /\ call[p].evidence \in [EvidenceStage -> Hash] /\ call[p].tests \in TestEvidence
      /\ call[p].gates \in 0 .. 4 /\ passed[p] \in 0 .. 4 /\ CallInv(p)
  BY <1>1, PipelineCallHere, Stages
<1>3. s \in EvidenceStage /\ s \in Stage /\ s = passed[p] + 1
  BY <1>2, Stages DEF NextStage
<1>4. snap[p] \in Row /\ Agrees(p)
  BY <1>2 DEF CallInv, Knows
<1>5. call[p].evidence[s] \in Hash
  BY <1>2, <1>3
<1>6. row = [snap[p] EXCEPT !.status = "running", !.stage = s,
                            !.evidence[s] = call[p].evidence[s],
                            !.tests = IF s = AcceptanceEvaluated THEN call[p].tests ELSE @]
  BY DEF Advanced
<1> HIDE DEF s
<1>7. /\ row.id = snap[p].id /\ row.status = "running" /\ row.stage = s
      /\ row.evidence = [snap[p].evidence EXCEPT ![s] = call[p].evidence[s]]
      /\ s = AcceptanceEvaluated => row.tests = call[p].tests
  BY <1>4, <1>6 DEF Row
<1>8. row \in Row
  <2> DEFINE evidence == [snap[p].evidence EXCEPT ![s] = call[p].evidence[s]]
             tests == IF s = AcceptanceEvaluated THEN call[p].tests ELSE snap[p].tests
  <2>1. evidence \in [EvidenceStage -> Hash \cup {None}] /\ tests \in TestEvidence \cup {None}
    BY <1>2, <1>3, <1>4, <1>5 DEF Row
  <2>2. row = [snap[p] EXCEPT !.status = "running", !.stage = s,
                              !.evidence = evidence, !.tests = tests]
    BY <1>4, <1>6 DEF Row
  <2> HIDE DEF evidence, tests, row
  <2>3. QED
    BY <2>1, <2>2, <1>3, <1>4 DEF Row, AttemptStatus
<1>9. ASSUME NEW t \in EvidenceStage, t <= s PROVE row.evidence[t] = call[p].evidence[t]
  <2>1. t = s \/ t <= passed[p]
    BY <1>9, <1>2, <1>3, Stages
  <2>2. snap[p].evidence \in [EvidenceStage -> Hash \cup {None}]
    BY <1>4 DEF Row
  <2>3. QED
    BY <2>1, <2>2, <1>3, <1>4, <1>7 DEF Agrees
<1>10. QED
  BY <1>3, <1>5, <1>7, <1>8, <1>9 DEF s

\* A callback that ends well: the caller holds a row of the ledger that agrees with it.
LEMMA PassedKeeps ==
  ASSUME PipeInv, NEW p \in Caller, pc[p] = "gates", passed[p] < call[p].gates,
         NEW row \in Row, Passed(p, row), LedgerMoves, diagnoses' = diagnoses,
         RowValid(row), row.id = call[p].id, attempts'[row.id] # NoRow,
         Precedes(row, attempts'[row.id]),
         row.status \notin Terminal =>
           LET s == NextStage(p)
           IN  /\ s <= row.stage
               /\ \A t \in EvidenceStage : t <= s => row.evidence[t] = call[p].evidence[t]
               /\ s = AcceptanceEvaluated => row.tests = call[p].tests
  PROVE  Kept(p)
<1>1. pc[p] \in PipelineStep
  BY DEF PipelineStep
<1>2. /\ call[p] \in PipelineCall /\ call[p].gates \in 0 .. 4 /\ passed[p] \in 0 .. 4
      /\ passed[p] + 1 \in 0 .. AcceptanceEvaluated /\ passed[p] + 1 <= call[p].gates
  BY <1>1, PipelineCallHere, Stages
<1>3. Proceed(p, "gates", row) /\ passed' = [passed EXCEPT ![p] = passed[p] + 1]
  BY DEF Passed
<1>4. ASSUME pc'[p] = "gates", call'[p] = call[p], snap'[p] = row, passed'[p] = passed[p] + 1
      PROVE  CallInv(p)'
  <2>1. Knows(p)'
    BY <1>4 DEF Knows
  <2>2. Agrees(p)' /\ passed'[p] <= call'[p].gates
    BY <1>4, <1>2 DEF Agrees, NextStage
  <2>3. QED
    BY <2>1, <2>2, <1>2, <1>4 DEF CallInv, CaptureStep, PipelineStep
<1>5. diagnoses' \subseteq Diagnosis
  BY DEF PipeInv, PipeTypeOK
<1>6. QED
  BY <1>2, <1>3, <1>4, <1>5, ProceedKeeps DEF PipelineStep

LEMMA AdvanceKeeps == ASSUME PipeInv, NEW p \in Caller, Advance(p) PROVE Kept(p)
<1> DEFINE s == NextStage(p)
           known == snap[p]
           row == Advanced(p)
<1>1. /\ pc[p] = "gates" /\ passed[p] < call[p].gates /\ diagnoses' = diagnoses
      /\ pc[p] \in PipelineStep /\ pc[p] # "idle" /\ LedgerInv
  BY DEF Advance, PipelineStep, PipeInv
<1>2. Knows(p) /\ Agrees(p) /\ passed[p] \in 0 .. 4
  BY <1>1, PipelineCallHere, Stages DEF CallInv
<1>3. /\ known \in Row /\ RowValid(known) /\ known.id = call[p].id /\ known.id \in AttemptId
      /\ attempts[known.id] # NoRow /\ Precedes(known, attempts[known.id])
  BY <1>2 DEF Knows, Row
<1>4. CASE /\ known.status \in Terminal \/ (s <= known.stage /\ StageAgrees(p, s))
           /\ Passed(p, known) /\ UNCHANGED ledgerVars
  <2>1. LedgerMoves /\ attempts' = attempts
    BY <1>4 DEF LedgerMoves, ledgerVars
  <2>2. ASSUME known.status \notin Terminal
        PROVE  /\ s <= known.stage
               /\ \A t \in EvidenceStage : t <= s => known.evidence[t] = call[p].evidence[t]
               /\ s = AcceptanceEvaluated => known.tests = call[p].tests
    <3>1. \A t \in EvidenceStage : t <= s => t <= passed[p] \/ t = s
      BY <1>2, Stages DEF NextStage
    <3>2. QED
      BY <3>1, <2>2, <1>2, <1>4 DEF StageAgrees, Agrees
  <2>3. QED
    BY <2>1, <2>2, <1>1, <1>3, <1>4, PassedKeeps
<1>5. CASE Fail(p, "conflict")
  BY <1>5, <1>1, FailKeeps
<1>6. CASE /\ known.status \notin Terminal /\ ~(s <= known.stage)
           /\ Accepted(row) /\ Passed(p, Answer(row))
  <2>1. /\ s \in EvidenceStage /\ row \in Row /\ row.id = known.id
        /\ row.status = "running" /\ row.stage = s /\ call[p].evidence[s] \in Hash
        /\ row.evidence = [known.evidence EXCEPT ![s] = call[p].evidence[s]]
        /\ \A t \in EvidenceStage : t <= s => row.evidence[t] = call[p].evidence[t]
        /\ s = AcceptanceEvaluated => row.tests = call[p].tests
    BY <1>1, <1>6, AdvancedRow
  <2> HIDE DEF row, s
  <2>2. s \in Nat
    BY <2>1, Stages
  <2>3. attempts[row.id] \in Row /\ attempts[row.id].id = row.id /\ RowValid(attempts[row.id])
    BY <2>1, <1>1, <1>3, RowHere
  <2>4. CASE /\ Write(row) /\ Updates(row) /\ Answer(row) = row
             /\ TransitionValid(attempts[row.id], row)
    <3>1. Gathers(attempts[row.id], row)
      BY <2>1, <2>3, <2>4, <1>3, <1>6, RecorderGathers
    <3>2. attempts'[row.id] = row /\ RowValid(row) /\ Precedes(row, row) /\ row # NoRow
      BY <2>1, <2>4, <1>1, WriteEffect, TransitionRowValid, PrecedesItself, NoneAssumption
         DEF LedgerInv
    <3>3. LedgerMoves
      BY <2>1, <2>4, <3>1 DEF LedgerMoves, Vouched
    <3>4. Passed(p, row) /\ s <= row.stage
      BY <2>1, <2>2, <2>4, <1>6
    <3>5. QED
      BY <2>1, <3>2, <3>3, <3>4, <1>1, <1>3, PassedKeeps DEF s
  <2>5. CASE /\ UNCHANGED ledgerVars /\ SemanticReplay(attempts[row.id], row)
             /\ Answer(row) = attempts[row.id] /\ attempts[row.id] # NoRow
    <3> DEFINE current == attempts[row.id]
    <3>1. LedgerMoves /\ attempts'[current.id] = current /\ Precedes(current, current)
      BY <2>3, <2>5, PrecedesItself DEF LedgerMoves, ledgerVars
    <3>2. /\ s <= current.stage /\ current.tests = row.tests
          /\ \A t \in EvidenceStage : t <= s => current.evidence[t] = row.evidence[t]
      <4>1. CASE current = row
        BY <4>1, <2>1, <2>2
      <4>2. CASE current # row
        BY <4>2, <2>1, <2>5 DEF SemanticReplay
      <4>3. QED
        BY <4>1, <4>2
    <3>3. /\ Passed(p, current) /\ current \in Row /\ RowValid(current)
          /\ current.id = call[p].id /\ attempts'[current.id] # NoRow
          /\ Precedes(current, attempts'[current.id])
      BY <2>1, <2>3, <2>5, <3>1, <1>3, <1>6
    <3>4. /\ \A t \in EvidenceStage : t <= s => current.evidence[t] = call[p].evidence[t]
          /\ s = AcceptanceEvaluated => current.tests = call[p].tests
      BY <2>1, <3>2
    <3> HIDE DEF current
    <3>5. QED
      BY <3>1, <3>2, <3>3, <3>4, <1>1, PassedKeeps DEF s
  <2>6. QED
    BY <2>1, <2>4, <2>5, <1>1, <1>6, AcceptedRow
<1>7. QED
  BY <1>4, <1>5, <1>6 DEF Advance, Refused

-----------------------------------------------------------------------------
\* A closed row that a caller holds is the ledger's.
LEMMA ClosedIsCurrent ==
  ASSUME NEW p \in Caller, Knows(p), snap[p].status \in Terminal, UNCHANGED ledgerVars
  PROVE  /\ LedgerMoves /\ attempts[call[p].id] = snap[p] /\ attempts[call[p].id] # NoRow
         /\ attempts'[call[p].id] = snap[p] /\ call[p].id \in AttemptId
BY DEF Knows, Precedes, LedgerMoves, ledgerVars, Row

LEMMA RejectKeeps == ASSUME PipeInv, NEW p \in Caller, Reject(p) PROVE Kept(p)
<1> DEFINE row == snap[p]
           new == [row EXCEPT !.status = "rejected", !.reason = call[p].reason]
<1>1. /\ pc[p] = "gates" /\ pc[p] \in PipelineStep /\ call[p].reason # None
      /\ diagnoses' = diagnoses /\ pc[p] # "idle"
  BY DEF Reject, GatesDone, PipelineStep
<1>2. Knows(p) /\ row \in Row /\ row.id = call[p].id /\ call[p].reason \in Reason
  BY <1>1, PipelineCallHere DEF CallInv, Knows
<1>3. CASE /\ row.status = "rejected" /\ row.reason = call[p].reason
           /\ Finish(p, "rejected") /\ UNCHANGED ledgerVars
  <2>1. LedgerMoves /\ attempts'[call[p].id] = row /\ row # NoRow
    BY <1>2, <1>3, ClosedIsCurrent DEF Terminal
  <2>2. ASSUME NEW x, x.call = call[p], x.result = "rejected" PROVE ResultTrue(x)'
    BY <2>1, <2>2, <1>3 DEF ResultTrue, Terminal
  <2>3. QED
    BY <2>1, <2>2, <1>1, <1>3, FinishKeeps
<1>4. CASE Fail(p, "conflict")
  BY <1>4, <1>1, FailKeeps
<1>5. CASE Accepted(new) /\ Finish(p, "rejected")
  <2>1. /\ new \in Row /\ new.id = call[p].id /\ new.status = "rejected"
        /\ new.reason = call[p].reason /\ new.stage = row.stage
        /\ new.evidence = row.evidence /\ new.tests = row.tests
    BY <1>2 DEF Row, AttemptStatus, Terminal
  <2> HIDE DEF new
  <2>2. LedgerMoves /\ attempts'[new.id] = new /\ new # NoRow
    BY <2>1, <1>2, <1>5, AcceptedEnd, NoneAssumption DEF Vouched, Terminal
  <2>3. ASSUME NEW x, x.call = call[p], x.result = "rejected" PROVE ResultTrue(x)'
    BY <2>1, <2>2, <2>3 DEF ResultTrue, Terminal
  <2>4. QED
    BY <2>2, <2>3, <1>1, <1>5, FinishKeeps
<1>6. QED
  BY <1>3, <1>4, <1>5 DEF Reject, Refused

\* A caller that holds an open row and has passed every gate found what is in it.
LEMMA AllGatesAgree ==
  ASSUME PipeInv, NEW p \in Caller, GatesDone(p), call[p].reason = None,
         snap[p].status \notin Terminal
  PROVE  snap[p].evidence = call[p].evidence /\ snap[p].tests = call[p].tests
<1>1. pc[p] = "gates" /\ pc[p] \in PipelineStep /\ passed[p] = call[p].gates
  BY DEF GatesDone, PipelineStep
<1>2. /\ passed[p] = AcceptanceEvaluated /\ Agrees(p) /\ snap[p] \in Row
      /\ call[p].evidence \in [EvidenceStage -> Hash]
  BY <1>1, PipelineCallHere DEF CallInv, Knows
<1>3. \A s \in EvidenceStage : snap[p].evidence[s] = call[p].evidence[s]
  BY <1>2, Stages DEF Agrees
<1>4. snap[p].evidence \in [EvidenceStage -> Hash \cup {None}]
  BY <1>2 DEF Row
<1>5. QED
  BY <1>2, <1>3, <1>4 DEF Agrees

LEMMA SucceedKeeps == ASSUME PipeInv, NEW p \in Caller, Succeed(p) PROVE Kept(p)
<1> DEFINE row == snap[p]
           new == [row EXCEPT !.status = "succeeded", !.stage = Completed,
                              !.receipt = call[p].receipt]
<1>1. /\ GatesDone(p) /\ pc[p] \in PipelineStep /\ call[p].reason = None
      /\ diagnoses' = diagnoses /\ pc[p] # "idle"
  BY DEF Succeed, GatesDone, PipelineStep
<1>2. /\ Knows(p) /\ row \in Row /\ row.id = call[p].id /\ call[p].receipt \in Hash
      /\ call[p] \in PipelineCall
  BY <1>1, PipelineCallHere DEF CallInv, Knows, GatesDone
<1>3. CASE /\ row.status = "succeeded" /\ row.receipt = call[p].receipt
           /\ Finish(p, "receipt") /\ UNCHANGED ledgerVars
  <2>1. /\ LedgerMoves /\ attempts'[call[p].id] = row /\ row # NoRow
        /\ attempts[call[p].id] = row /\ call[p].id \in AttemptId
    BY <1>2, <1>3, ClosedIsCurrent DEF Terminal
  <2>2. Vouched(row)
    BY <2>1 DEF PipeInv, RowsTrue
  <2>3. row.evidence = call[p].evidence /\ row.tests = call[p].tests
    BY <2>2, <1>2, <1>3, ReceiptAssumption DEF Vouched
  <2>4. ASSUME NEW x, x.call = call[p], x.result = "receipt" PROVE ResultTrue(x)'
    BY <2>1, <2>3, <2>4, <1>2, <1>3 DEF ResultTrue
  <2>5. QED
    BY <2>1, <2>4, <1>1, <1>3, FinishKeeps
<1>4. CASE Fail(p, "conflict")
  BY <1>4, <1>1, FailKeeps
<1>5. CASE row.status \notin Terminal /\ Accepted(new) /\ Finish(p, "receipt")
  <2>1. /\ new \in Row /\ new.id = call[p].id /\ new.status = "succeeded"
        /\ new.receipt = call[p].receipt
        /\ new.evidence = row.evidence /\ new.tests = row.tests
    <3>1. Completed \in Stage
      BY Stages
    <3>2. QED
      BY <3>1, <1>2 DEF Row, AttemptStatus, Terminal
  <2>2. new.evidence = call[p].evidence /\ new.tests = call[p].tests
    BY <2>1, <1>1, <1>5, AllGatesAgree
  <2> HIDE DEF new
  <2>3. LedgerMoves /\ attempts'[new.id] = new /\ new # NoRow
    BY <2>1, <2>2, <1>2, <1>5, AcceptedEnd, NoneAssumption DEF Vouched, Terminal
  <2>4. ASSUME NEW x, x.call = call[p], x.result = "receipt" PROVE ResultTrue(x)'
    BY <2>1, <2>2, <2>3, <2>4, <1>2 DEF ResultTrue
  <2>5. QED
    BY <2>3, <2>4, <1>1, <1>5, FinishKeeps
<1>6. QED
  BY <1>3, <1>4, <1>5 DEF Succeed, Refused

-----------------------------------------------------------------------------
LEMMA StepKept == ASSUME PipeInv, NEW p \in Caller, Begin(p) \/ Step(p) \/ Crash(p) PROVE Kept(p)
<1>1. CASE Begin(p)
  BY <1>1, BeginKeeps
<1>2. CASE RecordDiagnosis(p)
  BY <1>2, RecordDiagnosisKeeps
<1>3. CASE Capture(p)
  BY <1>3, CaptureKeeps
<1>4. CASE CloseCapture(p)
  BY <1>4, CloseCaptureKeeps
<1>5. CASE GetAttempt(p)
  BY <1>5, GetAttemptKeeps
<1>6. CASE FindAttempt(p)
  BY <1>6, FindAttemptKeeps
<1>7. CASE RecordInitial(p)
  BY <1>7, RecordInitialKeeps
<1>8. CASE Advance(p)
  BY <1>8, AdvanceKeeps
<1>9. CASE Reject(p)
  BY <1>9, RejectKeeps
<1>10. CASE Succeed(p)
  BY <1>10, SucceedKeeps
<1>11. CASE Crash(p)
  BY <1>11, CrashKeeps
<1>12. QED
  BY <1>1, <1>2, <1>3, <1>4, <1>5, <1>6, <1>7, <1>8, <1>9, <1>10, <1>11 DEF Step

LEMMA PipeStep == PipeInv /\ [Next]_vars => PipeInv' /\ LedgerMoves
<1> SUFFICES ASSUME PipeInv, [Next]_vars PROVE PipeInv' /\ LedgerMoves
  OBVIOUS
<1>1. CASE Next
  <2>1. PICK p \in Caller : Begin(p) \/ Step(p) \/ Crash(p)
    BY <1>1 DEF Next
  <2>2. Kept(p)
    BY <2>1, StepKept
  <2>3. QED
    BY <2>2, KeptKeeps DEF Kept
<1>2. CASE UNCHANGED vars
  <2>1. LedgerMoves /\ diagnoses' = diagnoses /\ returned' = returned
    BY <1>2 DEF vars, ledgerVars, LedgerMoves
  <2>2. LedgerInv' /\ RowsTrue'
    BY <2>1, LedgerGoesOn, RowsStayTrue DEF PipeInv
  <2>3. PipeTypeOK'
    BY <1>2 DEF vars, PipeInv, PipeTypeOK
  <2>4. \A q \in Caller : CallInv(q)'
    BY <2>1, <1>2, OthersKeep DEF vars
  <2>5. \A x \in returned' : ResultTrue(x)'
    BY <2>1, ResultsStay
  <2>6. QED
    BY <2>1, <2>2, <2>3, <2>4, <2>5 DEF PipeInv
<1>3. QED
  BY <1>1, <1>2

\* What every caller holds is an earlier state of the row in the ledger, what its
\* gates compared is in it, and what any caller was told is still true.
THEOREM PipelineInvariant == Spec => []PipeInv
<1>1. QED
  BY PipeInitial, PipeStep, PTL DEF Spec

\* A receipt handed to a caller (recorder.succeed) vouches for good for the row:
\* that call's evidence and tests, in a succeeded attempt, whoever recorded them.
THEOREM EveryReceiptVouches == Spec => []ReceiptVouchesForRow
<1>1. PipeInv => ReceiptVouchesForRow
  BY DEF PipeInv, ResultTrue, ReceiptVouchesForRow
<1>2. QED
  BY <1>1, PipelineInvariant, PTL

\* A verdict a caller was told (recorder.reject, or a handoff that closed its
\* capture) stands in the ledger for good, with its reason.
THEOREM EveryRejectionStands == Spec => []RejectionStands
<1>1. PipeInv => RejectionStands
  BY DEF PipeInv, ResultTrue, RejectionStands
<1>2. QED
  BY <1>1, PipelineInvariant, PTL

\* The diagnosis an attempt names is on record, wherever the caller that wrote
\* the two (record_squad_diagnosis_attempt) may have died.
THEOREM EveryAttemptHasDiagnosis == Spec => []AttemptHasDiagnosis
<1>1. PipeInv => AttemptHasDiagnosis
  BY DEF PipeInv, RowsTrue, Sourced, AttemptHasDiagnosis
<1>2. QED
  BY <1>1, PipelineInvariant, PTL

-----------------------------------------------------------------------------
(***************************************************************************)
(* The refinement: what AttemptLifecycle sees of a ledger.                  *)
(***************************************************************************)
OwnerSeen == [a \in AttemptId |-> IF attempts[a] = NoRow THEN NoRow ELSE attempts[a].key]
PhaseSeen == [a \in AttemptId |-> LifecycleView(a)]
EvidenceSeen ==
  [a \in AttemptId |-> IF attempts[a] = NoRow THEN NoEvidence ELSE attempts[a].evidence]

\* After a write only the view of that attempt may differ.
LEMMA ViewAfterWrite ==
  ASSUME LedgerInv, NEW row \in Row, Write(row)
  PROVE  /\ row.id \in AttemptId
         /\ OwnerSeen' = [OwnerSeen EXCEPT ![row.id] = row.key]
         /\ PhaseSeen' = [PhaseSeen EXCEPT ![row.id] =
                            IF row.status \in Terminal THEN row.status ELSE "open"]
         /\ EvidenceSeen' = [EvidenceSeen EXCEPT ![row.id] = row.evidence]
<1>1. /\ row.id \in AttemptId /\ attempts'[row.id] = row /\ row # NoRow
      /\ \A a \in AttemptId : a # row.id => attempts'[a] = attempts[a]
  BY WriteEffect, NoneAssumption DEF LedgerInv, Row
<1>2. OwnerSeen' = [OwnerSeen EXCEPT ![row.id] = row.key]
  BY <1>1 DEF OwnerSeen
<1>3. PhaseSeen' = [PhaseSeen EXCEPT ![row.id] =
                      IF row.status \in Terminal THEN row.status ELSE "open"]
  BY <1>1 DEF PhaseSeen, LifecycleView
<1>4. EvidenceSeen' = [EvidenceSeen EXCEPT ![row.id] = row.evidence]
  BY <1>1 DEF EvidenceSeen
<1>5. QED
  BY <1>1, <1>2, <1>3, <1>4

LEMMA InsertOpens ==
  ASSUME LedgerInv, NEW row \in Row, Write(row), Inserts(row)
  PROVE  Lifecycle!Open(row.id, row.key)
<1>1. /\ row.id \in AttemptId /\ row.key \in IdemKey /\ row.status \notin Terminal
      /\ row.evidence = NoEvidence
  BY DEF Row, Inserts, InitialRow, NewRow, Terminal
<1>2. /\ OwnerSeen' = [OwnerSeen EXCEPT ![row.id] = row.key]
      /\ PhaseSeen' = [PhaseSeen EXCEPT ![row.id] = "open"]
      /\ EvidenceSeen' = [EvidenceSeen EXCEPT ![row.id] = NoEvidence]
  BY <1>1, ViewAfterWrite
<1>3. PhaseSeen[row.id] = "absent" /\ EvidenceSeen[row.id] = NoEvidence
  BY <1>1 DEF PhaseSeen, EvidenceSeen, LifecycleView, Inserts
<1>4. \A b \in AttemptId : OwnerSeen[b] # row.key
  BY <1>1, NoneAssumption DEF OwnerSeen, Inserts
<1>5. EvidenceSeen' = EvidenceSeen
  BY <1>2, <1>3 DEF EvidenceSeen
<1>6. QED
  BY <1>2, <1>3, <1>4, <1>5 DEF Lifecycle!Open, OwnerSeen, PhaseSeen, EvidenceSeen

LEMMA GatherGathers ==
  ASSUME LedgerInv, NEW row \in Row, Write(row), Updates(row), Gathers(attempts[row.id], row)
  PROVE  \E s \in 1 .. AcceptanceEvaluated, h \in Hash : Lifecycle!Gather(row.id, s, h)
<1> DEFINE old == attempts[row.id]
           s == row.stage
<1>1. /\ row.id \in AttemptId /\ old # NoRow /\ old \in Row /\ RowValid(old)
      /\ old.status \notin Terminal /\ row.status = "running" /\ row.key = old.key
      /\ s \in EvidenceStage /\ s = old.stage + 1
  BY RowHere DEF Row, Updates, TransitionValid, StatusMayBecome, SameIdentity, Terminal, Gathers
<1>2. PICK h \in Hash : row.evidence = [old.evidence EXCEPT ![s] = h]
  BY DEF Gathers
<1>3. OwnerSeen[row.id] = old.key /\ PhaseSeen[row.id] = "open" /\ EvidenceSeen[row.id] = old.evidence
  BY <1>1 DEF OwnerSeen, PhaseSeen, EvidenceSeen, LifecycleView
<1>4. /\ OwnerSeen' = [OwnerSeen EXCEPT ![row.id] = old.key]
      /\ PhaseSeen' = [PhaseSeen EXCEPT ![row.id] = "open"]
      /\ EvidenceSeen' = [EvidenceSeen EXCEPT ![row.id] = row.evidence]
  BY <1>1, ViewAfterWrite DEF Terminal
<1>5. OwnerSeen' = OwnerSeen /\ PhaseSeen' = PhaseSeen
  BY <1>3, <1>4 DEF OwnerSeen, PhaseSeen
<1>6. EvidenceSeen' = [EvidenceSeen EXCEPT ![row.id][s] = h]
  BY <1>2, <1>3, <1>4
<1>7. \A t \in 1 .. AcceptanceEvaluated : (EvidenceSeen[row.id][t] # None) = (t < s)
  BY <1>1, <1>3, Stages DEF RowValid, StageEvidenceValid, Row
<1>8. Lifecycle!Gather(row.id, s, h)
  BY <1>3, <1>5, <1>6, <1>7 DEF Lifecycle!Gather, OwnerSeen, PhaseSeen, EvidenceSeen
<1>9. QED
  BY <1>1, <1>8, Stages

LEMMA CloseCloses ==
  ASSUME LedgerInv, NEW row \in Row, Write(row), Updates(row), Closes(attempts[row.id], row)
  PROVE  Lifecycle!Close(row.id, row.status)
<1> DEFINE old == attempts[row.id]
<1>1. /\ row.id \in AttemptId /\ old # NoRow /\ old \in Row
      /\ old.status \notin Terminal /\ row.status \in Terminal /\ row.key = old.key
      /\ row.evidence = old.evidence /\ StageEvidenceValid(row)
      /\ row.status = "succeeded" => row.stage = Completed
  BY RowHere DEF Row, Updates, TransitionValid, StatusMayBecome, SameIdentity, Terminal, Closes
<1>2. OwnerSeen[row.id] = old.key /\ PhaseSeen[row.id] = "open" /\ EvidenceSeen[row.id] = old.evidence
  BY <1>1 DEF OwnerSeen, PhaseSeen, EvidenceSeen, LifecycleView
<1>3. /\ OwnerSeen' = [OwnerSeen EXCEPT ![row.id] = old.key]
      /\ PhaseSeen' = [PhaseSeen EXCEPT ![row.id] = row.status]
      /\ EvidenceSeen' = [EvidenceSeen EXCEPT ![row.id] = old.evidence]
  BY <1>1, ViewAfterWrite
<1>4. OwnerSeen' = OwnerSeen /\ EvidenceSeen' = EvidenceSeen
  BY <1>2, <1>3 DEF OwnerSeen, EvidenceSeen
<1>5. row.status = "succeeded" => \A t \in 1 .. AcceptanceEvaluated : EvidenceSeen[row.id][t] # None
  BY <1>1, <1>2, Stages DEF StageEvidenceValid
<1>6. QED
  BY <1>2, <1>3, <1>4, <1>5
     DEF Lifecycle!Close, Lifecycle!Complete, OwnerSeen, PhaseSeen, EvidenceSeen

\* Every step of a caller is a step of the abstract life of the attempt it
\* writes, or none: the ledger and its callers implement AttemptLifecycle.
THEOREM PipelineImplementsLifecycle == Spec => LifecycleSpec
<1>1. Init => Lifecycle!Init
  BY Stages DEF Init, LedgerInit, Lifecycle!Init, LifecycleView, NoEvidence
<1>2. PipeInv /\ LedgerMoves => [Lifecycle!Next]_(Lifecycle!vars)
  <2> SUFFICES ASSUME PipeInv, LedgerMoves PROVE [Lifecycle!Next]_(Lifecycle!vars)
    OBVIOUS
  <2>1. CASE UNCHANGED ledgerVars
    BY <2>1 DEF ledgerVars, Lifecycle!vars, LifecycleView
  <2>2. ASSUME NEW row \in Row, Write(row), Inserts(row) PROVE Lifecycle!Next
    BY <2>2, InsertOpens DEF PipeInv, Row, Lifecycle!Next
  <2>3. ASSUME NEW row \in Row, Write(row), Updates(row), Gathers(attempts[row.id], row)
        PROVE  Lifecycle!Next
    BY <2>3, GatherGathers DEF PipeInv, Row, Lifecycle!Next
  <2>4. ASSUME NEW row \in Row, Write(row), Updates(row), Closes(attempts[row.id], row)
        PROVE  Lifecycle!Next
    BY <2>4, CloseCloses DEF PipeInv, Row, Closes, Terminal, Lifecycle!Outcomes, Lifecycle!Next
  <2>5. QED
    BY <2>1, <2>2, <2>3, <2>4 DEF LedgerMoves
<1>3. QED
  BY <1>1, <1>2, PipeStep, PipelineInvariant, PTL DEF Spec, LifecycleSpec, Lifecycle!Spec
-----------------------------------------------------------------------------
(***************************************************************************)
(* The callers and the ledger.                                              *)
(***************************************************************************)
LEMMA ValidIsApplied ==
  ASSUME LedgerInv, NEW row \in Row, Updates(row)
  PROVE  TransitionVerdict(row) = "applied"
<1> DEFINE now == attempts[row.id]
<1>1. now # NoRow /\ now \in Row /\ TransitionValid(now, row)
  BY RowHere DEF Updates, Row
<1>2. now.stage \in Nat /\ row.stage \in Nat
  BY <1>1, Stages DEF Row
<1>3. ~SemanticReplay(now, row)
  BY <1>1, <1>2 DEF SemanticReplay, TransitionValid
<1>4. QED
  BY <1>1, <1>3 DEF TransitionVerdict

LEMMA MovesAreCalls ==
  ASSUME LedgerInv, LedgerMoves
  PROVE  [AnyCall]_ledgerVars
<1> SUFFICES ASSUME ~(UNCHANGED ledgerVars) PROVE AnyCall
  OBVIOUS
<1>1. PICK row \in Row : Write(row) /\ (Inserts(row) \/ Updates(row))
  BY DEF LedgerMoves
<1>2. CASE Inserts(row)
  <2>1. FindByKey(row.key) = NoRow
    BY <1>2 DEF FindByKey, Inserts
  <2>2. RecordVerdict(row) = "inserted"
    BY <2>1, <1>2 DEF RecordVerdict, Inserts
  <2>3. QED
    BY <2>2, <1>1 DEF RecordAttempt, AnyCall
<1>3. CASE Updates(row)
  BY <1>1, <1>3, ValidIsApplied DEF TransitionAttempt, AnyCall
<1>4. QED
  BY <1>1, <1>2, <1>3

\* Pipelines, ingestion and diagnosis handoffs touch the two tables through
\* record_attempt and transition_attempt only, each call of them as the ledger
\* defines it, so whatever holds of the ledger under any calls holds here.
THEOREM CallersUseTheLedger == Spec => AnyLedgerSpec
<1>1. Init => LedgerInit
  BY DEF Init
<1>2. PipeInv /\ LedgerMoves => [AnyCall]_ledgerVars
  BY MovesAreCalls DEF PipeInv
<1>3. QED
  BY <1>1, <1>2, PipeStep, PipelineInvariant, PTL DEF Spec, AnyLedgerSpec

\* What the ledger promises, its callers cannot break: history is append-only,
\* the log leads to the row, a key has one attempt, and calls made again are
\* answered, under any callers, calls and crashes.
THEOREM LedgerPromisesHold ==
  Spec => HistoryAppendOnly /\ []LogLeadsToRow /\ []KeyHasOneAttempt /\ []RetryAnswered
<1>1. LedgerInv => LogLeadsToRow /\ KeyHasOneAttempt
  BY DEF LedgerInv, LogSound, LogLeadsToRow
<1>2. QED
  BY <1>1, CallersUseTheLedger, AnyLedgerInvariant, AnyCallKeepsHistory, RetriesChangeNothing, PTL

-----------------------------------------------------------------------------
(***************************************************************************)
(* Who is refused.  A caller whose row is the ledger's own offers what the  *)
(* ledger takes; so a conflict at a transition means that somebody else has *)
(* taken the attempt further since, and callers cannot all lose.            *)
(***************************************************************************)
ClosedRow(p) == [snap[p] EXCEPT !.status = call[p].close, !.reason = call[p].reason]
RejectedRow(p) == [snap[p] EXCEPT !.status = "rejected", !.reason = call[p].reason]
SucceededRow(p) ==
  [snap[p] EXCEPT !.status = "succeeded", !.stage = Completed, !.receipt = call[p].receipt]

UpToDate(p) ==
  /\ pc[p] \in {"close", "gates"}
  /\ snap[p] = attempts[call[p].id] /\ snap[p].status \notin Terminal

UpToDateIsAccepted ==
  \A p \in Caller : UpToDate(p) =>
    /\ pc[p] = "close" => TransitionVerdict(ClosedRow(p)) = "applied"
    /\ pc[p] = "gates" /\ passed[p] < call[p].gates /\ NextStage(p) > snap[p].stage =>
         TransitionVerdict(Advanced(p)) = "applied"
    /\ GatesDone(p) /\ call[p].reason # None => TransitionVerdict(RejectedRow(p)) = "applied"
    /\ GatesDone(p) /\ call[p].reason = None => TransitionVerdict(SucceededRow(p)) = "applied"

\* An open row that holds the evidence of its stage.
LEMMA OpenRow ==
  ASSUME NEW row \in Row, RowValid(row), row.status \notin Terminal
  PROVE  /\ row.status \in {"proposed", "running"} /\ row.stage \in 0 .. 4
         /\ row.receipt = None /\ row.reason = None
         /\ row.status = "proposed" => row.stage = 0
         /\ row.evidence \in [EvidenceStage -> Hash \cup {None}]
         /\ \A s \in EvidenceStage : (row.evidence[s] # None) = (s <= row.stage)
         /\ None \notin Hash \cup Reason
<1>1. row.status \in {"proposed", "running"} /\ row.stage \in 0 .. 5
  BY Stages DEF Row, AttemptStatus, Terminal
<1>2. row.stage # 5 /\ row.receipt = None /\ row.reason = None
  BY <1>1, Stages DEF RowValid, StageEvidenceValid, Terminal
<1>3. row.status = "proposed" => row.stage = 0
  BY DEF RowValid, InitialRow, NewRow, Captured
<1>4. QED
  BY <1>1, <1>2, <1>3, NoneAssumption DEF Row, RowValid, StageEvidenceValid

LEMMA FailsValidly ==
  ASSUME NEW row \in Row, RowValid(row), row.status \notin Terminal,
         NEW status \in {"failed", "rejected"}, NEW reason \in Reason
  PROVE  LET new == [row EXCEPT !.status = status, !.reason = reason]
         IN  new \in Row /\ new.id = row.id /\ TransitionValid(row, new)
<1> DEFINE new == [row EXCEPT !.status = status, !.reason = reason]
<1>1. /\ new \in Row /\ SameIdentity(row, new) /\ new.status = status /\ new.reason = reason
      /\ new.stage = row.stage /\ new.evidence = row.evidence /\ new.receipt = row.receipt
  BY DEF Row, SameIdentity, AttemptStatus, Terminal
<1> HIDE DEF new
<1>2. StageEvidenceValid(new)
  BY <1>1, OpenRow DEF StageEvidenceValid
<1>3. StatusMayBecome(row.status, new.status) /\ new.status # row.status
  BY <1>1, OpenRow DEF StatusMayBecome, Terminal
<1>4. new.stage # Completed /\ new.status \notin {"running", "succeeded"}
  BY <1>1, OpenRow, Stages
<1>5. TransitionValid(row, new)
  BY <1>1, <1>2, <1>3, <1>4 DEF TransitionValid
<1>6. QED
  BY <1>1, <1>5 DEF SameIdentity, new

LEMMA SucceedsValidly ==
  ASSUME NEW row \in Row, RowValid(row), row.status \notin Terminal, row.stage >= 4,
         NEW receipt \in Hash
  PROVE  LET new == [row EXCEPT !.status = "succeeded", !.stage = Completed,
                                !.receipt = receipt]
         IN  new \in Row /\ new.id = row.id /\ TransitionValid(row, new)
<1> DEFINE new == [row EXCEPT !.status = "succeeded", !.stage = Completed, !.receipt = receipt]
<1>1. Completed \in Stage /\ Completed = 5
  BY Stages
<1>2. /\ new \in Row /\ SameIdentity(row, new) /\ new.status = "succeeded"
      /\ new.stage = 5 /\ new.receipt = receipt
      /\ new.evidence = row.evidence /\ new.reason = row.reason
  BY <1>1 DEF Row, SameIdentity, AttemptStatus, Terminal
<1> HIDE DEF new
<1>3. row.stage = 4 /\ row.status = "running"
  BY OpenRow
<1>4. \A s \in EvidenceStage : s <= 4 /\ s <= 5 /\ row.evidence[s] # None
  BY <1>3, OpenRow, Stages
<1>5. StageEvidenceValid(new)
  BY <1>2, <1>4, OpenRow DEF StageEvidenceValid
<1>6. TransitionValid(row, new)
  BY <1>1, <1>2, <1>3, <1>5 DEF TransitionValid, StatusMayBecome, Terminal
<1>7. QED
  BY <1>2, <1>6 DEF SameIdentity, new

LEMMA AdvancesValidly ==
  ASSUME PipeInv, NEW p \in Caller, pc[p] = "gates", passed[p] < call[p].gates,
         snap[p].status \notin Terminal, NextStage(p) > snap[p].stage
  PROVE  TransitionValid(snap[p], Advanced(p))
<1> DEFINE s == NextStage(p)
           row == snap[p]
           new == Advanced(p)
<1>1. pc[p] \in PipelineStep
  BY DEF PipelineStep
<1>2. /\ row \in Row /\ RowValid(row) /\ Agrees(p)
      /\ call[p].evidence \in [EvidenceStage -> Hash] /\ passed[p] \in 0 .. 4
  BY <1>1, PipelineCallHere, Stages DEF CallInv, Knows
<1>3. /\ s \in EvidenceStage /\ new \in Row /\ new.status = "running" /\ new.stage = s
      /\ call[p].evidence[s] \in Hash
      /\ new.evidence = [row.evidence EXCEPT ![s] = call[p].evidence[s]]
  BY AdvancedRow
<1>4. SameIdentity(row, new) /\ new.receipt = row.receipt /\ new.reason = row.reason
  BY <1>2 DEF Advanced, Row, SameIdentity
<1>5. s = passed[p] + 1 /\ passed[p] <= row.stage
  BY <1>2 DEF NextStage, Agrees
<1> HIDE DEF new, s
<1>6. s = row.stage + 1 /\ s \in 1 .. 4
  BY <1>2, <1>3, <1>5, OpenRow, Stages DEF s
<1>7. \A t \in EvidenceStage : (new.evidence[t] # None) = (t <= s)
  <2> SUFFICES ASSUME NEW t \in EvidenceStage PROVE (new.evidence[t] # None) = (t <= s)
    OBVIOUS
  <2>1. CASE t = s
    BY <2>1, <1>2, <1>3, <1>6, OpenRow
  <2>2. CASE t # s
    <3>1. new.evidence[t] = row.evidence[t]
      BY <2>2, <1>2, <1>3, OpenRow
    <3>2. (t <= s) = (t <= row.stage)
      BY <2>2, <1>2, <1>6, OpenRow, Stages
    <3>3. QED
      BY <3>1, <3>2, <1>2, OpenRow
  <2>3. QED
    BY <2>1, <2>2
<1>8. StageEvidenceValid(new)
  BY <1>2, <1>3, <1>4, <1>7, OpenRow DEF StageEvidenceValid
<1>9. StatusMayBecome(row.status, new.status) /\ new.stage # row.stage /\ new.stage # Completed
  BY <1>2, <1>3, <1>6, OpenRow, Stages DEF StatusMayBecome
<1>10. QED
  BY <1>3, <1>4, <1>6, <1>8, <1>9 DEF TransitionValid, new

LEMMA UpToDateGetsThrough == PipeInv => UpToDateIsAccepted
<1> SUFFICES ASSUME PipeInv, NEW p \in Caller, UpToDate(p)
             PROVE  /\ pc[p] = "close" => TransitionVerdict(ClosedRow(p)) = "applied"
                    /\ pc[p] = "gates" /\ passed[p] < call[p].gates
                         /\ NextStage(p) > snap[p].stage =>
                           TransitionVerdict(Advanced(p)) = "applied"
                    /\ GatesDone(p) /\ call[p].reason # None =>
                         TransitionVerdict(RejectedRow(p)) = "applied"
                    /\ GatesDone(p) /\ call[p].reason = None =>
                         TransitionVerdict(SucceededRow(p)) = "applied"
  BY DEF UpToDateIsAccepted
<1> DEFINE row == snap[p]
<1>1. /\ LedgerInv /\ row \in Row /\ RowValid(row) /\ row.id = call[p].id
      /\ attempts[row.id] = row /\ row # NoRow /\ row.status \notin Terminal
  BY NoneAssumption DEF UpToDate, PipeInv, CallInv, Knows
<1>2. ASSUME NEW new \in Row, new.id = row.id, TransitionValid(row, new)
      PROVE  TransitionVerdict(new) = "applied"
  BY <1>1, <1>2, ValidIsApplied DEF Updates
<1>3. ASSUME pc[p] = "close" PROVE TransitionVerdict(ClosedRow(p)) = "applied"
  <2>1. call[p].close \in {"failed", "rejected"} /\ call[p].reason \in Reason
    BY <1>3, HandoffCall DEF CallInv, CaptureStep
  <2>2. QED
    BY <2>1, <1>1, <1>2, FailsValidly DEF ClosedRow
<1>4. ASSUME pc[p] = "gates", passed[p] < call[p].gates, NextStage(p) > row.stage
      PROVE  TransitionVerdict(Advanced(p)) = "applied"
  BY <1>1, <1>2, <1>4, AdvancedRow, AdvancesValidly
<1>5. ASSUME GatesDone(p)
      PROVE  /\ call[p].reason # None => call[p].reason \in Reason
             /\ call[p].reason = None => row.stage >= 4 /\ call[p].receipt \in Hash
  <2>1. pc[p] \in PipelineStep /\ pc[p] = "gates" /\ passed[p] = call[p].gates
    BY <1>5 DEF GatesDone, PipelineStep
  <2>2. Agrees(p)
    BY <2>1, PipelineCallHere DEF CallInv
  <2>3. QED
    BY <2>1, <2>2, <1>1, PipelineCallHere, Stages DEF Agrees, Row
<1>6. ASSUME GatesDone(p), call[p].reason # None
      PROVE  TransitionVerdict(RejectedRow(p)) = "applied"
  BY <1>1, <1>2, <1>5, <1>6, FailsValidly DEF RejectedRow
<1>7. ASSUME GatesDone(p), call[p].reason = None
      PROVE  TransitionVerdict(SucceededRow(p)) = "applied"
  BY <1>1, <1>2, <1>5, <1>7, SucceedsValidly DEF SucceededRow
<1>8. QED
  BY <1>3, <1>4, <1>6, <1>7

\* A caller (recorder.advance, reject and succeed, and the handoffs that close)
\* is refused a transition only when another has moved the attempt since it
\* read it: what it offers on the row as it is, is applied.
THEOREM UpToDateIsNeverRefused == Spec => []UpToDateIsAccepted
BY UpToDateGetsThrough, PipelineInvariant, PTL
-----------------------------------------------------------------------------
(***************************************************************************)
(* Calls run down.  How many ledger transactions a call has left at most:   *)
(* no step of it, refused or not, leaves as many, and no other caller's     *)
(* step touches it.                                                         *)
(***************************************************************************)
Rank(p) ==
  CASE pc[p] = "get" -> 8
    [] pc[p] = "find" -> 7
    [] pc[p] = "record" -> 6
    [] pc[p] = "gates" -> 5 - passed[p]
    [] pc[p] = "diagnose" -> 3
    [] pc[p] = "capture" -> 2
    [] pc[p] = "close" -> 1
    [] pc[p] = "idle" -> 0

RunsDown(p) ==
  /\ Rank(p) \in 1 .. 8 /\ Rank(p)' \in 0 .. Rank(p) - 1
  /\ \A q \in Caller : q # p => Rank(q)' = Rank(q)

LEMMA Ranks ==
  ASSUME PipeTypeOK, NEW p \in Caller
  PROVE  Rank(p) \in 0 .. 8 /\ (Rank(p) = 0 <=> pc[p] = "idle")
<1>1. pc[p] \in {"idle"} \cup CaptureStep \cup PipelineStep /\ passed[p] \in 0 .. 4
  BY Stages DEF PipeTypeOK
<1>2. QED
  BY <1>1 DEF Rank, CaptureStep, PipelineStep

\* What others do not touch, and where p is afterwards.
LEMMA MovedOn ==
  ASSUME PipeInv, NEW p \in Caller, NEW step, NEW n,
         pc' = [pc EXCEPT ![p] = step], passed' = [passed EXCEPT ![p] = n]
  PROVE  /\ pc'[p] = step /\ passed'[p] = n
         /\ \A q \in Caller : q # p => Rank(q)' = Rank(q)
BY DEF PipeInv, PipeTypeOK, Rank

LEMMA FinishRunsDown ==
  ASSUME PipeInv, NEW p \in Caller, pc[p] # "idle", NEW result, Finish(p, result)
  PROVE  RunsDown(p)
<1>1. /\ pc'[p] = "idle" /\ passed'[p] = 0
      /\ \A q \in Caller : q # p => Rank(q)' = Rank(q)
  BY MovedOn DEF Finish, Idle
<1>2. Rank(p)' = 0
  BY <1>1 DEF Rank
<1>3. Rank(p) \in 1 .. 8
  BY Ranks DEF PipeInv
<1>4. QED
  BY <1>1, <1>2, <1>3 DEF RunsDown

LEMMA FailRunsDown ==
  ASSUME PipeInv, NEW p \in Caller, pc[p] # "idle", NEW result, Fail(p, result)
  PROVE  RunsDown(p)
BY FinishRunsDown DEF Fail

\* The steps that may follow one another before the gates and in a handoff.
Follows(from, to) ==
  \/ from = "get" /\ to \in {"find", "gates"}
  \/ from = "find" /\ to \in {"record", "gates"}
  \/ from = "record" /\ to = "gates"
  \/ from = "diagnose" /\ to = "capture"
  \/ from = "capture" /\ to = "close"

LEMMA ProceedRunsDown ==
  ASSUME PipeInv, NEW p \in Caller, NEW step, NEW row, Proceed(p, step, row),
         UNCHANGED passed, Follows(pc[p], step)
  PROVE  RunsDown(p)
<1>1. passed[p] = 0 /\ passed' = [passed EXCEPT ![p] = 0]
  BY DEF Follows, PipeInv, CallInv, PipeTypeOK
<1>2. /\ pc'[p] = step /\ passed'[p] = 0
      /\ \A q \in Caller : q # p => Rank(q)' = Rank(q)
  BY <1>1, MovedOn DEF Proceed
<1>3. Rank(p) \in 1 .. 8 /\ Rank(p)' \in 0 .. Rank(p) - 1
  BY <1>2 DEF Rank, Follows
<1>4. QED
  BY <1>2, <1>3 DEF RunsDown

LEMMA PassedRunsDown ==
  ASSUME PipeInv, NEW p \in Caller, pc[p] = "gates", passed[p] < call[p].gates,
         NEW row, Passed(p, row)
  PROVE  RunsDown(p)
<1>1. passed[p] \in 0 .. 4 /\ passed[p] < 4
  <2>1. pc[p] \in PipelineStep
    BY DEF PipelineStep
  <2>2. QED
    BY <2>1, PipelineCallHere, Stages
<1>2. /\ pc'[p] = "gates" /\ passed'[p] = passed[p] + 1
      /\ \A q \in Caller : q # p => Rank(q)' = Rank(q)
  BY MovedOn DEF Passed, Proceed
<1>3. Rank(p) = 5 - passed[p] /\ Rank(p)' = 5 - (passed[p] + 1)
  BY <1>2 DEF Rank
<1>4. QED
  BY <1>1, <1>2, <1>3 DEF RunsDown

LEMMA AdoptRunsDown ==
  ASSUME PipeInv, NEW p \in Caller, pc[p] \in {"get", "find", "record"},
         NEW row, Adopt(p, row)
  PROVE  RunsDown(p)
BY ProceedRunsDown, FailRunsDown DEF Adopt, Follows

LEMMA StepRunsDown ==
  ASSUME PipeInv, NEW p \in Caller, Step(p) PROVE RunsDown(p)
<1>1. CASE RecordDiagnosis(p)
  BY <1>1, ProceedRunsDown, FailRunsDown DEF RecordDiagnosis, Follows
<1>2. CASE Capture(p)
  <2>1. pc[p] = "capture"
    BY <1>2 DEF Capture
  <2>2. ASSUME NEW row, AfterCapture(p, row) PROVE RunsDown(p)
    BY <2>1, <2>2, ProceedRunsDown, FinishRunsDown DEF AfterCapture, Follows
  <2>3. QED
    BY <2>1, <2>2, <1>2, FailRunsDown DEF Capture
<1>3. CASE CloseCapture(p)
  BY <1>3, FinishRunsDown, FailRunsDown DEF CloseCapture, Refused
<1>4. CASE GetAttempt(p)
  BY <1>4, ProceedRunsDown, AdoptRunsDown DEF GetAttempt, Follows
<1>5. CASE FindAttempt(p)
  BY <1>5, ProceedRunsDown, AdoptRunsDown DEF FindAttempt, Follows
<1>6. CASE RecordInitial(p)
  BY <1>6, ProceedRunsDown, AdoptRunsDown, FailRunsDown DEF RecordInitial, Follows
<1>7. CASE Advance(p)
  BY <1>7, PassedRunsDown, FailRunsDown DEF Advance, Refused
<1>8. CASE Reject(p)
  BY <1>8, FinishRunsDown, FailRunsDown DEF Reject, GatesDone, Refused
<1>9. CASE Succeed(p)
  BY <1>9, FinishRunsDown, FailRunsDown DEF Succeed, GatesDone, Refused
<1>10. QED
  BY <1>1, <1>2, <1>3, <1>4, <1>5, <1>6, <1>7, <1>8, <1>9 DEF Step

\* A call takes at most eight ledger transactions, whatever the others do: each
\* one of it brings it nearer to its end, and none of another sets it back.
THEOREM CallsRunDown == Spec => [][\A p \in Caller : Step(p) => RunsDown(p)]_vars
<1>1. PipeInv /\ [Next]_vars => [\A p \in Caller : Step(p) => RunsDown(p)]_vars
  BY StepRunsDown
<1>2. QED
  BY <1>1, PipelineInvariant, PTL DEF Spec
===============================================================================
