# TLA+ models of meta-improver

meta-improver (MI) takes a signal about a target project (a failing CI run, an issue, a diagnosis by a
squad of agents), leads an *attempt* at an improvement through gates of evidence, and publishes what was
accepted as a pull request. This directory models the parts of it whose correctness lies in the order of
things and in what a document may be trusted for: admission and retry of dispatches, the ledger of
attempts, the pipeline that several callers run over it, publication against a remote that other people
change, polling a squad through subprocesses that may hang, and the chain of plans, receipts and evidence
from a candidate worktree to a closeout packet. TLC checks every model on small instances; TLAPS proves
the safety of most of them for all values of the constants.

All paths below are under the repository root; the program's own package is `src/`.

## The system

| component | source | state | operations | interacts with |
|---|---|---|---|---|
| dispatch coordinator | `src/scheduler.py` `InMemoryDispatchCoordinator` | receipts by idempotency key and by event, locks, all under one `RLock` | dispatch, acquire_lock, complete (= succeed, release), record_failure, reset_circuit | callers and workers, approvals of `proposal.py` |
| dispatch journal | `src/scheduler.py` `SQLiteDispatchCoordinator` | the same, and an append-only table of snapshots | the same, each followed by an append; open replays the table | restarts |
| attempt ledger | `src/storage/ledger_db.py` | SQLite tables attempts, attempt_events, diagnoses, target_publications; each method one `BEGIN IMMEDIATE` transaction | record_attempt, transition_attempt, find/get, record_diagnosis, record_target_publication | every component that records |
| validation pipeline | `src/pipeline.py` | the recorder's last snapshot of the attempt | run_pipeline: get, find or record the attempt, one transition per passed gate, then reject or succeed | ledger |
| ingestion service | `src/ingestion/service.py` | none | ingest: record the attempt, close it when CI failed | ledger |
| squad diagnosis handoff | `src/ha_diagnosis.py` | none | record the diagnosis, record the attempt, close it when the squad rejected | ledger |
| attempt identity | `src/attempt_identity.py` | none | derive id and key of an attempt | ingestion, pipeline |
| proposal and approval | `src/proposal.py` | none | build plans, authorise an action by a token | coordinator |
| target publication | `src/target_publication.py` | none of its own: the remote branch, its pull request and checks | publish: prove the target, ensure the branch, find or create the pull request, poll | git, gh, ledger |
| bounded subprocess | `src/process.py` | a child, two pipes, a deadline, a byte budget | run_bounded_process | publication, squad client |
| squad client and polling | `src/ha_cli.py` | none | invoke: verify the provider, run one command; poll_squad_status with deadline and attempt bound | bounded subprocess, squad runs |
| report chain | `src/models/report_chain.py` | immutable chain of reports | append_report | squad reports |
| candidate worktrees | `src/sandbox/worktree.py`, `worktree_contracts.py` | none: plans, receipts and sightings its caller holds | plan_worktree, plan_cleanup, plan_recovery | an executor that runs git |
| sandbox orchestration | `src/sandbox/patch.py`, `admission.py`, `runner.py`, `orchestration.py` | none: documents | plan, check and retry a patch, admit it, run its container, plan and complete an orchestration | worktrees, a checker, a container transport |
| attribution, acceptance | `src/attribution.py`, `src/acceptance.py` | none | bind baseline, hypothesis, candidate and gates; accept | pipeline, closeout |
| self-evolution | `src/self_evolve.py` | none | bind two evaluations to a prompt candidate, compare them | |
| closeout | `src/closeout.py` | none | make a packet from receipts or their digests, a review and a consent; rehydrate it | acceptance, pipeline |
| ingestion adapters, evidence, CLI, configuration | `src/ingestion/*`, `ha_evidence.py`, `cli.py`, `orchestrator.py`, `config.py` | none | conversions and wiring | all |

What is hard here, and what correctness means for it:

* **Coordinator.** A request may be retried after a backoff window computed from a clock that is read
  before the lock is taken; failure reports may be late, repeated or made by a watchdog; an explicit lock
  is a second way to a key. Correct: one request per key and per event for good; the breaker stops a key
  after `failure_threshold` runs; nothing forbidden is ever on record; a worker is not started beside
  another of the same key or event.
* **Journal.** Memory changes before the append, the append may fail, the process may stop at any time.
  Correct: no admission that was journalled is lost; a restart restores the memory that was appended; a
  journal that was never damaged opens.
* **Ledger.** Any number of threads and processes call it with rows built from stale snapshots. Correct:
  one attempt per key, legal evidence in every revision, history append-only.
* **Pipeline and handoffs.** Get, find and record are separate transactions, and each gate's transition
  is another; callers crash anywhere. Correct: a receipt or a rejection handed out stays true; recorded
  evidence is never rewritten; an attempt's diagnosis is on record; callers that race do not all lose.
* **Publication.** Every git or gh command may fail before or after its effect, other publishers and
  maintainers act in between, checks come and go. Correct: what is recorded as succeeded was checked; a
  publication that was interrupted can be published again.
* **Subprocesses and polling.** A child may hang, flood its pipes, close them and live on, or leave them to
  a process of its own; two deadlines and two kinds of sleep nest. Correct: the caller gets all the output
  or an error, no child is left, the poll ends in bounded time, and what it calls ended has ended.
* **Documents.** Plans, receipts and evidence are mutable objects that carry a hash of their contents;
  callers hold several of them, of any age, and combine them. Correct: what is removed, admitted, accepted
  or closed rests on evidence for that very plan, commit, candidate or review.

## Modules

| module | models | extends |
|---|---|---|
| `DispatchRules` | requests, tokens, receipts, the memory of a coordinator; what each call decides and does to it | |
| `DispatchCoordinator` | the in-memory coordinator: one action per method, the clock | `DispatchRules` |
| `Admission` | what the coordinator promises: abstract specification | |
| `DispatchWorkers` | the coordinator with the workers, lock holders and operators that call it | `DispatchCoordinator` |
| `DispatchJournal` | the SQLite coordinator: append, crash, open | `DispatchRules` |
| `AttemptRules` | rows, evidence of a stage, legal transitions, replays | |
| `AttemptLedger` | the two tables of attempts under any calls | `AttemptRules` |
| `AttemptLifecycle` | what ledger and callers promise together: abstract specification | |
| `AttemptPipeline` | pipeline runs, ingestion and diagnosis handoffs as concurrent callers | `AttemptLedger` |
| `TargetPublication` | publishers, the remote, the target worktree, the publication table | |
| `BoundedProcess` | one subprocess call: the read loop, the child, its heir, the clock | |
| `SquadPolling` | the poll loop over subprocess calls, the squad, the provider | `BoundedProcess` |
| `Documents` | contents with a hash, checked again by every consumer | |
| `WorktreeRules` | scopes, snapshots, and when a worktree may be planned | `Documents` |
| `WorktreePlans` | create, cleanup and recovery plans, their executor and observer | `WorktreeRules` |
| `SandboxRuns` | patch plans, admissions, container results, orchestrations, some written by the caller | `WorktreePlans` |
| `Acceptance` | which evidence fits together to accept a candidate | `Documents` |
| `Closeout` | accepted candidates, pipeline receipts, reviews, consents, packets | `Acceptance` |
| `SelfEvolve` | evaluations bound to a prompt candidate and compared | `Documents` |
| `ReportChain` | the chain of a squad's reports | |
| `DispatchRulesProofs` | lemmas about the rules, for the next two | `DispatchRules` |
| `DispatchProofs` | theorems about the coordinator and the workers | `DispatchWorkers` |
| `DispatchJournalProofs` | theorems about the journal | `DispatchJournal` |
| `AttemptProofs` | theorems about the ledger and the callers of it | `AttemptPipeline` |
| `TargetPublicationProofs` | theorems about publication | `TargetPublication` |
| `SquadPollingProofs` | theorems about subprocess calls and the poll over them | `SquadPolling` |
| `SandboxProofs` | theorems about worktree plans and sandbox runs | `SandboxRuns` |
| `EvidenceProofs` | theorems about acceptance and closeout, self-evolution and the report chain | `Closeout`, `SelfEvolve`, `ReportChain` |
| `MC*` | values of the constants for TLC | the module named |

Operators whose comment begins with "Mistaken:" are wrong variants of the definition that follows them:
each property below was checked to fail when its variant replaces the definition.

### Correspondence with the code

*Coordinator.* `mem` is `_records_by_idempotency`, `_records_by_event` and `_locks`. A lock is kept by the
code as a request hash; here it is the request, for the hash is a digest of all of it. Each method holds
the `RLock`, so it is one action; only `_now` is called outside, so `Dispatch` and `RecordFailure` carry a
reading of the clock up to `MaxWait` old. The same range covers callers that pass `now` themselves. What a
caller presents as authorisation (token, plan, signer, any of them missing) is chosen anew at every call.
`receipt` is what the last call returned; `"raised"` stands for a call that ends in an exception, which
happens when a failure count passes what a receipt may hold. An unsafe failure reason is the first
disjunct of `RecordFailure`.

*Workers.* The repository has no worker ("a later worker may consume the receipts"). `DispatchWorkers`
assumes little: who is told `accepted` by dispatch runs the request and reports once; who is told
`accepted` by acquire_lock holds the key until it calls release; and a failure report may come from
anybody at any time, a completion report may come twice. Properties name the exceptions this makes.

*Journal.* `Persist` is a change of memory followed by an append that may be refused. `RowValid` is what
`_apply_snapshot` demands of a row. Hashes, schema and the configuration comparison are left out, because
no row is damaged and every process has the same configuration. A process is one coordinator object. Two
of them on one journal at the same time would append snapshots that lack each other's admissions; the
class is described as a local journal and promises nothing about that, so the runs have one process.

*Ledger.* A row is an `Attempt`. The hashes of stages 1 to 4 are a function; the fields that no caller
changes (signal, base commit, strategy, snapshot, model and prompt versions, creation time) are one value
`ident`. A call that raises or replays changes nothing and is therefore a stutter of `AttemptLedger`; its
answer is `RecordVerdict` or `TransitionVerdict`, which the pipeline uses. `IntegrityError` on the primary
key, which the code does not turn into `LedgerConflictError`, is an answer of its own.

*Pipeline.* `pc` walks through `run_pipeline` at its ledger transactions; `snap` is `recorder.attempt`.
What the gates of `_validate_in_order` decide is input: a call says how many stage callbacks are made,
and which `PipelineError` (stage and reason) follows. A receipt is a digest of everything the gates saw,
so calls with one receipt have one evidence. The handoffs are capture calls. A second collection of a
squad run has the same `diagnosis_id` with other data.

*Publication.* One action per git or gh command of `TargetPublisher`, in its order. All requests are for
one task, so they share the branch `mi/<task>`. GitHub is external and modelled by what the code relies
on: at most one open pull request from a branch, whose head follows the branch and which closes when the
branch is deleted; creating a branch that exists is refused whatever its commit. Required checks are one
value per commit: none registered yet, pending, success, failure (any state the code rejects). Executable
digests, the origin comparison and field validation are left out.

*Subprocess and polling.* `call` is where `run_bounded_process` is: the head of its loop, the pass over
the pipes (`Read` is one `os.read`, in the order stdout, stderr), the sleep, the wait for the exit, the
`finally` block. Bytes are counted: `piped` is in a pipe, `got` with the caller, `wrote` what was ever
written. A process that inherits the pipes is the `heir`; whether the read loop sees their end depends on it and
not on the child. A killed child cannot refuse to die, but may take its time. `step` is where
`poll_squad_status` is; an attempt is a call for the version and a call for the status. The argument that
names the run, the JSON and the fields of the payload are reduced to what the loop looks at: one whole
document or not, exit status, ended or not. The clock is discrete; `Blocked` says when it may pass without
the parent, and everything else that takes time (being preempted, reading, spawning) draws on `MaxLag`.

*Documents.* `Doc(body)` is an object with the hash of its contents; changing a field of a plan in
hand (`EditWorktree`, `EditPatch`, `EditAdmission`, `EditOrchestration`) leaves the hash behind, and `Intact` is what the
`rehydrate_` functions test. Because a hash stands for its contents, comparing hashes is comparing
contents. A receipt that the code gives no hash (the container result, the patch checker's receipt) has
none here either. A hash is no signature: where a consumer takes a document that its caller may have
written without the call that should have made it, an action of the caller writes it (`HandReceipt`,
`HandResult`, and in `Closeout` the `Edit` actions, which put any contents under the hash of a document).

*Worktrees.* The planner never runs git; `Create`, `CommitInWorktree`, `Observe` and `Remove` are what its
documents say the executor and the observer do, including that the executor looks at the head again, which
is a precondition of the plan (`src/sandbox/worktree.py:280`). Paths are sequences of names, and snapshots
map them to file, symlink or submodule. Cleanup and recovery make the same removal, so `PlanRemoval` is
both; recovery without evidence is `PlanInspection`.

*Sandbox.* One action per call, each with documents of whatever age its caller holds. A patch plan is
passed as soon as it is planned or retried (`src/sandbox/patch.py:411`, 442); `CheckPatch` changes that.
`RunContainer` takes any container, as `ContainerRunner.run` asks for no admission. An orchestration is
planned from an admission plan and a receipt that names its hash, and completed later with a result
(`PlanOrchestration`, `CompleteOrchestration`, with edits of the plan between them). Neither the receipt
nor the result can be told from one that the caller wrote (`tests/test_orchestration.py:72-92` certifies a
result of no run), so both kinds are there. `ran` is history: whether a runner saw the container end
cleanly or badly, or no runner made the result. `SuccessWasAdmitted` accordingly ties the certified plan
to the receipt and the result to its container, and claims a clean run of the runner's results only.

*Acceptance and closeout.* A submission is five documents that need not belong together. The gates are
honest: a validation gate exists only of a candidate whose tests passed, which `SubmissionAssumption`
says; what is checked is that an honest gate is not used for another candidate. Receipts with and without
a hypothesis are taken as one. A review and a consent are
people's, held on one of the receipts in hand; `shown` remembers what they saw and when they consented.
`Close` is the constructor of a packet. It takes any claim (baseline, candidate, patch), task, review and
time, each receipt with its contents or as a digest (`given`), and both references or either, as these
are optional; and it compares the hashes it finds in them without deriving one again, as
`_value_digest` does. `Rehydrate` is `rehydrate_closeout_packet`, which derives those of the packet and
its references. `ClosedAsReviewed` is therefore about packets that rehydrate: what it says of the review
holds of all of these, what it says of the patch only of those made from a genuine acceptance receipt with
its contents (`genuine`, a history), for a packet made from an edited receipt or from its digest alone may
name a patch that was never tested, and rehydrates.

*Self-evolution.* Scores are integers in hundredths, so the variance is compared without division.
*Report chain.* Ids, roles, rounds and references of reports; their findings are text.

## Runs

| run | question | bounds | distinct states |
|---|---|---|---|
| `DispatchCoordinator_safety` | types, indexes, breaker, authorisation, permanence, and that it implements `Admission` | 2 keys, 2 events, 6 requests that share keys and events in every way dispatch tells apart, 1 token valid for part of the time, threshold 2, limit 3, time 0..2 | 138 570 |
| `DispatchWorkers_reports` | how often, when and beside whom workers run | 2 requests for one event, threshold 3, limit 4, time 0..4, wait 1 | 359 396 |
| `DispatchJournal_restart` | nothing admitted is lost by crashes and refused appends | 2 requests for one event, 4 rows | 794 921 |
| `AttemptLedger_rules` | tables stay legal whatever rows are offered | one attempt at every status and stage with one stage of evidence less, exact or more, and a second attempt under the same or another key | 740 |
| `AttemptPipeline_callers` | results stay true under interleaving and crashes; implements `AttemptLifecycle` | 2 callers, 2 calls each out of 8, crash anywhere | 755 470 |
| `AttemptPipeline_progress` | callers that refuse each other do not all lose: the attempt is closed by one of them | 3 callers, 1 call each, no crash, fair | 18 228 |
| `TargetPublication_retry` | success was checked, races are shared, publishing again gets through | 2 publishers, 2 commits, 2 polls, 1 disturbance, fair | 362 110 |
| `SquadPolling_bounded` | output is whole, children are reaped, answers are true, the poll ends and in time | 2 attempts, deadline 2, timeout 2, budget 1 byte of up to 2 written, nap and interval 1, lag 1, fair | 938 075 |
| `SandboxRuns_documents` | removals, admissions and successes rest on evidence for that very plan | 4 requests (two for one path), 2 snapshots, 3 patches, 2 containers, 6 outcomes, 2 admissions, 1 edit | 293 029 |
| `Evidence_contracts` | acceptance, closeout, self-evolution and report chain accept only what fits | 3 baselines, 2 patches, 2 fixes, edited documents; 3 claims, 2 tasks, time 0..1, and 2 reviews or 1 edit; all pairs of evaluations of 2 runs with 4 score patterns; 5 report ids | 2 238 883 |
| `DispatchJournal_reopen` | fails: the coordinator's own journal may not open | 3 requests, 5 rows | |
| `TargetPublication_unrecorded` | fails: a publication may end without a record | 1 publisher | |

*Why these bounds are enough.* The coordinator treats keys alike and events alike, and its rules compare
at most two requests; two keys and two events give every pattern of sharing (same key, same event, both,
neither). A threshold of 2 separates the first failure from the one that opens the circuit, 3 gives two
backoff delays, and the limit lies above the threshold so that failures of an open circuit are counted to
where a receipt cannot hold them. Four journal rows hold admission, failure, retry or reset with a restart
after each. The pipeline's hazards are between two callers; a third is in the progress run because losing
to two others in turn is the interesting case there. One disturbance at every
point of a publication covers a failure before or after each command's effect; `MaxPulls` must exceed
`MaxTrouble`, or the bound itself would stop publishers, and an assumption says so.
In the polling run two bytes against a budget of one give an answer that is empty, whole or too long; two
attempts give a first, a last and the pause between them; a deadline and a timeout of two are each cut into
what passes before and after a step. In the sandbox run two requests share path and commit and differ in
what they allow, so that evidence for one can be offered for the other; the third crosses a symlink, and
the fourth has nested scopes, which are refused unless a third scope comes between them as text. Two
admissions allow a receipt of one to meet the plan of the other. The evidence run has one honest fix for each of two failures, candidates that mix them, and two reviews, so
that one can overtake the other; the third claim is one candidate under the patch of the other; the fourth report ends a chain, and a fifth id leaves room for a wrong
reference.

*Constraints and symmetry.* `SandboxRuns_documents` is constrained by `Apart`: what is known of the
worktree on disk and what is made of its plan in the sandbox are read by different calls (no guard reads
both), and the run explores either beside all states of the plan, not their product. An orchestration plan
reads admissions only when it is made, and a result is read with an orchestration plan only, so `MCNext`
makes the earlier calls without one. Likewise `MCEvidence` makes a packet's later calls with what is in
hand when the packet was made: no other call reads it. `OneTrouble` lets the evidence run have either an
edit or a second review. The proofs have no such constraints.
Containers (`Containers`) and tasks (`Alike`) are compared for equality only and are symmetric;
both runs check invariants only. `MCEvidence` chooses one of its three parts at the start, which share no
variable.

*Deadlock* is checked in the coordinator, worker and publication runs, where calls are always possible.
It is off where the system may rest: journal rows, calls and offered rows are bounded or run out, a poll
ends, and so do time, a chain and the one evaluation of the evidence run.

### What a failing run means

The two failing runs state what the program says about itself and find a behaviour of the code that
contradicts it; `PROJECT.json` quotes the text for each under `findings`. A theorem says of each that the
behaviour found is the only one (`JournalOpensAgain`, `OutcomesAreRecorded`).

### Other disagreements met while modelling

These were found with the same models and have no run of their own:

* A retry whose backoff is over assigns its key's lock without looking (`src/scheduler.py:419`), so it is
  accepted while another caller holds an explicit lock. A first dispatch is refused then (437), and
  `tests/test_scheduler.py:70` says that an explicit lock fails closed.
* `reset_circuit` leaves an ACCEPTED receipt with the reason "circuit reset requires a fresh dispatch"
  (527), and an ACCEPTED receipt makes that dispatch "deduplicated" (422). It runs only after somebody
  reports another failure.
* Of two concurrent runs of equal input one may get the receipt and the other `LedgerConflictError`
  (`src/pipeline.py:223`); `tests/test_pipeline.py:394` expects equal receipts. A rejected call that is run
  again may also end differently, when its gate failed before its stage was recorded (240).
* One identity may have two attempts: the handoff derives its key from a JSON object
  (`src/ha_diagnosis.py:328`), ingestion and the pipeline from three fields joined by ":"
  (`src/attempt_identity.py:15`); `PLAN.md:192` excludes that. The models give the two different keys.
* "Only a passed patch check may be admitted" (`src/sandbox/admission.py:69`), but a patch plan is made
  with the status passed before any check (`src/sandbox/patch.py:411`) and again by a retry (442).
  `AdmittedPatchFits` therefore speaks of what the plan was held against and not of a check.

### Fairness

`AttemptPipeline_progress` assumes weak fairness of each caller's steps: a call in progress is running
code, and no step waits for another caller (SQLite's busy timeout turns waiting into an error, which ends
the call). There is no fairness on beginning a call, nor on crashes. `TargetPublication_retry` assumes it
of each publisher's commands, which have timeouts, of calling publish again,
which is the caller's policy and the premise of the question, and of checks starting, finishing and being
run again after a failure. Nothing else is fair; in particular nobody repairs a branch or a worktree, and
the property asks for success only if both stay with the accepted commit. `SquadPolling_bounded` assumes
that the client runs, that time passes, and that a killed child dies (SIGKILL cannot be caught). Nothing is
assumed of a child that was not killed, of its heir, of the squad or of the provider. The runs of
documents check no liveness.

## Theorems

All theorems hold for every value of the constants that satisfies the named assumptions of the modules:

* `RequestAssumption`, `TokenAssumption`, `BoundsAssumption`, `NoneAssumption`, `TimeAssumption` of the
  coordinator and `JournalAssumption`; `OfferedAssumption`, `CaptureAssumption`, `DiagnosisAssumption`,
  `PipelineAssumption`, `BoundAssumption` and `NoneAssumption` of ledger and callers;
  `PublicationAssumption`; `ProcessAssumption` and `PollAssumption`; `ObservationAssumption`;
  `CloseoutAssumption`; `EvolutionAssumption`. They say that constants have their types, that null values
  are not values, that the threshold lies between 1 and the limit, that budgets and timeouts are positive, that an evaluation
  has its fields, and nothing else.
* Two assumptions are about the world: a gate's document is the tester's (`SubmissionAssumption`), and two
  runs that come to one receipt digest did so on the same evidence and tests (`ReceiptAssumption`).
* Three theorems have a premise of their own, because what they state fails without it: `AdmissionsAreKept`
  (no two coordinators are open on the journal at once, `OneOpen`), `JournalOpensAgain` (`acquire_lock` is
  not called for a recorded key with another request, `LocksAsRecorded`) and `OutcomesAreRecorded` (no two
  required checks share a name, `Ambiguous = {}`).

**Coordinator** (`DispatchProofs`, from lemmas about the rules in `DispatchRulesProofs`). The inductive
invariant `CoordinatorInv` is `TypeOK`, `IndexesAgree` and `BreakerAgreesWithCount` together: none is
inductive alone, because that a receipt replaced under its key is also replaced under its event needs the
indexes to agree before, and that the count fits the type needs the limit. The lemmas show that each change
of memory (accept, fail, complete, reset, lock) preserves `Sound`, which is the invariant of a memory
value; `StepShape` reduces a step of the coordinator to one of them. From the invariant follow:

* `TypesHold`, `IndexesAlwaysAgree`, `BreakerAlwaysAgrees`;
* `BindingsArePermanent`: a key or an event once bound to a request is bound to it for good;
* `FailuresForgivenByResetOnly`: the failure count falls only by the reset of an open circuit;
* `RecordsAlwaysAuthorized`: what is on record was authorised when it was accepted;
* `CoordinatorImplementsAdmission`: initial states map to initial states, and every step is a step of
  `Admission` or leaves it unchanged.

**Workers** (also `DispatchProofs`). Every step of the workers is a step of the coordinator
(`WorkersCallTheCoordinator`), so its invariant holds here too. `WorkersInv` adds what relates the two: per
key, the runs so far against the failures of the receipt (one more than the failures while it is accepted,
no more while it waits, at most the threshold once it is open); how far in the future a backoff window ends
(`WindowLong`); and that whatever runs or has completed, and nobody else has called failed, is on record as
accepted. The last part is what makes exclusion provable: an accepted receipt lets no dispatch of its key
or its event through. From it follow `RunsStayWithinBreaker`, `RetriesWaitForBackoff`,
`CompletedStaysCompleted` and `RunsAreExclusive`.

**Ledger** (`AttemptProofs`). The inductive invariant `LedgerInv` is the types, that every log is
sound (it starts with a captured attempt, ends with the row, and each revision follows legally from the
one before), that every row is, and that keys are unique. A step writes exactly one row
(`StepWrites`), so each part is preserved by `Write` alone. From it follow `LedgerTypesHold`,
`EvidenceAlwaysMatchesStage`, `KeyAlwaysHasOneAttempt`, `LogAlwaysLeadsToRow`, and `HistoryIsAppendOnly`.
The proofs are of a wider specification, `AnyLedgerSpec`, where any row may be offered at any time.
`RetriesChangeNothing` holds of it too: no revision of a log is of a later stage than the row, and one that
ended the attempt is the row (`LogBelow`), so an answer that was lost costs its caller nothing but a second
call.

**Pipeline** (`AttemptProofs`). A caller reads a row, works, and writes; in between any other caller may
write. `PipeInv` says what it may rely on nevertheless (`Knows`): the row it holds is an earlier state of
the row in the ledger, and stages recorded then are recorded now, with the same evidence (`Precedes`). The
ledger's own rules do not promise this, so it needs the callers: every step of every caller writes nothing,
a fresh row, the next stage of the row, or its end (`LedgerMoves`). `Agrees` carries what the gates
compared so far, `Vouched` that a success was recorded by a call with that receipt, `ResultTrue` that what
a caller was told holds. From it, for any callers, calls and crashes: `EveryReceiptVouches`,
`EveryRejectionStands`, `EveryAttemptHasDiagnosis`, and `PipelineImplementsLifecycle`.

The callers also implement the ledger (`CallersUseTheLedger`): each of their steps is a call of
`record_attempt` or `transition_attempt` or leaves the tables alone, hence `LedgerPromisesHold`. Two theorems
are what can be proved of progress, where TLC checks `SomeCallGetsThrough`: `CallsRunDown` (each step of a call lowers its
`Rank`, which is at most eight, and no other caller changes it) and `UpToDateIsNeverRefused` (what a caller offers on
the row as it is, is applied; so whoever is refused has lost to a caller that got on).

**Journal** (`DispatchJournalProofs`). `JournalInv` says that open memories are sound and that the last row
is the snapshot of a sound memory; for sound memories `Restore` inverts `Snapshot`, hence
`RestoresLoseNothing`. `AdmissionsAreKept` adds that an open memory is ahead of the last row (`Ahead`),
which holds while one process is open at a time, however many take turns: with two open at once TLC finds
`AdmissionKept` violated. `JournalOpensAgain` names the cause of the run that fails: the loader's check of
events never refuses the row of a sound memory (`FittingIsValid`), its check of locks refuses one whose
locks do not fit its receipts, and of all calls only `acquire_lock` can make one (`CallsFit`). It needs no
premise on the number of processes.

**Publication** (`TargetPublicationProofs`). `PubInv` splits into the remote, which is at rest while nobody
interferes (`Undisturbed`: every pull request open and at the branch), and what each publisher knows at
its step (`Knows`). A step is shown to move the remote forwards only (`RemoteGoesOn`), which keeps every
receipt true and what all the others know; what its own publisher knows next is one lemma per action. From
it `PublicationTyped`, `SuccessesWereChecked` and `RacersShareThePull`. `OutcomesAreRecorded` shows that the
run that fails has found the only way to end without a record. `PublicationsRunDown` counts what is left of
a call (`Left`): every command lowers it, nothing that another does raises it, and it is at most
`MaxPolls + 9`; that each command is eventually taken is the fairness of the run.

**Subprocess and polling** (`SquadPollingProofs`). `PollInv` has two halves. `ProcInv` accounts for bytes:
while pipes are watched, every byte written is in its pipe or with the caller, and a pipe that the parent
gave up is empty and held by nobody; it is this that makes `OutputIsWhole` provable, for what is returned
is judged long after the last read. `TimeBounded` says how late each step of the poll can be, with the lag
excused: an attempt begins before the deadline, its version call ends by `ByVersion`, its status call by
`ByStatus`. `AnswersTrue` carries that ended squads stay ended. From it `OutputIsWhole`,
`EveryChildIsReaped`, `TerminalReceiptsAreTrue` and `PollTakesBoundedTime`. The bound shows what
`deadline_seconds` does not promise: a poll may outlast it by two subprocess timeouts.

**Worktrees and sandbox** (`SandboxProofs`). The invariant says of each document that its *hash* is of
contents that a call derived (`Derived`), whatever was made of the contents since; a consumer that finds
the document intact knows as much of the contents. `PatchBody` and `AdmissionBody` carry what was checked
when a plan was made, so that nothing is checked twice. From it `EveryRemovalIsBacked`,
`EveryAdmittedPatchFits`, `EverySuccessWasAdmitted`, for any number of edits, with results and receipts of
the caller's own, and without the constraints of the run.

**Acceptance and closeout** (`EvidenceProofs`). `GatesBind` is the heart: documents that fit together, of
whatever origin, are of one baseline and one patch with a passing test run. `CloseInv` carries it to the
hash of the receipt, and says of the hash of a review or a consent that it is of what the people of that
review were shown; the contents may be anything. A packet carries the documents it was made from, as they
were; that it rehydrates makes its references intact again, and only then do their contents say what their
hashes do (`RehydratedAsReviewed`). From it `EveryReceiptIsEarned` and `EveryPacketIsAsReviewed`.

**Self-evolution** (also `EvidenceProofs`). `evaluate_self_evolve` bounds the variance of the gains, which it
computes from their sum and the sum of their squares; what a reader wants to know is how far apart any two
runs may lie. `SteadyIsPairwise` proves the two equal for any number of runs. The model's sums are folds, whose
unfolding `FoldSums` gives for every set of runs; that holds by least counterexample (`AllSubsets`),
for induction over an operator is not available. `PairSum` is the identity between
the two forms. With it `EvolutionIsSteady`.

**Report chain** (also `EvidenceProofs`). Chains are valid and end with the leader (`ChainStaysSound`). That
every report leads back to the first is proved for any set of reports closed under reference: its earliest
member refers to nothing earlier, so it is the first (`EveryReportRestsOnFirst`).

**Only model-checked**: liveness (`SomeCallGetsThrough`, `RetryGetsThrough`, `PollEnds`), which is
out of reach of the prover; the safety each rests on is proved (above, and `PollTakesBoundedTime`).

## What is not modelled

* Text: parsing and redaction in the ingestion adapters (`src/ingestion/`), the text of patches, evidence
  files (`src/ha_evidence.py`), argument vectors of the squad client, the ranking of hypotheses. They are
  conversions without state; what they decide is an input of the models.
* The command line and the configuration (`src/cli.py`, `orchestrator.py`, `config.py`): wiring.
* Field validation of the pydantic models beyond what decides a transition or makes a call raise.
* Migration of older ledger and journal schemas; damaged rows; differing configurations.
* Cryptographic digests: equal content has equal digests, other content has others.
* Two processes on one dispatch journal (see above).
* The quality gate of an acceptance, which is bound to no candidate and so shows nothing of one; the commit
  of a candidate's admission.
* The aliases `ha_task` and `ha_execution` of a packet's fields, under which the constructor does not
  compare a reference's task (`src/closeout.py:542`).
* Named metrics, floats and the rollback reference of self-evolution.
* Building proposals and approvals, whose fields are text and digests; what an approval covers, and when,
  is in `DispatchRules`.

## Plan

Done, in this order: the coordinator and its abstract specification, the workers, the journal, the ledger,
the pipeline over it with its abstract lifecycle, publication; subprocess and polling; worktrees and
sandbox; acceptance, closeout, self-evolution and the report chain; the proofs of all of these, of what
repeated calls and lost races come to, of how long calls may go on, and of what causes the two findings.

What remains:

1. `AttemptPipeline` composed with `Acceptance`, so that what a gate decides comes from the documents
   offered and not from the call.
2. For `PollEnds` what `CallsRunDown` and `PublicationsRunDown` are for the other calls: a measure of a poll
   that each of its steps lowers, time and children included.
