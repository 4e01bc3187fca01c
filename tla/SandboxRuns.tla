------------------------------ MODULE SandboxRuns ------------------------------
(***************************************************************************)
(* What is done with a worktree plan in the sandbox (src/sandbox/patch.py,  *)
(* admission.py, runner.py, orchestration.py): plan and check a patch for   *)
(* it, plan and grant the admission of a container, run the container, plan *)
(* its orchestration and certify a successful run.  Each call takes what    *)
(* its caller holds: documents of other calls, older ones or edited ones,   *)
(* and an admission receipt and a container result, which the caller may    *)
(* have written without an admission or a run.  The patch checker and the   *)
(* container transport are external.                                        *)
(***************************************************************************)
EXTENDS WorktreePlans, FiniteSetsExt

CONSTANTS
  Bundle,      \* PatchBundle: [base, fuzzy, files], a file is [kind, binary, path, old, new, size]
  Limits,      \* PatchLimits
  Container,   \* ContainerRunRequest
  Observation  \* what the transport saw: whether it answered and kept to the policy, whether
               \* the container kept to its time and exited with 0, and its peak memory, which
               \* need not be reported: [answered, policy, memory, time, zero]

ASSUME ObservationAssumption ==
  Observation \subseteq [answered : BOOLEAN, policy : BOOLEAN,
                         memory : {"kept", "exceeded", "unreported"},
                         time : BOOLEAN, zero : BOOLEAN]

VARIABLES
  patch,          \* the patch plan in hand: [worktree, bundle, retry, status]
  admission,      \* the admission plan in hand: [worktree, patch, container]
  granted,        \* the admission plans that a receipt in hand names
  orchestration,  \* the orchestration plan in hand: an admission plan with its receipt
  result          \* the container result in hand: [container, status, ran], where ran is
                  \* history: "cleanly" or "badly", or "not seen" when no runner made it

sandboxVars == <<patch, admission, granted, orchestration, result>>
vars == <<worktreeVars, sandboxVars, issued, edits>>

Init ==
  /\ WorktreeInit
  /\ patch = NoDoc /\ admission = NoDoc /\ granted = {}
  /\ orchestration = NoDoc /\ result = NoDoc

\* A document is made or changed, and nothing is admitted or certified by it.
Made(others) == issued' = NoDoc /\ UNCHANGED <<worktreeVars, others, edits>>

Edited(others) ==
  /\ edits < MaxEdits /\ edits' = edits + 1
  /\ issued' = NoDoc /\ UNCHANGED <<worktreeVars, others>>

-----------------------------------------------------------------------------
(***************************************************************************)
(* patch.py                                                                 *)
(***************************************************************************)
\* The paths a file of a bundle changes; "none" stands for a path not given.
Changed(file) ==
  CASE file.kind = "rename" -> {file.old, file.new}
    [] file.kind = "delete" -> {file.path, file.old} \ {"none"}
    [] OTHER -> {file.path}

Touched(bundle) == UNION {Changed(file) : file \in bundle.files}

Source(file) == IF file.old # "none" THEN file.old ELSE file.path

ValidFile(file, allowed, snap) ==
  /\ file.kind = "binary" \/ file.binary => Limits.binary
  /\ file.kind = "rename" => /\ Limits.renames
                             /\ KindOf(snap, file.old) = "file"
                             /\ KindOf(snap, file.new) = "untracked"
  /\ file.kind = "delete" => Limits.deletes /\ KindOf(snap, Source(file)) = "file"
  /\ file.kind = "add" => KindOf(snap, file.path) = "untracked"
  /\ file.size <= Limits.maxFileBytes
  /\ \A p \in Changed(file) :
       /\ \E scope \in allowed : Under(p, scope)
       /\ \A b \in DOMAIN snap.entries : snap.entries[b] \in Boundary => ~Under(p, b)
       /\ file.kind = "modify" => KindOf(snap, p) = "file"
       /\ Head(p) \notin {".git", ".gitmodules"}

\* The smaller of the two limits holds for the files and for the paths they touch.
FewFiles(bundle, req) ==
  \A most \in {Limits.maxFiles, req.maxFiles} :
    Cardinality(bundle.files) <= most /\ Cardinality(Touched(bundle)) <= most

\* _validate_entries: the snapshot need not be the one the worktree was planned from.
ValidPatch(bundle, plan, snap) ==
  /\ bundle.fuzzy => Limits.fuzzy
  /\ bundle.base = plan.request.base /\ bundle.base = snap.base
  /\ snap.repo = plan.request.repo /\ snap.source = plan.request.source
  /\ FewFiles(bundle, plan.request)
  /\ \A file \in bundle.files : ValidFile(file, plan.request.scopes, snap)
  /\ MapThenSumSet(LAMBDA file : file.size, bundle.files) <= Limits.maxBytes

\* plan_patch: the plan starts out as passed, before any check was made.
PlanPatch(bundle, snap) ==
  /\ Intact(worktree) /\ ValidSnapshot(snap)
  /\ ValidPatch(bundle, worktree.body, snap)
  /\ patch' = Doc([worktree |-> worktree.body, bundle |-> bundle, retry |-> 0, status |-> "passed"])
  /\ Made(<<admission, granted, orchestration, result>>)

\* plan_patch_retry: once, whatever became of the first check, and passed again.
RetryPatch ==
  /\ Intact(patch) /\ patch.body.retry = 0
  /\ patch' = Doc([patch.body EXCEPT !.retry = 1, !.status = "passed"])
  /\ Made(<<admission, granted, orchestration, result>>)

\* What check_patch makes of the checker's receipt; "none" is a checker that
\* raised or whose receipt is not valid or not of this request.
CheckStatus(verdict, clean) ==
  CASE verdict = "none" -> "rejected"
    [] verdict # "none" /\ ~clean -> "failed"
    [] OTHER -> verdict

CheckPatch(verdict, clean) ==
  /\ Intact(patch)
  /\ patch' = Doc([patch.body EXCEPT !.status = CheckStatus(verdict, clean)])
  /\ Made(<<admission, granted, orchestration, result>>)

\* The holder sets the status of a plan that did not pass.
EditPatch ==
  /\ patch # NoDoc /\ patch.body.status # "passed"
  /\ patch' = [patch EXCEPT !.body.status = "passed"]
  /\ Edited(<<admission, granted, orchestration, result>>)

-----------------------------------------------------------------------------
(***************************************************************************)
(* admission.py                                                             *)
(***************************************************************************)
\* Mistaken: takes a patch of any worktree plan with the same path and base.
SamePlace(plan, p) ==
  /\ p.status = "passed"
  /\ p.worktree.request.path = plan.request.path /\ p.worktree.request.base = plan.request.base

\* SandboxAdmissionPlan's bindings.
Bound(plan, p) == p.status = "passed" /\ p.worktree = plan

PlanAdmission(c) ==
  /\ Intact(worktree) /\ Intact(patch) /\ Bound(worktree.body, patch.body)
  /\ admission' = Doc([worktree |-> worktree.body, patch |-> patch.body, container |-> c])
  /\ Made(<<patch, granted, orchestration, result>>)

\* The holder replaces the container of an admission plan.
EditAdmission(c) ==
  /\ admission # NoDoc /\ admission.body.container # c
  /\ admission' = [admission EXCEPT !.body.container = c]
  /\ Edited(<<patch, granted, orchestration, result>>)

\* admit_sandbox
Admit ==
  /\ Intact(admission) /\ Bound(admission.body.worktree, admission.body.patch)
  /\ granted' = granted \cup {admission.body}
  /\ issued' = [kind |-> "admission", of |-> admission.body]
  /\ UNCHANGED <<worktreeVars, patch, admission, orchestration, result, edits>>

\* The caller writes a receipt for the hash of the admission plan, whatever the plan now says.
HandReceipt ==
  /\ admission # NoDoc
  /\ granted' = granted \cup {admission.hash}
  /\ Made(<<patch, admission, orchestration, result>>)

-----------------------------------------------------------------------------
(***************************************************************************)
(* runner.py                                                                *)
(***************************************************************************)
\* Peak memory that is not reported is not looked at.
RunStatus(o) ==
  LET fits == o.memory # "exceeded"
  IN  CASE ~o.answered \/ ~o.policy -> "rejected"
        [] o.answered /\ o.policy /\ ~fits -> "resource_exceeded"
        [] o.answered /\ o.policy /\ fits /\ ~o.time -> "timed_out"
        [] o.answered /\ o.policy /\ fits /\ o.time /\ ~o.zero -> "failed"
        [] OTHER -> "succeeded"

\* Nothing that the transport reported is amiss.
Clean(o) == o.answered /\ o.policy /\ o.memory # "exceeded" /\ o.time /\ o.zero

\* ContainerRunner.run asks for no admission.
RunContainer(c, o) ==
  /\ result' = [container |-> c, status |-> RunStatus(o),
                ran |-> IF Clean(o) THEN "cleanly" ELSE "badly"]
  /\ Made(<<patch, admission, granted, orchestration>>)

\* The caller puts a result together, or changes one.
HandResult(c, status) ==
  /\ result' = [container |-> c, status |-> status, ran |-> "not seen"]
  /\ Made(<<patch, admission, granted, orchestration>>)

-----------------------------------------------------------------------------
(***************************************************************************)
(* orchestration.py                                                         *)
(***************************************************************************)
\* plan_sandbox_orchestration, with the receipt of that admission.
PlanOrchestration ==
  /\ Intact(admission) /\ admission.body \in granted
  /\ orchestration' = Doc(admission.body)
  /\ Made(<<patch, admission, granted, result>>)

\* The holder replaces the container of the admission plan in the orchestration plan.
EditOrchestration(c) ==
  /\ orchestration # NoDoc /\ orchestration.body.container # c
  /\ orchestration' = [orchestration EXCEPT !.body.container = c]
  /\ Edited(<<patch, admission, granted, result>>)

\* Mistaken: the result is compared with the plan as it is now.
CertifiableNow(plan, res) ==
  /\ plan # NoDoc /\ res # NoDoc
  /\ res.status = "succeeded" /\ res.container = plan.body.container

\* complete_sandbox_orchestration believes the result it is given.
Certifiable(plan, res) ==
  /\ Intact(plan) /\ res # NoDoc
  /\ res.status = "succeeded" /\ res.container = plan.body.container

CompleteOrchestration ==
  /\ Certifiable(orchestration, result)
  /\ issued' = [kind |-> "orchestration", of |-> orchestration.body]
  /\ UNCHANGED <<worktreeVars, sandboxVars, edits>>

AdmissionNext ==
  \/ \E bundle \in Bundle, snap \in Snapshot : PlanPatch(bundle, snap)
  \/ RetryPatch \/ EditPatch \/ Admit \/ HandReceipt
  \/ \E verdict \in {"none", "passed", "failed", "rejected"}, clean \in BOOLEAN :
       CheckPatch(verdict, clean)
  \/ \E c \in Container : PlanAdmission(c) \/ EditAdmission(c)

RunNext ==
  \/ PlanOrchestration \/ CompleteOrchestration
  \/ \E c \in Container : EditOrchestration(c)
  \/ \E c \in Container, o \in Observation : RunContainer(c, o)
  \/ \E c \in Container, status \in {RunStatus(o) : o \in Observation} : HandResult(c, status)

Next ==
  \/ WorktreeNext /\ UNCHANGED sandboxVars
  \/ AdmissionNext
  \/ RunNext

Spec == Init /\ [][Next]_vars

-----------------------------------------------------------------------------
(***************************************************************************)
(* Whatever is admitted or certified is one plan's patch in that plan's     *)
(* worktree: none of the paths that patch.py counts as changed lies outside *)
(* the scopes of that request, they are no more than the request allows,    *)
(* and the patch is against the commit the request names, even when a plan  *)
(* was replaced or edited between the steps.                                *)
(***************************************************************************)
AdmittedPatchFits ==
  issued # NoDoc /\ issued.kind \in {"admission", "orchestration"} =>
    LET request == issued.of.worktree.request
        bundle == issued.of.patch.bundle
    IN  /\ bundle.base = request.base
        /\ \A p \in Touched(bundle) : \E scope \in request.scopes : Under(p, scope)
        /\ Cardinality(Touched(bundle)) <= request.maxFiles

(***************************************************************************)
(* A successful orchestration is of an admission plan that a receipt names, *)
(* in the contents and with the container that the receipt names it for,    *)
(* although the plan may have been edited before or after its orchestration *)
(* was planned; and the result is of that container, and of a clean run if  *)
(* a runner made it.  It need not be: a receipt and a result that the       *)
(* caller wrote are taken too, and then nothing is claimed of a run.        *)
(***************************************************************************)
SuccessWasAdmitted ==
  issued # NoDoc /\ issued.kind = "orchestration" =>
    /\ issued.of \in granted
    /\ result.container = issued.of.container
    /\ result.ran \in {"cleanly", "not seen"}
=============================================================================
