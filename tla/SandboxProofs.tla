----------------------------- MODULE SandboxProofs -----------------------------
(***************************************************************************)
(* Worktree plans and sandbox runs, for all requests, snapshots, patches    *)
(* and limits, and for any number of edits.                                 *)
(***************************************************************************)
EXTENDS SandboxRuns, TLAPS

\* The plans that plan_worktree makes.
Planned ==
  {w \in [request : Request, snapshot : Snapshot] : ValidScope(w.request, w.snapshot)}

\* The patch plans that plan_patch makes for them, whatever becomes of their status.
Fits(w, bundle) ==
  /\ bundle.base = w.request.base
  /\ \A p \in Touched(bundle) : \E scope \in w.request.scopes : Under(p, scope)
  /\ Cardinality(Touched(bundle)) <= w.request.maxFiles

Status == {"passed", "failed", "rejected"}

PatchBody ==
  {b \in [worktree : Planned, bundle : Bundle, retry : {0, 1}, status : Status] :
     Fits(b.worktree, b.bundle)}

AdmissionBody ==
  {a \in [worktree : Planned, patch : PatchBody, container : Container] :
     a.patch.worktree = a.worktree}

\* A document whose hash is of a contents that a call derived; the contents may be edited.
Derived(doc, Body) == doc # NoDoc => doc.hash \in Body

WorktreesDerived ==
  /\ Derived(worktree, Planned) /\ receipts \subseteq Planned
  /\ disk # NoDoc => disk.plan \in Planned
  /\ sighting # NoDoc => sighting = [receipt |-> sighting.receipt, head |-> sighting.head]

SandboxDerived ==
  /\ Derived(patch, PatchBody) /\ Derived(admission, AdmissionBody)
  /\ granted \subseteq AdmissionBody /\ Derived(orchestration, granted)
  /\ result # NoDoc /\ result.status = "succeeded" => result.ran \in {"cleanly", "not seen"}

IssuedFits == RemoveIsBacked /\ AdmittedPatchFits /\ SuccessWasAdmitted

SandboxInv == WorktreesDerived /\ SandboxDerived /\ IssuedFits

-----------------------------------------------------------------------------
\* Nothing is claimed of a step that issues nothing.
LEMMA NothingIssued == issued' = NoDoc => IssuedFits'
BY DEF IssuedFits, RemoveIsBacked, AdmittedPatchFits, SuccessWasAdmitted

\* What plan_patch accepts fits the request of the worktree plan.
LEMMA ValidPatchFits ==
  ASSUME NEW bundle \in Bundle, NEW snap \in Snapshot, NEW w \in Planned,
         ValidPatch(bundle, w, snap)
  PROVE  Fits(w, bundle)
<1>1. bundle.base = w.request.base BY DEF ValidPatch
<1>2. Cardinality(Touched(bundle)) <= w.request.maxFiles BY DEF ValidPatch, FewFiles
<1>3. ASSUME NEW p \in Touched(bundle) PROVE \E scope \in w.request.scopes : Under(p, scope)
  <2>1. PICK file \in bundle.files : p \in Changed(file) BY <1>3 DEF Touched
  <2>2. ValidFile(file, w.request.scopes, snap) BY DEF ValidPatch
  <2> QED BY <2>1, <2>2 DEF ValidFile
<1> QED BY <1>1, <1>2, <1>3 DEF Fits

\* ContainerRunner calls a run a success only when nothing is wrong with it.
LEMMA SuccessIsClean ==
  ASSUME NEW o \in Observation, RunStatus(o) = "succeeded"
  PROVE  Clean(o)
BY ObservationAssumption DEF ObservationAssumption, RunStatus, Clean

-----------------------------------------------------------------------------
LEMMA SandboxInitial == Init => SandboxInv
BY DEF Init, WorktreeInit, SandboxInv, WorktreesDerived, SandboxDerived, Derived,
       IssuedFits, RemoveIsBacked, AdmittedPatchFits, SuccessWasAdmitted

\* The planner's steps and the outside world's.
LEMMA WorktreeKeeps ==
  ASSUME SandboxInv, WorktreeNext, UNCHANGED sandboxVars PROVE SandboxInv'
<1> USE DEF SandboxInv
<1>1. SandboxDerived' BY DEF SandboxDerived, Derived, sandboxVars
<1>2. ASSUME NEW req \in Request, NEW snap \in Snapshot, PlanWorktree(req, snap)
      PROVE  WorktreesDerived' /\ IssuedFits'
  <2>1. WorktreeBody(req, snap) \in Planned BY <1>2 DEF PlanWorktree, WorktreeBody, Planned
  <2> QED BY <1>2, <2>1, NothingIssued DEF PlanWorktree, WorktreesDerived, Derived, Doc
<1>3. ASSUME NEW req \in Request, EditWorktree(req) PROVE WorktreesDerived' /\ IssuedFits'
  BY <1>3, NothingIssued DEF EditWorktree, WorktreesDerived, Derived
<1>4. ASSUME NEW delivered \in BOOLEAN, Create(delivered) PROVE WorktreesDerived' /\ IssuedFits'
  <2>1. worktree.body \in Planned BY <1>4 DEF Create, Intact, WorktreesDerived, Derived
  <2> QED BY <1>4, <2>1, NothingIssued DEF Create, WorktreesDerived, Derived
<1>5. ASSUME NEW p \in receipts, Observe(p) PROVE WorktreesDerived' /\ IssuedFits'
  BY <1>5, NothingIssued DEF Observe, WorktreesDerived, Derived
<1>6. ASSUME NEW p \in receipts, PlanRemoval(p) PROVE WorktreesDerived' /\ IssuedFits'
  <2>1. WorktreesDerived' BY <1>6 DEF PlanRemoval, WorktreesDerived, Derived, worktreeVars
  <2>2. /\ issued' = [kind |-> "remove", of |-> worktree.body]
        /\ worktree.body = p /\ sighting # NoDoc
        /\ sighting.receipt = p /\ sighting.head = p.request.base
    BY <1>6 DEF PlanRemoval, EvidenceAgrees
  <2>3. \E snap \in Snapshot : ValidScope(p.request, snap)
    BY <1>6 DEF WorktreesDerived, Planned
  <2>4. sighting' = [receipt |-> p, head |-> p.request.base]
    BY <1>6, <2>2 DEF WorktreesDerived, PlanRemoval, worktreeVars
  <2>5. receipts' = receipts BY <1>6 DEF PlanRemoval, worktreeVars
  <2>6. RemoveIsBacked' BY <1>6, <2>2, <2>3, <2>4, <2>5 DEF RemoveIsBacked
  <2>7. AdmittedPatchFits' /\ SuccessWasAdmitted'
    BY <2>2 DEF AdmittedPatchFits, SuccessWasAdmitted
  <2> QED BY <2>1, <2>6, <2>7 DEF IssuedFits
<1>7. ASSUME CommitInWorktree PROVE WorktreesDerived' /\ IssuedFits'
  BY <1>7, NothingIssued DEF CommitInWorktree, WorktreesDerived, Derived
<1>8. ASSUME Remove PROVE WorktreesDerived' /\ IssuedFits'
  BY <1>8, NothingIssued DEF Remove, WorktreesDerived, Derived
<1>9. ASSUME PlanInspection PROVE WorktreesDerived' /\ IssuedFits'
  <2>1. issued'.kind = "inspect" BY <1>9 DEF PlanInspection
  <2>2. IssuedFits' BY <2>1 DEF IssuedFits, RemoveIsBacked, AdmittedPatchFits, SuccessWasAdmitted
  <2> QED BY <1>9, <2>2 DEF PlanInspection, WorktreesDerived, Derived, worktreeVars
<1> QED BY <1>1, <1>2, <1>3, <1>4, <1>5, <1>6, <1>7, <1>8, <1>9 DEF WorktreeNext

\* What a call on patches, admissions and containers leaves alone.
LEMMA WorktreesStay ==
  ASSUME WorktreesDerived, UNCHANGED worktreeVars PROVE WorktreesDerived'
BY DEF WorktreesDerived, Derived, worktreeVars

LEMMA PatchKeeps ==
  ASSUME SandboxInv,
         \/ \E bundle \in Bundle, snap \in Snapshot : PlanPatch(bundle, snap)
         \/ RetryPatch \/ EditPatch
         \/ \E verdict \in {"none", "passed", "failed", "rejected"}, clean \in BOOLEAN :
              CheckPatch(verdict, clean)
  PROVE  SandboxInv'
<1>1. UNCHANGED worktreeVars /\ issued' = NoDoc /\ UNCHANGED <<admission, granted, orchestration, result>>
  BY DEF PlanPatch, RetryPatch, EditPatch, CheckPatch, Made, Edited
<1>2. Derived(patch, PatchBody)'
  <2>1. ASSUME NEW bundle \in Bundle, NEW snap \in Snapshot, PlanPatch(bundle, snap)
        PROVE  Derived(patch, PatchBody)'
    <3>1. worktree.body \in Planned
      BY <2>1 DEF PlanPatch, Intact, SandboxInv, WorktreesDerived, Derived
    <3>2. Fits(worktree.body, bundle) BY <2>1, <3>1, ValidPatchFits DEF PlanPatch
    <3> QED BY <2>1, <3>1, <3>2 DEF PlanPatch, Derived, Doc, PatchBody, Status
  <2>2. ASSUME NEW r \in {0, 1}, NEW s \in Status, Intact(patch),
               patch' = Doc([patch.body EXCEPT !.retry = r, !.status = s])
        PROVE  Derived(patch, PatchBody)'
    <3>1. patch.body \in PatchBody
      BY <2>2 DEF Intact, SandboxInv, SandboxDerived, Derived
    <3>2. [patch.body EXCEPT !.retry = r, !.status = s] \in PatchBody BY <3>1 DEF PatchBody
    <3> QED BY <2>2, <3>2 DEF Derived, Doc
  <2>3. CASE RetryPatch BY <2>2, <2>3 DEF RetryPatch, Status
  <2>4. CASE EditPatch
    <3>1. Derived(patch, PatchBody) BY DEF SandboxInv, SandboxDerived
    <3> QED BY <2>4, <3>1 DEF EditPatch, Derived
  <2>5. ASSUME NEW verdict \in {"none", "passed", "failed", "rejected"}, NEW clean \in BOOLEAN,
               CheckPatch(verdict, clean)
        PROVE  Derived(patch, PatchBody)'
    <3>1. CheckStatus(verdict, clean) \in Status BY DEF CheckStatus, Status
    <3>2. Intact(patch) /\ patch.body \in PatchBody
      BY <2>5 DEF CheckPatch, Intact, SandboxInv, SandboxDerived, Derived
    <3>3. [patch.body EXCEPT !.status = CheckStatus(verdict, clean)] \in PatchBody
      BY <3>1, <3>2 DEF PatchBody
    <3> QED BY <2>5, <3>3 DEF CheckPatch, Derived, Doc
  <2> QED BY <2>1, <2>3, <2>4, <2>5
<1>3. WorktreesDerived' BY <1>1, WorktreesStay DEF SandboxInv
<1>4. SandboxDerived' BY <1>1, <1>2 DEF SandboxInv, SandboxDerived, Derived
<1> QED BY <1>1, <1>3, <1>4, NothingIssued DEF SandboxInv

\* An admission plan is bound when it is made, and looked at again when it is granted.
LEMMA AdmissionKeeps ==
  ASSUME SandboxInv, \E c \in Container : PlanAdmission(c) \/ EditAdmission(c)
  PROVE  SandboxInv'
<1>1. UNCHANGED worktreeVars /\ issued' = NoDoc /\ UNCHANGED <<patch, granted, orchestration, result>>
  BY DEF PlanAdmission, EditAdmission, Made, Edited
<1>2. Derived(admission, AdmissionBody)'
  <2>1. ASSUME NEW c \in Container, PlanAdmission(c) PROVE Derived(admission, AdmissionBody)'
    <3>1. worktree.body \in Planned /\ patch.body \in PatchBody
      BY <2>1 DEF PlanAdmission, Intact, SandboxInv, WorktreesDerived, SandboxDerived, Derived
    <3> QED BY <2>1, <3>1 DEF PlanAdmission, Bound, Derived, Doc, AdmissionBody
  <2>2. ASSUME NEW c \in Container, EditAdmission(c) PROVE Derived(admission, AdmissionBody)'
    <3>1. Derived(admission, AdmissionBody) BY DEF SandboxInv, SandboxDerived
    <3> QED BY <2>2, <3>1 DEF EditAdmission, Derived
  <2> QED BY <2>1, <2>2
<1>3. WorktreesDerived' BY <1>1, WorktreesStay DEF SandboxInv
<1>4. SandboxDerived' BY <1>1, <1>2 DEF SandboxInv, SandboxDerived, Derived
<1> QED BY <1>1, <1>3, <1>4, NothingIssued DEF SandboxInv

\* Whatever is admitted has a patch that fits.
LEMMA AdmissionFits ==
  ASSUME NEW a \in AdmissionBody, issued' = [kind |-> "admission", of |-> a]
         \/ issued' = [kind |-> "orchestration", of |-> a]
  PROVE  RemoveIsBacked' /\ AdmittedPatchFits'
<1>1. a.patch \in PatchBody /\ a.patch.worktree = a.worktree BY DEF AdmissionBody
<1>2. Fits(a.worktree, a.patch.bundle) BY <1>1 DEF PatchBody
<1>3. issued'.of = a /\ issued'.kind # "remove" OBVIOUS
<1> QED BY <1>2, <1>3 DEF Fits, RemoveIsBacked, AdmittedPatchFits

LEMMA AdmitKeeps == SandboxInv /\ Admit => SandboxInv'
<1> SUFFICES ASSUME SandboxInv, Admit PROVE SandboxInv'
  OBVIOUS
<1>1. admission.body \in AdmissionBody
  BY DEF Admit, Intact, SandboxInv, SandboxDerived, Derived
<1>2. /\ granted' = granted \cup {admission.body}
      /\ issued' = [kind |-> "admission", of |-> admission.body]
      /\ UNCHANGED worktreeVars /\ UNCHANGED <<patch, admission, orchestration, result>>
  BY DEF Admit
<1>3. WorktreesDerived' BY <1>2, WorktreesStay DEF SandboxInv
<1>4. SandboxDerived' BY <1>1, <1>2 DEF SandboxInv, SandboxDerived, Derived
<1>5. RemoveIsBacked' /\ AdmittedPatchFits' BY <1>1, <1>2, AdmissionFits
<1>6. SuccessWasAdmitted' BY <1>2 DEF SuccessWasAdmitted
<1> QED BY <1>3, <1>4, <1>5, <1>6 DEF SandboxInv, IssuedFits

\* A receipt that the caller wrote names a hash that some plan was made with.
LEMMA ReceiptKeeps == SandboxInv /\ HandReceipt => SandboxInv'
<1> SUFFICES ASSUME SandboxInv, HandReceipt PROVE SandboxInv'
  OBVIOUS
<1>1. admission.hash \in AdmissionBody
  BY DEF HandReceipt, SandboxInv, SandboxDerived, Derived
<1>2. /\ granted' = granted \cup {admission.hash} /\ issued' = NoDoc
      /\ UNCHANGED worktreeVars /\ UNCHANGED <<patch, admission, orchestration, result>>
  BY DEF HandReceipt, Made
<1>3. WorktreesDerived' BY <1>2, WorktreesStay DEF SandboxInv
<1>4. SandboxDerived' BY <1>1, <1>2 DEF SandboxInv, SandboxDerived, Derived
<1> QED BY <1>2, <1>3, <1>4, NothingIssued DEF SandboxInv

\* Results come from the runner or from the caller.
LEMMA ResultKeeps ==
  ASSUME SandboxInv,
         \/ \E c \in Container, o \in Observation : RunContainer(c, o)
         \/ \E c \in Container, status \in {RunStatus(o) : o \in Observation} :
              HandResult(c, status)
  PROVE  SandboxInv'
<1>1. /\ UNCHANGED worktreeVars /\ issued' = NoDoc
      /\ UNCHANGED <<patch, admission, granted, orchestration>>
  BY DEF RunContainer, HandResult, Made
<1>2. result'.status = "succeeded" => result'.ran \in {"cleanly", "not seen"}
  <2>1. ASSUME NEW c \in Container, NEW o \in Observation, RunContainer(c, o),
               result'.status = "succeeded"
        PROVE  result'.ran = "cleanly"
    BY <2>1, SuccessIsClean DEF RunContainer
  <2>2. ASSUME NEW c \in Container, NEW status, HandResult(c, status)
        PROVE  result'.ran = "not seen"
    BY <2>2 DEF HandResult
  <2> QED BY <2>1, <2>2
<1>3. WorktreesDerived' BY <1>1, WorktreesStay DEF SandboxInv
<1>4. SandboxDerived' BY <1>1, <1>2 DEF SandboxInv, SandboxDerived, Derived
<1> QED BY <1>1, <1>3, <1>4, NothingIssued DEF SandboxInv

\* An orchestration plan is made of an admission plan that a receipt names, and edited.
LEMMA OrchestrationKeeps ==
  ASSUME SandboxInv, PlanOrchestration \/ \E c \in Container : EditOrchestration(c)
  PROVE  SandboxInv'
<1>1. UNCHANGED worktreeVars /\ issued' = NoDoc /\ UNCHANGED <<patch, admission, granted, result>>
  BY DEF PlanOrchestration, EditOrchestration, Made, Edited
<1>2. Derived(orchestration, granted)'
  <2>1. CASE PlanOrchestration BY <1>1, <2>1 DEF PlanOrchestration, Derived, Doc
  <2>2. ASSUME NEW c \in Container, EditOrchestration(c) PROVE Derived(orchestration, granted)'
    <3>1. Derived(orchestration, granted) BY DEF SandboxInv, SandboxDerived
    <3>2. granted' = granted BY <1>1
    <3> QED BY <2>2, <3>1, <3>2 DEF EditOrchestration, Derived
  <2> QED BY <2>1, <2>2
<1>3. WorktreesDerived' BY <1>1, WorktreesStay DEF SandboxInv
<1>4. SandboxDerived' BY <1>1, <1>2 DEF SandboxInv, SandboxDerived, Derived
<1> QED BY <1>1, <1>3, <1>4, NothingIssued DEF SandboxInv

LEMMA CompleteKeeps == SandboxInv /\ CompleteOrchestration => SandboxInv'
<1> SUFFICES ASSUME SandboxInv, CompleteOrchestration PROVE SandboxInv'
  OBVIOUS
<1>1. orchestration.body \in granted /\ orchestration.body \in AdmissionBody
  BY DEF CompleteOrchestration, Certifiable, Intact, SandboxInv, SandboxDerived, Derived
<1>2. /\ issued' = [kind |-> "orchestration", of |-> orchestration.body]
      /\ UNCHANGED worktreeVars
      /\ UNCHANGED <<patch, admission, granted, orchestration, result>>
  BY DEF CompleteOrchestration, sandboxVars
<1>3. /\ result.container = orchestration.body.container
      /\ result.ran \in {"cleanly", "not seen"}
  BY DEF CompleteOrchestration, Certifiable, SandboxInv, SandboxDerived
<1>4. WorktreesDerived' BY <1>2, WorktreesStay DEF SandboxInv
<1>5. SandboxDerived' BY <1>2 DEF SandboxInv, SandboxDerived, Derived
<1>6. RemoveIsBacked' /\ AdmittedPatchFits' BY <1>1, <1>2, AdmissionFits
<1>7. SuccessWasAdmitted' BY <1>1, <1>2, <1>3 DEF SuccessWasAdmitted
<1> QED BY <1>4, <1>5, <1>6, <1>7 DEF SandboxInv, IssuedFits

-----------------------------------------------------------------------------
LEMMA SandboxStep == SandboxInv /\ [Next]_vars => SandboxInv'
<1> SUFFICES ASSUME SandboxInv, [Next]_vars PROVE SandboxInv'
  OBVIOUS
<1>1. CASE UNCHANGED vars
  BY <1>1 DEF vars, worktreeVars, sandboxVars, SandboxInv, WorktreesDerived, SandboxDerived,
              Derived, IssuedFits, RemoveIsBacked, AdmittedPatchFits, SuccessWasAdmitted
<1>2. CASE WorktreeNext /\ UNCHANGED sandboxVars BY <1>2, WorktreeKeeps
<1>3. CASE AdmissionNext
  BY <1>3, PatchKeeps, AdmissionKeeps, AdmitKeeps, ReceiptKeeps DEF AdmissionNext
<1>4. CASE RunNext
  BY <1>4, OrchestrationKeeps, CompleteKeeps, ResultKeeps DEF RunNext
<1> QED BY <1>1, <1>2, <1>3, <1>4 DEF Next

(***************************************************************************)
(* The inductive invariant.  A document may be edited at any time, but its  *)
(* hash is always of contents that a call derived and checked; a call that  *)
(* takes only documents whose contents still have their hash therefore      *)
(* deals with checked contents.                                             *)
(***************************************************************************)
THEOREM SandboxInvariant == Spec => []SandboxInv
<1> QED BY SandboxInitial, SandboxStep, PTL DEF Spec

(***************************************************************************)
(* plan_cleanup and plan_recovery (worktree.py:635-657) plan a removal only *)
(* of a worktree whose creation has a receipt, seen as it was created.      *)
(***************************************************************************)
THEOREM EveryRemovalIsBacked == Spec => []RemoveIsBacked
<1>1. SandboxInv => RemoveIsBacked BY DEF SandboxInv, IssuedFits
<1> QED BY <1>1, SandboxInvariant, PTL

(***************************************************************************)
(* admit_sandbox (admission.py:197) admits only a patch within the scopes,  *)
(* the file limit and the base commit of the request of its own worktree.   *)
(***************************************************************************)
THEOREM EveryAdmittedPatchFits == Spec => []AdmittedPatchFits
<1>1. SandboxInv => AdmittedPatchFits BY DEF SandboxInv, IssuedFits
<1> QED BY <1>1, SandboxInvariant, PTL

(***************************************************************************)
(* complete_sandbox_orchestration (orchestration.py:213) certifies only     *)
(* plans that a receipt names in the contents they have, with a result of   *)
(* their container, however they were edited since; a result that the       *)
(* runner made was a clean run, one that the caller wrote is believed.      *)
(***************************************************************************)
THEOREM EverySuccessWasAdmitted == Spec => []SuccessWasAdmitted
<1>1. SandboxInv => SuccessWasAdmitted BY DEF SandboxInv, IssuedFits
<1> QED BY <1>1, SandboxInvariant, PTL
=============================================================================
