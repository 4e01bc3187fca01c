----------------------------- MODULE WorktreePlans -----------------------------
(***************************************************************************)
(* The candidate worktree planner (src/sandbox/worktree.py and              *)
(* worktree_contracts.py): a create plan from a request and a repository    *)
(* snapshot, and from a creation receipt and a fresh sighting of the        *)
(* worktree a plan to remove it, or an inspect-only recovery without them.  *)
(* The planner runs no git: the executor that creates and removes, the      *)
(* observer and whoever works in the worktree are external.                 *)
(***************************************************************************)
EXTENDS WorktreeRules

CONSTANT MaxEdits  \* bound: how often a holder changes a document after it was hashed

VARIABLES
  worktree,  \* the create plan in hand
  disk,      \* the worktree at the destination: [plan, head], or NoDoc
  receipts,  \* the plans whose creation receipt was delivered
  sighting,  \* the last porcelain attestation: [receipt, head], or NoDoc
  issued,    \* what the last call returned, when it removes, admits or certifies something
  edits      \* how often a document was changed

worktreeVars == <<worktree, disk, receipts, sighting>>

\* plan_worktree: the destination is attested absent when the plan is made.
PlanWorktree(req, snap) ==
  /\ ValidScope(req, snap) /\ disk = NoDoc
  /\ worktree' = Doc(WorktreeBody(req, snap))
  /\ issued' = NoDoc
  /\ UNCHANGED <<disk, receipts, sighting, edits>>

\* The holder assigns another request to the plan object.
EditWorktree(req) ==
  /\ worktree # NoDoc /\ worktree.body.request # req
  /\ edits < MaxEdits /\ edits' = edits + 1
  /\ worktree' = [worktree EXCEPT !.body.request = req]
  /\ issued' = NoDoc
  /\ UNCHANGED <<disk, receipts, sighting>>

-----------------------------------------------------------------------------
(***************************************************************************)
(* The outside world.                                                       *)
(***************************************************************************)
\* git worktree add: it fails if something is there.  A crash may lose the receipt.
Create(delivered) ==
  /\ Intact(worktree) /\ disk = NoDoc
  /\ disk' = [plan |-> worktree.body, head |-> worktree.body.request.base]
  /\ receipts' = IF delivered THEN receipts \cup {worktree.body} ELSE receipts
  /\ issued' = NoDoc
  /\ UNCHANGED <<worktree, sighting, edits>>

CommitInWorktree ==
  /\ disk # NoDoc /\ disk.head # "moved"
  /\ disk' = [disk EXCEPT !.head = "moved"]
  /\ issued' = NoDoc
  /\ UNCHANGED <<worktree, receipts, sighting, edits>>

\* An observer sees what is at the path and names the receipt it was given for it.
Observe(p) ==
  /\ disk # NoDoc /\ p \in receipts /\ p.request.path = disk.plan.request.path
  /\ sighting' = [receipt |-> p, head |-> disk.head]
  /\ issued' = NoDoc
  /\ UNCHANGED <<worktree, disk, receipts, edits>>

\* The executor of a removal looks at the head once more, as the precondition tells it to.
Remove ==
  /\ issued # NoDoc /\ issued.kind = "remove" /\ disk # NoDoc
  /\ disk.head = issued.of.request.base
  /\ disk' = NoDoc
  /\ issued' = NoDoc
  /\ UNCHANGED <<worktree, receipts, sighting, edits>>

-----------------------------------------------------------------------------
(***************************************************************************)
(* plan_cleanup and plan_recovery.                                          *)
(***************************************************************************)
\* Mistaken: does not compare the head that was seen with the receipt's.
NamesReceipt(plan, p, seen) == p = plan /\ seen # NoDoc /\ seen.receipt = p

\* _validate_receipt_observation_for_plan and _validate_action_evidence: the
\* receipt is of this plan, at its base, and the sighting agrees with it throughout.
EvidenceAgrees(plan, p, seen) ==
  /\ p = plan /\ seen # NoDoc
  /\ seen.receipt = p /\ seen.head = p.request.base

\* The same plan whether it is called a cleanup or a recovery.
PlanRemoval(p) ==
  /\ Intact(worktree) /\ p \in receipts
  /\ EvidenceAgrees(worktree.body, p, sighting)
  /\ issued' = [kind |-> "remove", of |-> worktree.body]
  /\ UNCHANGED <<worktreeVars, edits>>

\* Without a receipt or a sighting a recovery may only inspect.
PlanInspection ==
  /\ Intact(worktree)
  /\ issued' = [kind |-> "inspect", of |-> worktree.body]
  /\ UNCHANGED <<worktreeVars, edits>>

WorktreeInit ==
  worktree = NoDoc /\ disk = NoDoc /\ receipts = {} /\ sighting = NoDoc /\ issued = NoDoc /\ edits = 0

WorktreeNext ==
  \/ \E req \in Request, snap \in Snapshot : PlanWorktree(req, snap)
  \/ \E req \in Request : EditWorktree(req)
  \/ \E delivered \in BOOLEAN : Create(delivered)
  \/ \E p \in receipts : Observe(p) \/ PlanRemoval(p)
  \/ CommitInWorktree \/ Remove \/ PlanInspection

-----------------------------------------------------------------------------
(***************************************************************************)
(* Nothing is planned for removal on the word of its plan alone: there is a *)
(* receipt that this very plan was carried out, and the worktree was last   *)
(* seen at the commit it was created on, without work of anybody in it.  A  *)
(* plan whose receipt was lost in a crash, a plan that was edited, and a    *)
(* receipt of another request for the same path do not do.                  *)
(***************************************************************************)
RemoveIsBacked ==
  issued # NoDoc /\ issued.kind = "remove" =>
    /\ issued.of \in receipts
    /\ sighting = [receipt |-> issued.of, head |-> issued.of.request.base]
    /\ \E snap \in Snapshot : ValidScope(issued.of.request, snap)
=============================================================================
