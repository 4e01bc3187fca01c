----------------------------- MODULE WorktreeRules -----------------------------
(***************************************************************************)
(* When a candidate worktree may be planned (src/sandbox/worktree.py and    *)
(* worktree_contracts.py).  A path is a sequence of names.                  *)
(***************************************************************************)
EXTENDS Documents, Integers, Sequences, FiniteSets

CONSTANTS
  Request,       \* [id, repo, source, path, base, scopes, maxFiles]
  Snapshot,      \* [repo, source, base, complete, entries: path -> kind]
  Repositories,  \* WorktreePolicy.repository_allowlist: [repo, source]
  Root,          \* WorktreePolicy.worktree_root
  Before(_, _)   \* the order of paths as text

-----------------------------------------------------------------------------
Under(path, scope) == Len(scope) <= Len(path) /\ SubSeq(path, 1, Len(scope)) = scope

Boundary == {"symlink", "submodule"}

KindOf(snap, path) == IF path \in DOMAIN snap.entries THEN snap.entries[path] ELSE "untracked"

\* RepositorySnapshot's own validator: nothing is tracked below a boundary.
ValidSnapshot(snap) ==
  snap.complete =>
    \A b, p \in DOMAIN snap.entries : snap.entries[b] \in Boundary /\ Under(p, b) => p = b

\* Nested scopes are looked for among neighbours of the sorted list: src/a below src is
\* overlooked when src-b, which comes between them, is a scope too.
Neighbours(p, q, scopes) == ~\E r \in scopes : Before(p, r) /\ Before(r, q)

\* _validate_scope
ValidScope(req, snap) ==
  /\ ValidSnapshot(snap) /\ snap.complete
  /\ snap.repo = req.repo /\ snap.source = req.source /\ snap.base = req.base
  /\ [repo |-> req.repo, source |-> req.source] \in Repositories
  /\ Under(req.path, Root) /\ req.path # Root
  /\ ~Under(req.path, req.source) /\ ~Under(req.source, req.path)
  /\ \A p \in req.scopes : Head(p) \notin {".git", ".gitmodules"}
  /\ \A p, q \in req.scopes : p # q /\ Neighbours(p, q, req.scopes) => ~Under(q, p)
  /\ \A b \in DOMAIN snap.entries, p \in req.scopes :
       snap.entries[b] \in Boundary => ~Under(b, p) /\ ~Under(p, b)
  /\ Cardinality({f \in DOMAIN snap.entries :
                    snap.entries[f] = "file" /\ \E p \in req.scopes : Under(f, p)}) <= req.maxFiles

\* The create plan of plan_worktree.
WorktreeBody(req, snap) == [request |-> req, snapshot |-> snap]
=============================================================================
