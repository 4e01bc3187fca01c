----------------------------- MODULE MCSandboxRuns -----------------------------
(* Values of the constants for TLC: two requests for one worktree path that  *)
(* differ in what they may touch, one whose scope crosses a symlink and one  *)
(* with nested scopes; the snapshot of the base, and one that was not        *)
(* completed; three patches, one of them of a binary file, and a run of each *)
(* outcome.                                                                  *)
EXTENDS SandboxRuns, TLC

Repo == <<"srv", "repo">>
Worktrees == <<"srv", "wt">>
Src == <<"src">>
Docs == <<"docs">>
SrcMore == <<"src-more">>
MainFile == <<"src", "main">>
UtilFile == <<"src", "util">>
Guide == <<"docs", "guide">>
Link == <<"vendor">>

Ask(id, path, scopes, most) ==
  [id |-> id, repo |-> "target", source |-> Repo, path |-> path, base |-> "base",
   scopes |-> scopes, maxFiles |-> most]

\* Its second scope is nested in the first, and the third comes between them as text.
Narrow == Ask("r1", <<"srv", "wt", "a">>, {Src, MainFile, SrcMore}, 2)
Wide == Ask("r2", <<"srv", "wt", "a">>, {Src, Docs}, 3)
Crossing == Ask("r3", <<"srv", "wt", "b">>, {Src, <<"vendor", "lib">>}, 3)
Nested == Ask("r4", <<"srv", "wt", "b">>, {Src, MainFile}, 3)
MCRequest == {Narrow, Wide, Crossing, Nested}

AsText == <<Docs, Src, SrcMore, MainFile, <<"vendor", "lib">>>>
MCBefore(p, q) == \E i, j \in DOMAIN AsText : i < j /\ AsText[i] = p /\ AsText[j] = q

Snap(complete, tracked) ==
  [repo |-> "target", source |-> Repo, base |-> "base", complete |-> complete,
   entries |-> [p \in tracked |-> IF p = Link THEN "symlink" ELSE "file"]]
Full == Snap(TRUE, {MainFile, Guide, Link})
Partial == Snap(FALSE, {MainFile})
MCSnapshot == {Full, Partial}
MCRepositories == {[repo |-> "target", source |-> Repo]}

File(kind, path, old, new) ==
  [kind |-> kind, binary |-> FALSE, path |-> path, old |-> old, new |-> new, size |-> 1]
Edit == [base |-> "base", fuzzy |-> FALSE, files |-> {File("modify", MainFile, "none", "none")}]
Move == [base |-> "base", fuzzy |-> FALSE,
         files |-> {File("rename", MainFile, MainFile, UtilFile),
                    File("modify", Guide, "none", "none")}]
Blob == [Edit EXCEPT !.files = {[File("modify", MainFile, "none", "none") EXCEPT !.binary = TRUE]}]
MCBundle == {Edit, Move, Blob}
MCLimits == [maxFiles |-> 4, maxFileBytes |-> 1, maxBytes |-> 2, binary |-> FALSE,
             renames |-> TRUE, deletes |-> FALSE, fuzzy |-> FALSE]

AllWell == [answered |-> TRUE, policy |-> TRUE, memory |-> "kept", time |-> TRUE, zero |-> TRUE]
MCObservation ==
  {AllWell, [AllWell EXCEPT !.memory = "unreported"], [AllWell EXCEPT !.answered = FALSE],
   [AllWell EXCEPT !.memory = "exceeded"], [AllWell EXCEPT !.time = FALSE],
   [AllWell EXCEPT !.zero = FALSE]}

Containers == Permutations(Container)

\* What is known of the worktree on disk and what is made of its plan in the sandbox do not
\* read each other, so they are not combined.  Up to two admissions have a receipt, two when
\* the patch was not retried.
Apart ==
  /\ \/ disk = NoDoc /\ receipts = {} /\ sighting = NoDoc
     \/ patch = NoDoc /\ result = NoDoc
  /\ result # NoDoc => orchestration # NoDoc
  /\ Cardinality(granted) <= 2
  /\ Cardinality(granted) = 2 => patch.body.retry = 0

\* An orchestration plan reads the admission when it is made and a result is read with one
\* only, so that the calls before it are made without them.
MCNext ==
  \/ orchestration = NoDoc /\ ((WorktreeNext /\ UNCHANGED sandboxVars) \/ AdmissionNext)
  \/ RunNext

MCSpec == Init /\ [][MCNext]_vars
=============================================================================
