-------------------------- MODULE TargetPublication --------------------------
(***************************************************************************)
(* TargetPublisher (src/target_publication.py): publishers that put an      *)
(* accepted commit on the branch of its task, open or reuse a pull request  *)
(* and poll its required checks.  Every git or gh command is a step of its  *)
(* own, and between two of them anybody may act: another publisher, the     *)
(* checks, a maintainer, or the user of the target worktree.                *)
(*                                                                         *)
(* All requests are for one task of one repository, so they share the head  *)
(* branch; two requests may carry two commits.  The remote and the target   *)
(* worktree are external: GitHub keeps at most one open pull request from a *)
(* branch, whose head is the branch's commit and which closes with it.      *)
(***************************************************************************)
EXTENDS Naturals, Sequences

CONSTANTS
  Publisher,
  Commit, NoCommit,
  CommitOf,    \* per publisher: the accepted commit of its request
  Ambiguous,   \* the commits for which two required checks share a name
  MaxPolls,    \* request.max_poll_attempts
  MaxPulls,    \* bound: pull requests ever opened
  MaxTrouble   \* bound: crashes, transport failures and acts of maintainers

ASSUME PublicationAssumption ==
  /\ CommitOf \in [Publisher -> Commit]
  /\ NoCommit \notin Commit
  /\ Ambiguous \subseteq Commit
  /\ MaxPolls \in Nat \ {0}
  /\ MaxTrouble \in Nat /\ MaxPulls \in Nat \ (0 .. MaxTrouble)

VARIABLES
  branch,   \* the commit of the head branch on the remote
  pulls,    \* by number: is it open, its head, was it ever pushed to by others
  checks,   \* per commit: the required checks together
  green,    \* history: the commits whose required checks have all succeeded
  target,   \* the target worktree: its HEAD, and whether it is clean
  pc,       \* per publisher: the next command of its call
  pull,     \* per publisher: the number of its pull request, or 0
  polls,    \* per publisher: polls made
  out,      \* per publisher: the receipt it is about to record
  ledger,   \* the target_publications table
  ended,    \* history: publishers of which a call came to its end
  trouble

remoteVars == <<branch, pulls>>
ciVars == <<checks, green>>
callVars == <<pc, pull, polls, out, ledger, ended>>
vars == <<branch, pulls, checks, green, target, pc, pull, polls, out, ledger, ended, trouble>>

Why == {"", "target", "branch", "pull", "checks", "bound", "transport"}

Receipt == [commit : Commit, status : {"succeeded", "rejected", "pending"},
            pull : Nat, why : Why]

CheckState == {"none", "pending", "success", "failure"}

GitStep == {"status", "head"}
GhStep == {"query_ref", "create_ref", "list", "create_pull", "relist", "validate", "poll"}

NoReceipt(p) == [commit |-> CommitOf[p], status |-> "rejected", pull |-> 0, why |-> ""]

Init ==
  /\ branch = NoCommit
  /\ pulls = <<>>
  /\ checks = [c \in Commit |-> "none"]
  /\ green = {}
  /\ target \in [head : Commit, clean : {TRUE}]
  /\ pc = [p \in Publisher |-> "idle"]
  /\ pull = [p \in Publisher |-> 0]
  /\ polls = [p \in Publisher |-> 0]
  /\ out = [p \in Publisher |-> NoReceipt(p)]
  /\ ledger = {}
  /\ ended = {}
  /\ trouble = 0

-----------------------------------------------------------------------------
(***************************************************************************)
(* The control of a call.                                                   *)
(***************************************************************************)
\* publish may be called again whatever an earlier call has come to.
Start(p) ==
  /\ pc[p] = "idle"
  /\ pc' = [pc EXCEPT ![p] = "status"]
  /\ UNCHANGED <<remoteVars, ciVars, target, pull, polls, out, ledger, ended, trouble>>

Goto(p, step) ==
  /\ pc' = [pc EXCEPT ![p] = step]
  /\ UNCHANGED <<polls, out, ledger, ended>>

Answer(p, status, number, why) ==
  /\ pc' = [pc EXCEPT ![p] = "record"]
  /\ out' = [out EXCEPT ![p] = [commit |-> CommitOf[p], status |-> status,
                                pull |-> number, why |-> why]]
  /\ UNCHANGED <<pull, polls, ledger, ended>>

\* TargetPublicationError before the checks are polled: nothing of the pull request is kept.
Reject(p, why) == Answer(p, "rejected", 0, why)

Forget(p) ==
  /\ pc' = [pc EXCEPT ![p] = "idle"]
  /\ pull' = [pull EXCEPT ![p] = 0]
  /\ polls' = [polls EXCEPT ![p] = 0]
  /\ out' = [out EXCEPT ![p] = NoReceipt(p)]

\* An exception that publish does not catch: no receipt is made.
Raise(p) == Forget(p) /\ ended' = ended \cup {p} /\ UNCHANGED ledger

Record(p) ==
  /\ pc[p] = "record"
  /\ ledger' = ledger \cup {out[p]}
  /\ ended' = ended \cup {p}
  /\ Forget(p)
  /\ UNCHANGED <<remoteVars, ciVars, target, trouble>>

-----------------------------------------------------------------------------
(***************************************************************************)
(* _prove_target                                                            *)
(***************************************************************************)
ProveClean(p) ==
  /\ pc[p] = "status"
  /\ IF target.clean THEN Goto(p, "head") /\ UNCHANGED pull ELSE Reject(p, "target")
  /\ UNCHANGED <<remoteVars, ciVars, target, trouble>>

ProveHead(p) ==
  /\ pc[p] = "head"
  /\ IF target.head = CommitOf[p] THEN Goto(p, "query_ref") /\ UNCHANGED pull
     ELSE Reject(p, "target")
  /\ UNCHANGED <<remoteVars, ciVars, target, trouble>>

(***************************************************************************)
(* _ensure_head_ref                                                         *)
(***************************************************************************)
\* Mistaken: a branch that exists is a branch of somebody else.
QueryRefNew(p) ==
  /\ pc[p] = "query_ref"
  /\ IF branch = NoCommit THEN Goto(p, "create_ref") /\ UNCHANGED pull ELSE Reject(p, "branch")
  /\ UNCHANGED <<remoteVars, ciVars, target, trouble>>

QueryRef(p) ==
  /\ pc[p] = "query_ref"
  /\ \/ branch = NoCommit /\ Goto(p, "create_ref") /\ UNCHANGED pull
     \/ branch = CommitOf[p] /\ Goto(p, "list") /\ UNCHANGED pull
     \/ branch \notin {NoCommit, CommitOf[p]} /\ Reject(p, "branch")
  /\ UNCHANGED <<remoteVars, ciVars, target, trouble>>

\* GitHub refuses to create a branch that exists, at whatever commit, and
\* the publisher does not look again.
CreateRef(p) ==
  /\ pc[p] = "create_ref"
  /\ \/ branch = NoCommit /\ branch' = CommitOf[p] /\ Goto(p, "list") /\ UNCHANGED pull
     \/ branch # NoCommit /\ Reject(p, "branch") /\ UNCHANGED branch
  /\ UNCHANGED <<pulls, ciVars, target, trouble>>

(***************************************************************************)
(* _find_or_create_pull_request                                             *)
(***************************************************************************)
Open == {n \in 1 .. Len(pulls) : pulls[n].open}

Use(p, n) == pull' = [pull EXCEPT ![p] = n] /\ Goto(p, "validate")

ListPulls(p) ==
  /\ pc[p] = "list"
  /\ \/ Open = {} /\ Goto(p, "create_pull") /\ UNCHANGED pull
     \/ \E n \in Open : IF pulls[n].head = CommitOf[p] THEN Use(p, n) ELSE Reject(p, "pull")
  /\ UNCHANGED <<remoteVars, ciVars, target, trouble>>

PullCreated ==
  /\ branch # NoCommit /\ Open = {} /\ Len(pulls) < MaxPulls
  /\ pulls' = Append(pulls, [open |-> TRUE, head |-> branch, moved |-> FALSE])

PullRefused == (branch = NoCommit \/ Open # {}) /\ UNCHANGED pulls

\* Mistaken: gives up when the pull request cannot be created.
CreatePullOnce(p) ==
  /\ pc[p] = "create_pull"
  /\ \/ PullCreated /\ Use(p, Len(pulls'))
     \/ PullRefused /\ Reject(p, "pull")
  /\ UNCHANGED <<branch, ciVars, target, trouble>>

CreatePull(p) ==
  /\ pc[p] = "create_pull"
  /\ \/ PullCreated /\ Use(p, Len(pulls'))
     \/ PullRefused /\ Goto(p, "relist") /\ UNCHANGED pull
  /\ UNCHANGED <<branch, ciVars, target, trouble>>

\* "A concurrent identical publisher may have created the PR after the list query."
RelistPulls(p) ==
  /\ pc[p] = "relist"
  /\ \/ Open = {} /\ Reject(p, "pull")
     \/ \E n \in Open : IF pulls[n].head = CommitOf[p] THEN Use(p, n) ELSE Reject(p, "pull")
  /\ UNCHANGED <<remoteVars, ciVars, target, trouble>>

ValidatePull(p) ==
  /\ pc[p] = "validate"
  /\ IF pulls[pull[p]].open /\ pulls[pull[p]].head = CommitOf[p]
     THEN Goto(p, "poll") /\ UNCHANGED pull ELSE Reject(p, "pull")
  /\ UNCHANGED <<remoteVars, ciVars, target, trouble>>

(***************************************************************************)
(* _poll_required_checks: asks for the checks of the pull request, not of   *)
(* the commit; a state other than these is rejected like a failure.  A      *)
(* receipt cannot hold two checks of one name, so rejecting a set of checks *)
(* that does raises instead.                                                *)
(***************************************************************************)
Observed(p) == checks[pulls[pull[p]].head]

\* Mistaken: no check that has not succeeded is taken for all checks succeeded.
PollChecksEmpty(p) ==
  /\ pc[p] = "poll"
  /\ \/ Observed(p) \in {"none", "success"} /\ Answer(p, "succeeded", pull[p], "")
     \/ Observed(p) = "failure" /\ Answer(p, "rejected", pull[p], "checks")
     \/ Observed(p) = "pending" /\ Answer(p, "pending", pull[p], "bound")
  /\ UNCHANGED <<remoteVars, ciVars, target, trouble>>

\* Mistaken: polls once more than it may.
PollChecksLonger(p) ==
  /\ pc[p] = "poll"
  /\ \/ Observed(p) = "success" /\ Answer(p, "succeeded", pull[p], "")
     \/ Observed(p) \in {"none", "failure"} /\ Answer(p, "rejected", pull[p], "checks")
     \/ /\ Observed(p) = "pending"
        /\ IF polls[p] < MaxPolls
           THEN polls' = [polls EXCEPT ![p] = @ + 1] /\ UNCHANGED <<pc, pull, out, ledger, ended>>
           ELSE Answer(p, "pending", pull[p], "bound")
  /\ UNCHANGED <<remoteVars, ciVars, target, trouble>>

PollChecks(p) ==
  /\ pc[p] = "poll"
  /\ LET named == pulls[pull[p]].head \notin Ambiguous \/ Observed(p) = "none"
     IN  \/ ~named /\ Raise(p)
         \/ Observed(p) = "none" /\ Answer(p, "rejected", pull[p], "checks")
         \/ named /\ Observed(p) = "success" /\ Answer(p, "succeeded", pull[p], "")
         \/ named /\ Observed(p) = "failure" /\ Answer(p, "rejected", pull[p], "checks")
         \/ /\ named /\ Observed(p) = "pending"
            /\ IF polls[p] + 1 < MaxPolls
               THEN /\ polls' = [polls EXCEPT ![p] = @ + 1]
                    /\ UNCHANGED <<pc, pull, out, ledger, ended>>
               ELSE Answer(p, "pending", pull[p], "bound")
  /\ UNCHANGED <<remoteVars, ciVars, target, trouble>>

Step(p) ==
  \/ ProveClean(p) \/ ProveHead(p) \/ QueryRef(p) \/ CreateRef(p)
  \/ ListPulls(p) \/ CreatePull(p) \/ RelistPulls(p) \/ ValidatePull(p)
  \/ PollChecks(p) \/ Record(p)

-----------------------------------------------------------------------------
(***************************************************************************)
(* Everybody else.                                                          *)
(***************************************************************************)
Troubled == trouble < MaxTrouble /\ trouble' = trouble + 1

Crash(p) ==
  /\ pc[p] # "idle" /\ Troubled /\ Forget(p)
  /\ UNCHANGED <<remoteVars, ciVars, target, ledger, ended>>

\* A command fails or runs into its timeout, before or after its effect; the
\* creation of a pull request that fails is looked into, one that times out is not.
TransportFails(p) ==
  /\ pc[p] \in GitStep \cup GhStep /\ Troubled
  /\ \/ Reject(p, "transport") /\ UNCHANGED remoteVars
     \/ /\ pc[p] = "create_ref" /\ branch = NoCommit
        /\ branch' = CommitOf[p] /\ Reject(p, "transport") /\ UNCHANGED pulls
     \/ /\ pc[p] = "create_pull"
        /\ PullCreated \/ UNCHANGED pulls
        /\ Reject(p, "transport") \/ (Goto(p, "relist") /\ UNCHANGED pull)
        /\ UNCHANGED branch
  /\ UNCHANGED <<ciVars, target>>

\* A maintainer pushes to the branch, deletes it (c = NoCommit) or closes a pull request.
Push(c) ==
  /\ branch \notin {NoCommit, c} /\ Troubled
  /\ branch' = c
  /\ pulls' = [n \in 1 .. Len(pulls) |->
       IF ~pulls[n].open THEN pulls[n]
       ELSE IF c = NoCommit THEN [pulls[n] EXCEPT !.open = FALSE]
       ELSE [pulls[n] EXCEPT !.head = c, !.moved = TRUE]]
  /\ UNCHANGED <<ciVars, target, callVars>>

Close(n) ==
  /\ pulls[n].open /\ Troubled
  /\ pulls' = [pulls EXCEPT ![n].open = FALSE]
  /\ UNCHANGED <<branch, ciVars, target, callVars>>

ChecksStart(c) ==
  /\ checks[c] = "none" /\ branch = c
  /\ checks' = [checks EXCEPT ![c] = "pending"]
  /\ UNCHANGED <<remoteVars, green, target, callVars, trouble>>

ChecksPass(c) ==
  /\ checks[c] = "pending"
  /\ checks' = [checks EXCEPT ![c] = "success"]
  /\ green' = green \cup {c}
  /\ UNCHANGED <<remoteVars, target, callVars, trouble>>

ChecksFail(c) ==
  /\ checks[c] = "pending" /\ Troubled
  /\ checks' = [checks EXCEPT ![c] = "failure"]
  /\ UNCHANGED <<remoteVars, green, target, callVars>>

ChecksRerun(c) ==
  /\ checks[c] \in {"success", "failure"}
  /\ checks[c] = "success" => Troubled
  /\ checks[c] = "failure" => UNCHANGED trouble
  /\ checks' = [checks EXCEPT ![c] = "pending"]
  /\ UNCHANGED <<remoteVars, green, target, callVars>>

Edit ==
  /\ target' \in [head : Commit, clean : BOOLEAN] \ {target} /\ Troubled
  /\ UNCHANGED <<remoteVars, ciVars, callVars>>

Next ==
  \/ \E p \in Publisher : Start(p) \/ Step(p) \/ Crash(p) \/ TransportFails(p)
  \/ \E c \in Commit : ChecksStart(c) \/ ChecksPass(c) \/ ChecksFail(c) \/ ChecksRerun(c)
  \/ \E c \in Commit \cup {NoCommit} : Push(c)
  \/ \E n \in 1 .. Len(pulls) : Close(n)
  \/ Edit

Spec == Init /\ [][Next]_vars

\* Commands have timeouts and polling is bounded, so calls go on; whoever
\* publishes calls again; checks start and end, and failed ones are run again.
FairSpec ==
  /\ Spec
  /\ \A p \in Publisher : WF_vars(Start(p)) /\ WF_vars(Step(p))
  /\ \A c \in Commit :
       WF_vars(ChecksStart(c)) /\ WF_vars(ChecksPass(c)) /\ WF_vars(ChecksRerun(c))

-----------------------------------------------------------------------------
\* Every variable has its type, and a publisher past its pull request has one.
PublicationTypeOK ==
  /\ branch \in Commit \cup {NoCommit}
  /\ pulls \in Seq([open : BOOLEAN, head : Commit, moved : BOOLEAN])
  /\ checks \in [Commit -> CheckState] /\ green \subseteq Commit
  /\ target \in [head : Commit, clean : BOOLEAN]
  /\ pc \in [Publisher -> {"idle", "record"} \cup GitStep \cup GhStep]
  /\ \A p \in Publisher :
       pull[p] \in IF pc[p] \in {"validate", "poll"} THEN 1 .. Len(pulls) ELSE 0 .. Len(pulls)
  /\ polls \in [Publisher -> 0 .. MaxPolls - 1]
  /\ out \in [Publisher -> Receipt] /\ ledger \subseteq Receipt
  /\ ended \subseteq Publisher
  /\ trouble \in 0 .. MaxTrouble

(***************************************************************************)
(* A publication on record as succeeded is of a commit whose required       *)
(* checks did succeed, unless a maintainer pushed to its pull request: the  *)
(* head is compared before the polling and never again.                     *)
(***************************************************************************)
SucceededWasChecked ==
  \A x \in ledger : x.status = "succeeded" =>
    x.commit \in green \/ pulls[x.pull].moved

(***************************************************************************)
(* Publishers that race for one pull request share it: none is rejected     *)
(* over the pull request while nobody else interferes.                      *)
(***************************************************************************)
PullRaceIsShared == trouble = 0 => \A x \in ledger : x.why # "pull"

(***************************************************************************)
(* Publishing again gets through: whatever crashes, lost answers, lost      *)
(* races and failed checks have left on the remote, if the branch and the   *)
(* target stay with the accepted commit, its publication succeeds.          *)
(***************************************************************************)
Published(c) == \E x \in ledger : x.commit = c /\ x.status = "succeeded"

InPlace(c) == branch \in {NoCommit, c} /\ target = [head |-> c, clean |-> TRUE]

RetryGetsThrough ==
  \A p \in Publisher :
    (CommitOf[p] \notin Ambiguous /\ <>[]InPlace(CommitOf[p])) => <>Published(CommitOf[p])

(***************************************************************************)
(* "A redacted, hash-bound record of one publication outcome": a call of    *)
(* publish that came to its end has left one in the ledger.                 *)
(***************************************************************************)
EveryOutcomeRecorded == \A p \in ended : \E x \in ledger : x.commit = CommitOf[p]
=============================================================================
