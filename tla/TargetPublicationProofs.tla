----------------------- MODULE TargetPublicationProofs -----------------------
(***************************************************************************)
(* Theorems about module TargetPublication: any number of publishers and    *)
(* commits, and any trouble at any moment.                                  *)
(***************************************************************************)
EXTENDS TargetPublication, TLAPS, SequenceTheorems

PullRequest == [open : BOOLEAN, head : Commit, moved : BOOLEAN]

PublisherStep == {"idle", "record"} \cup GitStep \cup GhStep

\* From here on a publisher has seen its commit on the branch.
OnBranch == {"list", "create_pull", "relist", "validate", "poll"}

RemoteTypeOK ==
  /\ branch \in Commit \cup {NoCommit}
  /\ pulls \in Seq(PullRequest)
  /\ checks \in [Commit -> CheckState] /\ green \subseteq Commit
  /\ target \in [head : Commit, clean : BOOLEAN]
  /\ trouble \in 0 .. MaxTrouble

CallsTypeOK ==
  /\ pc \in [Publisher -> PublisherStep]
  /\ pull \in [Publisher -> Nat]
  /\ polls \in [Publisher -> 0 .. MaxPolls - 1]
  /\ out \in [Publisher -> Receipt]

\* While nobody interferes every pull request is open and at the branch's commit.
Undisturbed == \A n \in 1 .. Len(pulls) : pulls[n].open /\ pulls[n].head = branch

RemoteInv ==
  /\ RemoteTypeOK
  /\ \A c \in Commit : checks[c] = "success" => c \in green
  /\ trouble = 0 => Undisturbed

\* What a receipt says is so, and nobody lost a race.
RowTrue(x) ==
  /\ x.status = "succeeded" =>
       /\ x.pull \in 1 .. Len(pulls)
       /\ x.commit \in green \/ pulls[x.pull].moved
  /\ trouble = 0 => x.why # "pull"

\* What a publisher at a step knows of its pull request and of the branch.
Knows(p) ==
  /\ pull[p] \in IF pc[p] \in {"validate", "poll"} THEN 1 .. Len(pulls) ELSE 0 .. Len(pulls)
  /\ pc[p] = "poll" => pulls[pull[p]].head = CommitOf[p] \/ pulls[pull[p]].moved
  /\ trouble = 0 =>
       /\ pc[p] \in OnBranch => branch = CommitOf[p]
       /\ pc[p] = "relist" => 1 \in 1 .. Len(pulls)

PubInv ==
  /\ RemoteInv /\ CallsTypeOK
  /\ \A p \in Publisher : Knows(p) /\ RowTrue(out[p])
  /\ ledger \subseteq Receipt /\ \A x \in ledger : RowTrue(x)
  /\ ended \subseteq Publisher

\* What others rely on: pull requests are only added, one whose head changes
\* was pushed to, checks that succeeded did; and trouble is not undone.
RemoteGoesOn ==
  /\ RemoteInv'
  /\ Len(pulls) <= Len(pulls')
  /\ \A n \in 1 .. Len(pulls) :
       (pulls'[n].head = pulls[n].head /\ pulls'[n].moved = pulls[n].moved) \/ pulls'[n].moved
  /\ green \subseteq green'
  /\ trouble' = 0 => trouble = 0 /\ branch \in {NoCommit, branch'}

-----------------------------------------------------------------------------
LEMMA PullCount ==
  ASSUME PubInv, RemoteGoesOn
  PROVE  Len(pulls) \in Nat /\ Len(pulls') \in Nat /\ Len(pulls) <= Len(pulls')
<1>1. pulls \in Seq(PullRequest) /\ pulls' \in Seq(PullRequest)
  BY DEF PubInv, RemoteGoesOn, RemoteInv, RemoteTypeOK
<1>2. QED
  BY <1>1, LenProperties DEF RemoteGoesOn

\* A receipt that was true stays true.
LEMMA RowsStayTrue ==
  ASSUME PubInv, RemoteGoesOn, NEW x, RowTrue(x)
  PROVE  RowTrue(x)'
BY PullCount DEF RowTrue, RemoteGoesOn

\* A publisher that does nothing keeps what it knows.
LEMMA OthersKeep ==
  ASSUME PubInv, RemoteGoesOn, NEW q \in Publisher,
         pc'[q] = pc[q], pull'[q] = pull[q], out'[q] = out[q]
  PROVE  Knows(q)' /\ RowTrue(out[q])'
<1>1. Len(pulls) \in Nat /\ Len(pulls') \in Nat /\ Len(pulls) <= Len(pulls')
  BY PullCount
<1>2. Knows(q) /\ CommitOf[q] # NoCommit
  BY PublicationAssumption DEF PubInv
<1>3. RowTrue(out[q])'
  <2>1. PICK x : x = out[q]
    OBVIOUS
  <2>2. RowTrue(x)'
    BY <2>1, RowsStayTrue DEF PubInv
  <2>3. QED
    BY <2>1, <2>2 DEF RowTrue
<1>4. pull'[q] \in IF pc'[q] \in {"validate", "poll"} THEN 1 .. Len(pulls') ELSE 0 .. Len(pulls')
  BY <1>1, <1>2 DEF Knows
<1>5. pc'[q] = "poll" => pulls'[pull'[q]].head = CommitOf[q] \/ pulls'[pull'[q]].moved
  BY <1>2 DEF Knows, RemoteGoesOn
<1>6. trouble' = 0 =>
        /\ pc'[q] \in OnBranch => branch' = CommitOf[q]
        /\ pc'[q] = "relist" => 1 \in 1 .. Len(pulls')
  BY <1>1, <1>2 DEF Knows, RemoteGoesOn
<1>7. QED
  BY <1>3, <1>4, <1>5, <1>6 DEF Knows

\* A step of p that keeps the invariant: each part of it that p can disturb.
Kept(p) ==
  /\ RemoteGoesOn /\ CallsTypeOK'
  /\ \A q \in Publisher : q # p => pc'[q] = pc[q] /\ pull'[q] = pull[q] /\ out'[q] = out[q]
  /\ Knows(p)' /\ RowTrue(out[p])'
  /\ \A x \in ledger' : x \in ledger \/ (x \in Receipt /\ RowTrue(x)')
  /\ ended' \subseteq Publisher

LEMMA KeptKeeps ==
  ASSUME PubInv, NEW p \in Publisher, Kept(p)
  PROVE  PubInv'
<1>1. \A q \in Publisher : Knows(q)' /\ RowTrue(out[q])'
  BY OthersKeep DEF Kept
<1>2. ledger' \subseteq Receipt /\ \A x \in ledger' : RowTrue(x)'
  BY RowsStayTrue DEF Kept, PubInv
<1>3. QED
  BY <1>1, <1>2 DEF PubInv, Kept, RemoteGoesOn

\* A step of somebody who is no publisher.
LEMMA RemoteKeeps ==
  ASSUME PubInv, RemoteGoesOn, UNCHANGED callVars
  PROVE  PubInv'
<1>1. \A q \in Publisher : Knows(q)' /\ RowTrue(out[q])'
  BY OthersKeep DEF callVars
<1>2. ledger' \subseteq Receipt /\ \A x \in ledger' : RowTrue(x)'
  BY RowsStayTrue DEF PubInv, callVars
<1>3. QED
  BY <1>1, <1>2 DEF PubInv, callVars, RemoteGoesOn, CallsTypeOK

-----------------------------------------------------------------------------
(***************************************************************************)
(* The remote after a step.                                                 *)
(***************************************************************************)
\* Trouble is made, or not.
Counted == trouble' \in {trouble, trouble + 1} /\ trouble' \in 0 .. MaxTrouble

LEMMA RemoteStays ==
  ASSUME PubInv, UNCHANGED <<remoteVars, ciVars, target>>, Counted
  PROVE  RemoteGoesOn
<1>1. Len(pulls) \in Nat /\ trouble \in Nat
  BY LenProperties DEF PubInv, RemoteInv, RemoteTypeOK
<1>2. RemoteInv'
  BY <1>1 DEF PubInv, RemoteInv, RemoteTypeOK, Undisturbed, Counted, remoteVars, ciVars
<1>3. QED
  BY <1>1, <1>2 DEF RemoteGoesOn, Counted, remoteVars, ciVars

LEMMA RefCreated ==
  ASSUME PubInv, NEW p \in Publisher, branch = NoCommit, branch' = CommitOf[p],
         UNCHANGED <<pulls, ciVars, target>>, Counted
  PROVE  RemoteGoesOn
<1>1. pulls \in Seq(PullRequest) /\ Len(pulls) \in Nat /\ trouble \in Nat
  BY LenProperties DEF PubInv, RemoteInv, RemoteTypeOK
<1>2. trouble = 0 => ~(\E n \in 1 .. Len(pulls) : TRUE)
  <2> SUFFICES ASSUME trouble = 0, NEW n \in 1 .. Len(pulls) PROVE FALSE
    OBVIOUS
  <2>1. pulls[n] \in PullRequest
    BY <1>1, ElementOfSeq
  <2>2. pulls[n].head = NoCommit
    BY DEF PubInv, RemoteInv, Undisturbed
  <2>3. QED
    BY <2>1, <2>2, PublicationAssumption DEF PullRequest
<1>3. RemoteInv'
  BY <1>1, <1>2, PublicationAssumption
     DEF PubInv, RemoteInv, RemoteTypeOK, Undisturbed, Counted, ciVars
<1>4. QED
  BY <1>1, <1>3 DEF RemoteGoesOn, Counted, ciVars

LEMMA PullAdded ==
  ASSUME PubInv, PullCreated, UNCHANGED <<branch, ciVars, target>>, Counted
  PROVE  RemoteGoesOn /\ Len(pulls') \in 1 .. Len(pulls')
<1> DEFINE new == [open |-> TRUE, head |-> branch, moved |-> FALSE]
<1>1. /\ pulls \in Seq(PullRequest) /\ Len(pulls) \in Nat /\ trouble \in Nat
      /\ new \in PullRequest /\ pulls' = Append(pulls, new)
  BY LenProperties DEF PubInv, RemoteInv, RemoteTypeOK, PullCreated, PullRequest
<1>2. /\ pulls' \in Seq(PullRequest) /\ Len(pulls') = Len(pulls) + 1
      /\ pulls'[Len(pulls) + 1] = new
      /\ \A n \in 1 .. Len(pulls) : pulls'[n] = pulls[n]
  BY <1>1, AppendProperties
<1>3. trouble' = 0 => Undisturbed'
  <2> SUFFICES ASSUME trouble' = 0, NEW n \in 1 .. Len(pulls')
               PROVE  pulls'[n].open /\ pulls'[n].head = branch'
    BY DEF Undisturbed
  <2>1. trouble = 0 /\ Undisturbed /\ branch' = branch
    BY <1>1 DEF Counted, PubInv, RemoteInv
  <2>2. CASE n = Len(pulls) + 1
    BY <2>1, <2>2, <1>2
  <2>3. CASE n \in 1 .. Len(pulls)
    BY <2>1, <2>3, <1>2 DEF Undisturbed
  <2>4. QED
    BY <2>2, <2>3, <1>1, <1>2
<1>4. RemoteInv'
  BY <1>2, <1>3 DEF PubInv, RemoteInv, RemoteTypeOK, Counted, ciVars
<1>5. QED
  BY <1>1, <1>2, <1>4 DEF RemoteGoesOn, Counted, ciVars
LEMMA BranchPushed ==
  ASSUME PubInv, NEW c \in Commit \cup {NoCommit}, Push(c)
  PROVE  RemoteGoesOn
<1>1. /\ pulls \in Seq(PullRequest) /\ Len(pulls) \in Nat
      /\ trouble \in 0 .. MaxTrouble /\ MaxTrouble \in Nat
      /\ trouble < MaxTrouble /\ trouble' = trouble + 1
  BY LenProperties, PublicationAssumption DEF PubInv, RemoteInv, RemoteTypeOK, Push, Troubled
<1>2. trouble' \in 0 .. MaxTrouble /\ trouble' # 0
  BY <1>1
<1>3. ASSUME NEW n \in 1 .. Len(pulls)
      PROVE  /\ pulls'[n] \in PullRequest
             /\ (pulls'[n].head = pulls[n].head /\ pulls'[n].moved = pulls[n].moved)
                  \/ pulls'[n].moved
  <2>1. pulls[n] \in PullRequest
    BY <1>1, ElementOfSeq
  <2>2. pulls'[n] = IF ~pulls[n].open THEN pulls[n]
                    ELSE IF c = NoCommit THEN [pulls[n] EXCEPT !.open = FALSE]
                    ELSE [pulls[n] EXCEPT !.head = c, !.moved = TRUE]
    BY DEF Push
  <2>3. QED
    BY <2>1, <2>2 DEF PullRequest
<1>4. pulls' = [n \in 1 .. Len(pulls) |-> pulls'[n]]
  BY DEF Push
<1>5. pulls' \in Seq(PullRequest) /\ Len(pulls') = Len(pulls)
  <2>1. pulls' \in [1 .. Len(pulls) -> PullRequest]
    BY <1>3, <1>4
  <2>2. pulls' \in Seq(PullRequest)
    BY <1>1, <2>1, SeqDef
  <2>3. DOMAIN pulls' = 1 .. Len(pulls) /\ DOMAIN pulls' = 1 .. Len(pulls') /\ Len(pulls') \in Nat
    BY <2>1, <2>2, LenProperties
  <2>4. QED
    BY <1>1, <2>2, <2>3
<1>6. RemoteInv'
  BY <1>1, <1>2, <1>5 DEF PubInv, RemoteInv, RemoteTypeOK, Push, ciVars
<1>7. green \subseteq green'
  BY DEF Push, ciVars
<1>8. QED
  BY <1>1, <1>2, <1>3, <1>5, <1>6, <1>7 DEF RemoteGoesOn

LEMMA PullClosed ==
  ASSUME PubInv, NEW m \in 1 .. Len(pulls), Close(m)
  PROVE  RemoteGoesOn
<1>1. /\ pulls \in Seq(PullRequest) /\ Len(pulls) \in Nat
      /\ trouble \in 0 .. MaxTrouble /\ MaxTrouble \in Nat
      /\ trouble < MaxTrouble /\ trouble' = trouble + 1
  BY LenProperties, PublicationAssumption DEF PubInv, RemoteInv, RemoteTypeOK, Close, Troubled
<1>2. trouble' \in 0 .. MaxTrouble /\ trouble' # 0
  BY <1>1
<1>3. pulls[m] \in PullRequest
  BY <1>1, ElementOfSeq
<1> DEFINE closed == [pulls[m] EXCEPT !.open = FALSE]
<1>4. closed \in PullRequest /\ closed.head = pulls[m].head /\ closed.moved = pulls[m].moved
  BY <1>3 DEF PullRequest
<1>5. pulls' = [pulls EXCEPT ![m] = closed]
  BY DEF Close
<1> HIDE DEF closed
<1>6. /\ pulls' \in Seq(PullRequest) /\ Len(pulls') = Len(pulls)
      /\ \A n \in 1 .. Len(pulls) : pulls'[n] = IF n = m THEN closed ELSE pulls[n]
  BY <1>1, <1>4, <1>5, ExceptSeq
<1>7. RemoteInv'
  BY <1>1, <1>2, <1>6 DEF PubInv, RemoteInv, RemoteTypeOK, Close, ciVars
<1>8. QED
  BY <1>1, <1>2, <1>4, <1>6, <1>7 DEF RemoteGoesOn, Close, ciVars

\* The checks of a commit, and who keeps the checks that succeeded in green.
LEMMA ChecksMove ==
  ASSUME PubInv, NEW c \in Commit, NEW state \in CheckState,
         checks' = [checks EXCEPT ![c] = state], green' \in {green, green \cup {c}},
         state = "success" => c \in green',
         UNCHANGED <<remoteVars, target>>, Counted
  PROVE  RemoteGoesOn
<1>1. Len(pulls) \in Nat /\ trouble \in Nat
  BY LenProperties DEF PubInv, RemoteInv, RemoteTypeOK
<1>2. RemoteInv'
  BY <1>1 DEF PubInv, RemoteInv, RemoteTypeOK, Undisturbed, Counted, remoteVars
<1>3. QED
  BY <1>1, <1>2 DEF RemoteGoesOn, Counted, remoteVars

LEMMA TroubleCounted ==
  ASSUME PubInv, Troubled \/ UNCHANGED trouble
  PROVE  Counted
BY PublicationAssumption DEF PubInv, RemoteInv, RemoteTypeOK, Troubled, Counted

LEMMA EverybodyElse ==
  ASSUME PubInv,
         \/ \E c \in Commit : ChecksStart(c) \/ ChecksPass(c) \/ ChecksFail(c) \/ ChecksRerun(c)
         \/ \E c \in Commit \cup {NoCommit} : Push(c)
         \/ \E n \in 1 .. Len(pulls) : Close(n)
         \/ Edit
  PROVE  PubInv'
<1>1. ASSUME NEW c \in Commit, ChecksStart(c) \/ ChecksFail(c) \/ ChecksRerun(c)
      PROVE  RemoteGoesOn /\ UNCHANGED callVars
  <2>1. PICK state \in {"pending", "failure"} : checks' = [checks EXCEPT ![c] = state]
    BY <1>1 DEF ChecksStart, ChecksFail, ChecksRerun
  <2>2. /\ state \in CheckState /\ state # "success"
        /\ UNCHANGED <<remoteVars, green, target, callVars>> /\ (Troubled \/ UNCHANGED trouble)
    BY <1>1 DEF ChecksStart, ChecksFail, ChecksRerun, CheckState, PubInv, RemoteInv, RemoteTypeOK
  <2>3. QED
    BY <2>1, <2>2, ChecksMove, TroubleCounted
<1>2. ASSUME NEW c \in Commit, ChecksPass(c) PROVE RemoteGoesOn /\ UNCHANGED callVars
  BY <1>2, ChecksMove, TroubleCounted DEF ChecksPass, CheckState
<1>3. ASSUME NEW c \in Commit \cup {NoCommit}, Push(c) PROVE RemoteGoesOn /\ UNCHANGED callVars
  BY <1>3, BranchPushed DEF Push
<1>4. ASSUME NEW n \in 1 .. Len(pulls), Close(n) PROVE RemoteGoesOn /\ UNCHANGED callVars
  BY <1>4, PullClosed DEF Close
<1>5. ASSUME Edit PROVE RemoteGoesOn /\ UNCHANGED callVars
  <2>1. Counted
    BY <1>5, TroubleCounted DEF Edit
  <2>2. Len(pulls) \in Nat /\ trouble \in Nat
    BY LenProperties DEF PubInv, RemoteInv, RemoteTypeOK
  <2>3. RemoteInv'
    BY <1>5, <2>1, <2>2
       DEF Edit, PubInv, RemoteInv, RemoteTypeOK, Undisturbed, Counted, remoteVars, ciVars
  <2>4. QED
    BY <1>5, <2>1, <2>2, <2>3 DEF RemoteGoesOn, Edit, Counted, remoteVars, ciVars
<1>6. RemoteGoesOn /\ UNCHANGED callVars
  BY <1>1, <1>2, <1>3, <1>4, <1>5
<1>7. QED
  BY <1>6, RemoteKeeps

-----------------------------------------------------------------------------
(***************************************************************************)
(* The call after a step.                                                   *)
(***************************************************************************)
LEMMA GotoKeeps ==
  ASSUME PubInv, RemoteGoesOn, NEW p \in Publisher, NEW step \in PublisherStep, Goto(p, step),
         pull' \in [Publisher -> Nat], \A q \in Publisher : q # p => pull'[q] = pull[q],
         Knows(p)'
  PROVE  PubInv'
<1>1. CallsTypeOK'
  BY DEF PubInv, CallsTypeOK, Goto
<1>2. \A q \in Publisher : q # p => pc'[q] = pc[q] /\ pull'[q] = pull[q] /\ out'[q] = out[q]
  BY DEF PubInv, CallsTypeOK, Goto
<1>3. RowTrue(out[p])'
  <2>1. PICK x : x = out[p] /\ out' = out
    BY DEF Goto
  <2>2. RowTrue(x)'
    BY <2>1, RowsStayTrue DEF PubInv
  <2>3. QED
    BY <2>1, <2>2 DEF RowTrue
<1>4. ledger' = ledger /\ ended' \subseteq Publisher
  BY DEF PubInv, Goto
<1>5. Kept(p)
  BY <1>1, <1>2, <1>3, <1>4 DEF Kept
<1>6. QED
  BY <1>5, KeptKeeps

\* To a step before the pull request is found.
LEMMA GotoOn ==
  ASSUME PubInv, RemoteGoesOn, NEW p \in Publisher,
         NEW step \in PublisherStep \ {"validate", "poll"}, Goto(p, step), UNCHANGED pull,
         trouble' = 0 => /\ step \in OnBranch => branch' = CommitOf[p]
                         /\ step = "relist" => 1 \in 1 .. Len(pulls')
  PROVE  PubInv'
<1>1. Len(pulls) \in Nat /\ Len(pulls') \in Nat /\ Len(pulls) <= Len(pulls')
  BY PullCount
<1>2. pull \in [Publisher -> Nat] /\ pc'[p] = step /\ pull'[p] \in 0 .. Len(pulls')
  BY <1>1 DEF PubInv, CallsTypeOK, Goto, Knows
<1>3. Knows(p)'
  BY <1>2 DEF Knows
<1>4. QED
  BY <1>2, <1>3, GotoKeeps

\* To the pull request that is found or made.
LEMMA UseKeeps ==
  ASSUME PubInv, RemoteGoesOn, NEW p \in Publisher, NEW n \in 1 .. Len(pulls'), Use(p, n),
         trouble' = 0 => branch' = CommitOf[p]
  PROVE  PubInv'
<1>1. Len(pulls) \in Nat /\ Len(pulls') \in Nat /\ Len(pulls) <= Len(pulls')
  BY PullCount
<1>2. pull' = [pull EXCEPT ![p] = n] /\ Goto(p, "validate") /\ n \in Nat
  BY <1>1 DEF Use
<1>3. /\ pull' \in [Publisher -> Nat] /\ pull'[p] = n /\ pc'[p] = "validate"
      /\ \A q \in Publisher : q # p => pull'[q] = pull[q]
  BY <1>2 DEF PubInv, CallsTypeOK, Goto
<1>4. Knows(p)'
  BY <1>3 DEF Knows
<1>5. "validate" \in PublisherStep
  BY DEF PublisherStep, GhStep
<1>6. QED
  BY <1>2, <1>3, <1>4, <1>5, GotoKeeps

LEMMA AnswerKeeps ==
  ASSUME PubInv, RemoteGoesOn, NEW p \in Publisher,
         NEW status \in {"succeeded", "rejected", "pending"}, NEW number \in Nat, NEW why \in Why,
         Answer(p, status, number, why),
         status = "succeeded" => /\ number \in 1 .. Len(pulls')
                                 /\ CommitOf[p] \in green' \/ pulls'[number].moved,
         trouble' = 0 => why # "pull"
  PROVE  PubInv'
<1> DEFINE row == [commit |-> CommitOf[p], status |-> status, pull |-> number, why |-> why]
<1>1. Len(pulls) \in Nat /\ Len(pulls') \in Nat /\ Len(pulls) <= Len(pulls')
  BY PullCount
<1>2. row \in Receipt
  BY PublicationAssumption DEF Receipt
<1>3. CallsTypeOK' /\ pc'[p] = "record" /\ out'[p] = row /\ pull' = pull
  BY <1>2 DEF PubInv, CallsTypeOK, Answer, PublisherStep
<1>4. \A q \in Publisher : q # p => pc'[q] = pc[q] /\ pull'[q] = pull[q] /\ out'[q] = out[q]
  BY DEF PubInv, CallsTypeOK, Answer
<1>5. RowTrue(out[p])'
  BY <1>3 DEF RowTrue
<1>6. Knows(p)'
  BY <1>1, <1>3 DEF PubInv, Knows, OnBranch
<1>7. ledger' = ledger /\ ended' \subseteq Publisher
  BY DEF PubInv, Answer
<1>8. Kept(p)
  BY <1>3, <1>4, <1>5, <1>6, <1>7 DEF Kept
<1>9. QED
  BY <1>8, KeptKeeps

LEMMA RejectKeeps ==
  ASSUME PubInv, RemoteGoesOn, NEW p \in Publisher, NEW why \in Why, Reject(p, why),
         trouble' = 0 => why # "pull"
  PROVE  PubInv'
BY AnswerKeeps DEF Reject

LEMMA ForgetKeeps ==
  ASSUME PubInv, RemoteGoesOn, NEW p \in Publisher, Forget(p),
         ledger' \in {ledger, ledger \cup {out[p]}}, ended' \in {ended, ended \cup {p}}
  PROVE  PubInv'
<1>1. Len(pulls) \in Nat /\ Len(pulls') \in Nat /\ Len(pulls) <= Len(pulls')
  BY PullCount
<1>2. NoReceipt(p) \in Receipt /\ 0 \in 0 .. MaxPolls - 1
  BY PublicationAssumption DEF NoReceipt, Receipt, Why
<1>3. CallsTypeOK' /\ pc'[p] = "idle" /\ pull'[p] = 0 /\ out'[p] = NoReceipt(p)
  BY <1>2 DEF PubInv, CallsTypeOK, Forget, PublisherStep
<1>4. \A q \in Publisher : q # p => pc'[q] = pc[q] /\ pull'[q] = pull[q] /\ out'[q] = out[q]
  BY DEF PubInv, CallsTypeOK, Forget
<1>5. RowTrue(out[p])'
  <2>1. NoReceipt(p).status = "rejected" /\ NoReceipt(p).why = ""
    BY DEF NoReceipt
  <2>2. QED
    BY <1>3, <2>1 DEF RowTrue
<1>6. Knows(p)'
  BY <1>1, <1>3 DEF Knows, OnBranch
<1>7. ASSUME NEW x \in ledger' PROVE x \in ledger \/ (x \in Receipt /\ RowTrue(x)')
  <2>1. CASE x \in ledger
    BY <2>1
  <2>2. CASE x = out[p]
    <3>1. x \in Receipt /\ RowTrue(x)
      BY <2>2 DEF PubInv, CallsTypeOK
    <3>2. RowTrue(x)'
      BY <3>1, RowsStayTrue
    <3>3. QED
      BY <3>1, <3>2
  <2>3. QED
    BY <1>7, <2>1, <2>2
<1>8. ended' \subseteq Publisher
  BY DEF PubInv
<1>9. Kept(p)
  BY <1>3, <1>4, <1>5, <1>6, <1>7, <1>8 DEF Kept
<1>10. QED
  BY <1>9, KeptKeeps
-----------------------------------------------------------------------------
(***************************************************************************)
(* The steps of a publisher.                                                *)
(***************************************************************************)
LEMMA ProvesTarget ==
  ASSUME PubInv, NEW p \in Publisher, Start(p) \/ ProveClean(p) \/ ProveHead(p)
  PROVE  PubInv'
<1>1. UNCHANGED <<remoteVars, ciVars, target, trouble>>
  BY DEF Start, ProveClean, ProveHead
<1>2. RemoteGoesOn
  BY <1>1, RemoteStays, TroubleCounted
<1>3. CASE Reject(p, "target")
  <2>1. "target" \in Why /\ "target" # "pull"
    BY DEF Why
  <2>2. QED
    BY <1>2, <1>3, <2>1, RejectKeeps
<1>4. CASE \E step \in {"status", "head", "query_ref"} : Goto(p, step) /\ UNCHANGED pull
  <2>1. PICK step \in {"status", "head", "query_ref"} : Goto(p, step) /\ UNCHANGED pull
    BY <1>4
  <2>2. step \in PublisherStep \ {"validate", "poll"} /\ step \notin OnBranch /\ step # "relist"
    BY DEF PublisherStep, GitStep, GhStep, OnBranch
  <2>3. QED
    BY <1>2, <2>1, <2>2, GotoOn
<1>5. QED
  BY <1>3, <1>4 DEF Start, ProveClean, ProveHead, Goto

LEMMA QueryRefKeeps ==
  ASSUME PubInv, NEW p \in Publisher, QueryRef(p)
  PROVE  PubInv'
<1>1. RemoteGoesOn
  BY RemoteStays, TroubleCounted DEF QueryRef
<1>2. branch' = branch
  BY DEF QueryRef, remoteVars
<1>3. CASE branch = NoCommit /\ Goto(p, "create_ref") /\ UNCHANGED pull
  <2>1. /\ "create_ref" \in PublisherStep \ {"validate", "poll"}
        /\ "create_ref" \notin OnBranch /\ "create_ref" # "relist"
    BY DEF PublisherStep, GhStep, OnBranch
  <2>2. QED
    BY <1>1, <1>3, <2>1, GotoOn
<1>4. CASE branch = CommitOf[p] /\ Goto(p, "list") /\ UNCHANGED pull
  <2>1. "list" \in PublisherStep \ {"validate", "poll"} /\ "list" # "relist"
    BY DEF PublisherStep, GhStep
  <2>2. QED
    BY <1>1, <1>2, <1>4, <2>1, GotoOn
<1>5. CASE Reject(p, "branch")
  <2>1. "branch" \in Why /\ "branch" # "pull"
    BY DEF Why
  <2>2. QED
    BY <1>1, <1>5, <2>1, RejectKeeps
<1>6. QED
  BY <1>3, <1>4, <1>5 DEF QueryRef

LEMMA CreateRefKeeps ==
  ASSUME PubInv, NEW p \in Publisher, CreateRef(p)
  PROVE  PubInv'
<1>1. UNCHANGED <<pulls, ciVars, target>> /\ Counted
  BY TroubleCounted DEF CreateRef
<1>2. CASE branch = NoCommit /\ branch' = CommitOf[p] /\ Goto(p, "list") /\ UNCHANGED pull
  <2>1. RemoteGoesOn
    BY <1>1, <1>2, RefCreated
  <2>2. "list" \in PublisherStep \ {"validate", "poll"} /\ "list" # "relist"
    BY DEF PublisherStep, GhStep
  <2>3. QED
    BY <1>2, <2>1, <2>2, GotoOn
<1>3. CASE branch # NoCommit /\ Reject(p, "branch") /\ UNCHANGED branch
  <2>1. RemoteGoesOn
    BY <1>1, <1>3, RemoteStays DEF remoteVars
  <2>2. "branch" \in Why /\ "branch" # "pull"
    BY DEF Why
  <2>3. QED
    BY <1>3, <2>1, <2>2, RejectKeeps
<1>4. QED
  BY <1>2, <1>3 DEF CreateRef

\* What is known of an open pull request while nobody interferes.
LEMMA OpenAtBranch ==
  ASSUME PubInv
  PROVE  /\ \A n \in Open : n \in 1 .. Len(pulls)
         /\ trouble = 0 => \A n \in 1 .. Len(pulls) : n \in Open /\ pulls[n].head = branch
BY DEF Open, PubInv, RemoteInv, Undisturbed

LEMMA ListPullsKeeps ==
  ASSUME PubInv, NEW p \in Publisher, ListPulls(p)
  PROVE  PubInv'
<1>1. RemoteGoesOn /\ UNCHANGED <<branch, pulls, trouble>> /\ pc[p] = "list"
  BY RemoteStays, TroubleCounted DEF ListPulls, remoteVars
<1>2. trouble = 0 => branch = CommitOf[p]
  BY <1>1 DEF PubInv, Knows, OnBranch
<1>3. CASE Open = {} /\ Goto(p, "create_pull") /\ UNCHANGED pull
  <2>1. "create_pull" \in PublisherStep \ {"validate", "poll"} /\ "create_pull" # "relist"
    BY DEF PublisherStep, GhStep
  <2>2. QED
    BY <1>1, <1>2, <1>3, <2>1, GotoOn
<1>4. ASSUME NEW n \in Open, pulls[n].head = CommitOf[p], Use(p, n) PROVE PubInv'
  BY <1>1, <1>2, <1>4, OpenAtBranch, UseKeeps
<1>5. ASSUME NEW n \in Open, pulls[n].head # CommitOf[p], Reject(p, "pull") PROVE PubInv'
  <2>1. trouble # 0
    BY <1>2, <1>5, OpenAtBranch
  <2>2. "pull" \in Why
    BY DEF Why
  <2>3. QED
    BY <1>1, <1>5, <2>1, <2>2, RejectKeeps
<1>6. QED
  BY <1>3, <1>4, <1>5 DEF ListPulls

LEMMA RelistPullsKeeps ==
  ASSUME PubInv, NEW p \in Publisher, RelistPulls(p)
  PROVE  PubInv'
<1>1. RemoteGoesOn /\ UNCHANGED <<branch, pulls, trouble>> /\ pc[p] = "relist"
  BY RemoteStays, TroubleCounted DEF RelistPulls, remoteVars
<1>2. trouble = 0 => branch = CommitOf[p] /\ 1 \in 1 .. Len(pulls)
  BY <1>1 DEF PubInv, Knows, OnBranch
<1>3. "pull" \in Why
  BY DEF Why
<1>4. CASE Open = {} /\ Reject(p, "pull")
  <2>1. trouble # 0
    BY <1>2, <1>4, OpenAtBranch
  <2>2. QED
    BY <1>1, <1>3, <1>4, <2>1, RejectKeeps
<1>5. ASSUME NEW n \in Open, pulls[n].head = CommitOf[p], Use(p, n) PROVE PubInv'
  BY <1>1, <1>2, <1>5, OpenAtBranch, UseKeeps
<1>6. ASSUME NEW n \in Open, pulls[n].head # CommitOf[p], Reject(p, "pull") PROVE PubInv'
  <2>1. trouble # 0
    BY <1>2, <1>6, OpenAtBranch
  <2>2. QED
    BY <1>1, <1>3, <1>6, <2>1, RejectKeeps
<1>7. QED
  BY <1>4, <1>5, <1>6 DEF RelistPulls

LEMMA CreatePullKeeps ==
  ASSUME PubInv, NEW p \in Publisher, CreatePull(p)
  PROVE  PubInv'
<1>1. UNCHANGED <<branch, ciVars, target, trouble>> /\ Counted /\ pc[p] = "create_pull"
  BY TroubleCounted DEF CreatePull
<1>2. trouble = 0 => branch = CommitOf[p] /\ branch # NoCommit
  BY <1>1, PublicationAssumption DEF PubInv, Knows, OnBranch
<1>3. CASE PullCreated /\ Use(p, Len(pulls'))
  BY <1>1, <1>2, <1>3, PullAdded, UseKeeps
<1>4. CASE PullRefused /\ Goto(p, "relist") /\ UNCHANGED pull
  <2>1. RemoteGoesOn /\ pulls' = pulls
    BY <1>1, <1>4, RemoteStays DEF PullRefused, remoteVars
  <2>2. trouble = 0 => 1 \in 1 .. Len(pulls)
    <3> SUFFICES ASSUME trouble = 0 PROVE 1 \in 1 .. Len(pulls)
      OBVIOUS
    <3>1. PICK n : n \in 1 .. Len(pulls)
      BY <1>2, <1>4, OpenAtBranch DEF PullRefused
    <3>2. Len(pulls) \in Nat
      BY LenProperties DEF PubInv, RemoteInv, RemoteTypeOK
    <3>3. QED
      BY <3>1, <3>2
  <2>3. "relist" \in PublisherStep \ {"validate", "poll"}
    BY DEF PublisherStep, GhStep
  <2>4. QED
    BY <1>1, <1>2, <1>4, <2>1, <2>2, <2>3, GotoOn
<1>5. QED
  BY <1>3, <1>4 DEF CreatePull
LEMMA ValidatePullKeeps ==
  ASSUME PubInv, NEW p \in Publisher, ValidatePull(p)
  PROVE  PubInv'
<1>1. RemoteGoesOn /\ UNCHANGED <<branch, pulls, trouble>> /\ pc[p] = "validate"
  BY RemoteStays, TroubleCounted DEF ValidatePull, remoteVars
<1>2. pull[p] \in 1 .. Len(pulls) /\ (trouble = 0 => branch = CommitOf[p])
  BY <1>1 DEF PubInv, Knows, OnBranch
<1>3. CASE pulls[pull[p]].head = CommitOf[p] /\ Goto(p, "poll") /\ UNCHANGED pull
  <2>1. /\ "poll" \in PublisherStep /\ pull' \in [Publisher -> Nat] /\ pc'[p] = "poll"
        /\ \A q \in Publisher : q # p => pull'[q] = pull[q]
    BY <1>3 DEF PublisherStep, GhStep, Goto, PubInv, CallsTypeOK
  <2>2. Knows(p)'
    BY <1>1, <1>2, <1>3, <2>1 DEF Knows
  <2>3. QED
    BY <1>1, <1>3, <2>1, <2>2, GotoKeeps
<1>4. CASE /\ ~(pulls[pull[p]].open /\ pulls[pull[p]].head = CommitOf[p])
           /\ Reject(p, "pull")
  <2>1. trouble # 0
    BY <1>2, <1>4, OpenAtBranch DEF Open
  <2>2. "pull" \in Why
    BY DEF Why
  <2>3. QED
    BY <1>1, <1>4, <2>1, <2>2, RejectKeeps
<1>5. QED
  BY <1>3, <1>4 DEF ValidatePull

\* A poll that is not the last.
LEMMA PolledAgain ==
  ASSUME PubInv, RemoteGoesOn, NEW p \in Publisher, polls[p] + 1 < MaxPolls,
         polls' = [polls EXCEPT ![p] = @ + 1], UNCHANGED <<pc, pull, out, ledger, ended>>
  PROVE  PubInv'
<1>1. CallsTypeOK'
  BY PublicationAssumption DEF PubInv, CallsTypeOK
<1>2. Knows(p)' /\ RowTrue(out[p])'
  BY OthersKeep
<1>3. ended' \subseteq Publisher
  BY DEF PubInv
<1>4. Kept(p)
  BY <1>1, <1>2, <1>3 DEF Kept
<1>5. QED
  BY <1>4, KeptKeeps

LEMMA PollChecksKeeps ==
  ASSUME PubInv, NEW p \in Publisher, PollChecks(p)
  PROVE  PubInv'
<1>1. RemoteGoesOn /\ UNCHANGED <<pulls, green>> /\ pc[p] = "poll"
  BY RemoteStays, TroubleCounted DEF PollChecks, remoteVars, ciVars
<1>2. /\ pull[p] \in 1 .. Len(pulls) /\ pull[p] \in Nat
      /\ pulls[pull[p]].head = CommitOf[p] \/ pulls[pull[p]].moved
  BY <1>1 DEF PubInv, Knows, CallsTypeOK
<1>3. CASE Raise(p)
  <2>1. Forget(p) /\ ledger' = ledger /\ ended' = ended \cup {p}
    BY <1>3 DEF Raise
  <2>2. QED
    BY <1>1, <2>1, ForgetKeeps
<1>4. CASE Observed(p) = "success" /\ Answer(p, "succeeded", pull[p], "")
  <2>1. pulls[pull[p]] \in PullRequest
    BY <1>2, ElementOfSeq DEF PubInv, RemoteInv, RemoteTypeOK
  <2>2. pulls[pull[p]].head \in green
    BY <1>4, <2>1 DEF PullRequest, Observed, PubInv, RemoteInv
  <2>3. "" \in Why /\ "" # "pull"
    BY DEF Why
  <2>4. QED
    BY <1>1, <1>2, <1>4, <2>2, <2>3, AnswerKeeps
<1>5. CASE Answer(p, "rejected", pull[p], "checks")
  <2>1. "checks" \in Why /\ "checks" # "pull"
    BY DEF Why
  <2>2. QED
    BY <1>1, <1>2, <1>5, <2>1, AnswerKeeps
<1>6. CASE Answer(p, "pending", pull[p], "bound")
  <2>1. "bound" \in Why /\ "bound" # "pull"
    BY DEF Why
  <2>2. QED
    BY <1>1, <1>2, <1>6, <2>1, AnswerKeeps
<1>7. CASE /\ polls[p] + 1 < MaxPolls /\ polls' = [polls EXCEPT ![p] = @ + 1]
           /\ UNCHANGED <<pc, pull, out, ledger, ended>>
  BY <1>1, <1>7, PolledAgain
<1>8. QED
  BY <1>3, <1>4, <1>5, <1>6, <1>7 DEF PollChecks

LEMMA LeavesCall ==
  ASSUME PubInv, NEW p \in Publisher, Record(p) \/ Crash(p)
  PROVE  PubInv'
<1>1. RemoteGoesOn
  BY RemoteStays, TroubleCounted DEF Record, Crash
<1>2. /\ Forget(p) /\ ledger' \in {ledger, ledger \cup {out[p]}}
      /\ ended' \in {ended, ended \cup {p}}
  BY DEF Record, Crash
<1>3. QED
  BY <1>1, <1>2, ForgetKeeps

LEMMA TransportKeeps ==
  ASSUME PubInv, NEW p \in Publisher, TransportFails(p)
  PROVE  PubInv'
<1>1. UNCHANGED <<ciVars, target>> /\ Counted /\ trouble' # 0
  BY TroubleCounted DEF TransportFails, Troubled, PubInv, RemoteInv, RemoteTypeOK
<1>2. RemoteGoesOn
  <2>1. CASE UNCHANGED remoteVars
    BY <1>1, <2>1, RemoteStays
  <2>2. CASE branch = NoCommit /\ branch' = CommitOf[p] /\ UNCHANGED pulls
    BY <1>1, <2>2, RefCreated
  <2>3. CASE PullCreated /\ UNCHANGED branch
    BY <1>1, <2>3, PullAdded
  <2>4. QED
    BY <2>1, <2>2, <2>3 DEF TransportFails, remoteVars
<1>3. CASE Reject(p, "transport")
  <2>1. "transport" \in Why
    BY DEF Why
  <2>2. QED
    BY <1>1, <1>2, <1>3, <2>1, RejectKeeps
<1>4. CASE Goto(p, "relist") /\ UNCHANGED pull
  <2>1. "relist" \in PublisherStep \ {"validate", "poll"}
    BY DEF PublisherStep, GhStep
  <2>2. QED
    BY <1>1, <1>2, <1>4, <2>1, GotoOn
<1>5. QED
  BY <1>3, <1>4 DEF TransportFails

-----------------------------------------------------------------------------
LEMMA PubInitial ==
  ASSUME Init
  PROVE  PubInv
<1>1. pulls \in Seq(PullRequest) /\ Len(pulls) = 0
  BY EmptySeq DEF Init
<1>2. RemoteInv
  <2>1. target \in [head : Commit, clean : BOOLEAN]
    BY DEF Init
  <2>2. \A n \in 1 .. Len(pulls) : FALSE
    BY <1>1
  <2>3. checks \in [Commit -> CheckState] /\ \A c \in Commit : checks[c] # "success"
    BY DEF Init, CheckState
  <2>4. branch = NoCommit /\ green = {} /\ trouble \in 0 .. MaxTrouble
    BY PublicationAssumption DEF Init
  <2>5. QED
    BY <1>1, <2>1, <2>2, <2>3, <2>4 DEF RemoteInv, RemoteTypeOK, Undisturbed
<1>3. \A p \in Publisher : NoReceipt(p) \in Receipt
  BY PublicationAssumption DEF NoReceipt, Receipt, Why
<1>4. CallsTypeOK
  BY <1>3, PublicationAssumption DEF Init, CallsTypeOK, PublisherStep
<1>5. ASSUME NEW p \in Publisher PROVE Knows(p) /\ RowTrue(out[p])
  <2>1. NoReceipt(p).status = "rejected" /\ NoReceipt(p).why = ""
    BY DEF NoReceipt
  <2>2. pc[p] = "idle" /\ pull[p] = 0 /\ out[p] = NoReceipt(p)
    BY DEF Init
  <2>3. RowTrue(out[p])
    BY <2>1, <2>2 DEF RowTrue
  <2>4. Knows(p)
    BY <1>1, <2>2 DEF Knows, OnBranch
  <2>5. QED
    BY <2>3, <2>4
<1>6. ledger = {} /\ ended = {}
  BY DEF Init
<1>7. QED
  BY <1>2, <1>4, <1>5, <1>6 DEF PubInv

LEMMA PubStep ==
  ASSUME PubInv, [Next]_vars
  PROVE  PubInv'
<1>1. ASSUME NEW p \in Publisher, Start(p) \/ Step(p) \/ Crash(p) \/ TransportFails(p)
      PROVE  PubInv'
  BY <1>1, ProvesTarget, QueryRefKeeps, CreateRefKeeps, ListPullsKeeps, CreatePullKeeps,
     RelistPullsKeeps, ValidatePullKeeps, PollChecksKeeps, LeavesCall, TransportKeeps
     DEF Step
<1>2. CASE UNCHANGED vars
  <2>1. UNCHANGED <<remoteVars, ciVars, target, trouble, callVars>>
    BY <1>2 DEF vars, remoteVars, ciVars, callVars
  <2>2. RemoteGoesOn
    BY <2>1, RemoteStays, TroubleCounted
  <2>3. QED
    BY <2>1, <2>2, RemoteKeeps
<1>3. QED
  BY <1>1, <1>2, EverybodyElse DEF Next

(***************************************************************************)
(* Whatever the publishers, the checks, the maintainers and the transport   *)
(* do, each publisher knows what its step relies on, and each receipt, made *)
(* or recorded, stays true.                                                 *)
(***************************************************************************)
THEOREM PublicationInvariant == Spec => []PubInv
<1>1. Init => PubInv
  BY PubInitial
<1>2. PubInv /\ [Next]_vars => PubInv'
  BY PubStep
<1>3. QED
  BY <1>1, <1>2, PTL DEF Spec

\* Every variable has its type, and a publisher past its pull request has one.
THEOREM PublicationTyped == Spec => []PublicationTypeOK
<1>1. PubInv => PublicationTypeOK
  BY DEF PubInv, RemoteInv, RemoteTypeOK, CallsTypeOK, PullRequest, PublisherStep, Knows, PublicationTypeOK
<1>2. QED
  BY <1>1, PublicationInvariant, PTL

\* A success on record is of a commit that was checked, or of a pull request pushed to.
THEOREM SuccessesWereChecked == Spec => []SucceededWasChecked
<1>1. PubInv => SucceededWasChecked
  BY DEF PubInv, RowTrue, SucceededWasChecked
<1>2. QED
  BY <1>1, PublicationInvariant, PTL

\* However many publishers race for one pull request, none is rejected over it.
THEOREM RacersShareThePull == Spec => []PullRaceIsShared
<1>1. PubInv => PullRaceIsShared
  BY DEF PubInv, RowTrue, PullRaceIsShared
<1>2. QED
  BY <1>1, PublicationInvariant, PTL
-----------------------------------------------------------------------------
(***************************************************************************)
(* What ends unrecorded.  A call ends in _record or by an exception, and    *)
(* the one exception that publish does not catch is of a receipt that       *)
(* cannot hold two checks of one name.                                      *)
(***************************************************************************)
RecordLeft(p) == \E x \in ledger : x.commit = CommitOf[p]

Outcomes ==
  /\ \A p \in Publisher : out[p].commit = CommitOf[p]
  /\ \A p \in ended : RecordLeft(p)

\* The receipt in the hands of a publisher is of its own commit.
LEMMA OwnReceipt ==
  ASSUME CallsTypeOK, Outcomes, NEW p \in Publisher,
         \/ Forget(p) \/ out' = out
         \/ \E status, number, why : Answer(p, status, number, why)
  PROVE  \A q \in Publisher : out'[q].commit = CommitOf[q]
<1>1. \A q \in Publisher : out[q].commit = CommitOf[q]
  BY DEF Outcomes
<1>2. CASE Forget(p)
  BY <1>1, <1>2 DEF Forget, NoReceipt, CallsTypeOK
<1>3. CASE out' = out
  BY <1>1, <1>3
<1>4. CASE \E status, number, why : Answer(p, status, number, why)
  BY <1>1, <1>4 DEF Answer, CallsTypeOK
<1>5. QED
  BY <1>2, <1>3, <1>4

LEMMA OutcomesStep ==
  ASSUME Ambiguous = {}, CallsTypeOK, Outcomes, [Next]_vars
  PROVE  Outcomes'
<1>1. ASSUME UNCHANGED <<out, ledger, ended>> PROVE Outcomes'
  BY <1>1 DEF Outcomes, RecordLeft
<1>2. ASSUME NEW p \in Publisher, UNCHANGED <<ledger, ended>>,
             \/ Forget(p) \/ out' = out
             \/ \E status, number, why : Answer(p, status, number, why)
      PROVE  Outcomes'
  BY <1>2, OwnReceipt DEF Outcomes, RecordLeft
<1>3. ASSUME NEW p \in Publisher, Record(p) PROVE Outcomes'
  <2>1. Forget(p) /\ ledger' = ledger \cup {out[p]} /\ ended' = ended \cup {p}
    BY <1>3 DEF Record
  <2>2. out[p].commit = CommitOf[p]
    BY DEF Outcomes
  <2>3. \A q \in ended' : RecordLeft(q)'
    BY <2>1, <2>2 DEF Outcomes, RecordLeft
  <2>4. QED
    BY <2>1, <2>3, OwnReceipt DEF Outcomes
<1>4. ASSUME NEW p \in Publisher, Step(p) PROVE Outcomes'
  <2>1. CASE Record(p)
    BY <2>1, <1>3
  <2>2. CASE PollChecks(p)
    <3>1. \/ \E status, number, why : Answer(p, status, number, why)
          \/ UNCHANGED <<pc, pull, out, ledger, ended>>
      BY <2>2 DEF PollChecks
    <3>2. QED
      BY <3>1, <1>1, <1>2 DEF Answer
  <2>3. CASE \/ ProveClean(p) \/ ProveHead(p) \/ QueryRef(p) \/ CreateRef(p)
             \/ ListPulls(p) \/ CreatePull(p) \/ RelistPulls(p) \/ ValidatePull(p)
    <3>1. \/ \E step : Goto(p, step)
          \/ \E why : Reject(p, why)
      BY <2>3 DEF ProveClean, ProveHead, QueryRef, CreateRef, ListPulls, CreatePull,
                  RelistPulls, ValidatePull, Use
    <3>2. QED
      BY <3>1, <1>1, <1>2 DEF Goto, Reject, Answer
  <2>4. QED
    BY <1>4, <2>1, <2>2, <2>3 DEF Step
<1>5. ASSUME NEW p \in Publisher, Start(p) PROVE Outcomes'
  BY <1>5, <1>1 DEF Start
<1>6. ASSUME NEW p \in Publisher, Crash(p) PROVE Outcomes'
  BY <1>6, <1>2 DEF Crash
<1>7. ASSUME NEW p \in Publisher, TransportFails(p) PROVE Outcomes'
  <2>1. (\E why : Reject(p, why)) \/ Goto(p, "relist")
    BY <1>7 DEF TransportFails
  <2>2. QED
    BY <2>1, <1>1, <1>2 DEF Goto, Reject, Answer
<1>8. CASE UNCHANGED vars
  BY <1>8, <1>1 DEF vars
<1>9. CASE UNCHANGED callVars
  BY <1>9, <1>1 DEF callVars
<1>10. ASSUME Next PROVE \/ UNCHANGED callVars
                         \/ \E p \in Publisher : Start(p) \/ Step(p) \/ Crash(p) \/ TransportFails(p)
  BY <1>10 DEF Next, ChecksStart, ChecksPass, ChecksFail, ChecksRerun, Push, Close, Edit
<1>11. QED
  BY <1>4, <1>5, <1>6, <1>7, <1>8, <1>9, <1>10

(***************************************************************************)
(* Where no two required checks share a name, every call of publish that    *)
(* comes to its end leaves its record (_record): that receipt is the only   *)
(* one that cannot be made.                                                 *)
(***************************************************************************)
THEOREM OutcomesAreRecorded ==
  ASSUME Ambiguous = {} PROVE Spec => []EveryOutcomeRecorded
<1>1. Init => Outcomes
  <2> SUFFICES ASSUME Init PROVE Outcomes
    OBVIOUS
  <2>1. \A p \in Publisher : out[p] = NoReceipt(p)
    BY DEF Init
  <2>2. \A p \in Publisher : NoReceipt(p).commit = CommitOf[p]
    BY DEF NoReceipt
  <2>3. ended = {}
    BY DEF Init
  <2>4. QED
    BY <2>1, <2>2, <2>3 DEF Outcomes
<1>2. PubInv /\ Outcomes /\ [Next]_vars => Outcomes'
  BY OutcomesStep DEF PubInv
<1>3. Outcomes => EveryOutcomeRecorded
  BY DEF Outcomes, RecordLeft, EveryOutcomeRecorded
<1>4. QED
  BY <1>1, <1>2, <1>3, PublicationInvariant, PTL DEF Spec

-----------------------------------------------------------------------------
(***************************************************************************)
(* How far a call is from its end: the commands before the checks are       *)
(* polled, the polls that are left, and the record.                         *)
(***************************************************************************)
Before(step) ==
  CASE step = "validate"    -> 1
    [] step = "relist"      -> 2
    [] step = "create_pull" -> 3
    [] step = "list"        -> 4
    [] step = "create_ref"  -> 5
    [] step = "query_ref"   -> 6
    [] step = "head"        -> 7
    [] step = "status"      -> 8

Left(p) ==
  CASE pc[p] = "idle"   -> 0
    [] pc[p] = "record" -> 1
    [] pc[p] = "poll"   -> 1 + MaxPolls - polls[p]
    [] pc[p] \in (GitStep \cup GhStep) \ {"poll"} -> 1 + MaxPolls + Before(pc[p])

MaxLeft == MaxPolls + 9

\* Nearer its end, and nobody else's call is any further from its own.
Nearer(p) ==
  /\ Left(p)' < Left(p)
  /\ \A q \in Publisher : q # p => Left(q)' = Left(q)

NearerEnd ==
  \A p \in Publisher :
    /\ Step(p) \/ Crash(p) \/ TransportFails(p) => Nearer(p)
    /\ Left(p)' > Left(p) => Start(p)

LeftBounded == \A p \in Publisher : Left(p) \in 0 .. MaxLeft

LEMMA LeftOf ==
  ASSUME CallsTypeOK, NEW p \in Publisher
  PROVE  /\ MaxPolls \in Nat /\ polls[p] \in Nat /\ polls[p] < MaxPolls
         /\ pc[p] = "idle" => Left(p) = 0
         /\ pc[p] = "record" => Left(p) = 1
         /\ pc[p] = "poll" => Left(p) = 1 + MaxPolls - polls[p]
         /\ pc[p] \in (GitStep \cup GhStep) \ {"poll"} =>
              Left(p) = 1 + MaxPolls + Before(pc[p]) /\ Before(pc[p]) \in 1 .. 8
<1>1. MaxPolls \in Nat /\ polls[p] \in Nat /\ polls[p] < MaxPolls
  BY PublicationAssumption DEF CallsTypeOK
<1>2. pc[p] = "idle" => Left(p) = 0
  BY DEF Left, GitStep, GhStep
<1>3. pc[p] = "record" => Left(p) = 1
  BY DEF Left, GitStep, GhStep
<1>4. pc[p] = "poll" => Left(p) = 1 + MaxPolls - polls[p]
  BY DEF Left, GitStep, GhStep
<1>5. ASSUME pc[p] \in (GitStep \cup GhStep) \ {"poll"}
      PROVE  Left(p) = 1 + MaxPolls + Before(pc[p]) /\ Before(pc[p]) \in 1 .. 8
  <2>1. Left(p) = 1 + MaxPolls + Before(pc[p])
    BY <1>5 DEF Left, GitStep, GhStep
  <2>2. Before(pc[p]) \in 1 .. 8
    BY <1>5 DEF Before, GitStep, GhStep
  <2>3. QED
    BY <2>1, <2>2
<1>6. QED
  BY <1>1, <1>2, <1>3, <1>4, <1>5

\* A call has a bounded number of commands left, and one in progress has some.
LEMMA LeftRange ==
  ASSUME CallsTypeOK, NEW p \in Publisher
  PROVE  /\ Left(p) \in 0 .. MaxLeft
         /\ pc[p] # "idle" => Left(p) > 0
         /\ pc[p] \in GitStep \cup GhStep => Left(p) > 1
<1>1. pc[p] \in {"idle", "record", "poll"} \cup ((GitStep \cup GhStep) \ {"poll"})
  BY DEF CallsTypeOK, PublisherStep
<1>2. CASE pc[p] \in {"idle", "record"}
  BY <1>2, LeftOf DEF MaxLeft, GitStep, GhStep
<1>3. CASE pc[p] = "poll"
  BY <1>3, LeftOf DEF MaxLeft
<1>4. CASE pc[p] \in (GitStep \cup GhStep) \ {"poll"}
  BY <1>4, LeftOf DEF MaxLeft
<1>5. QED
  BY <1>1, <1>2, <1>3, <1>4

\* What is left depends on the step of the publisher and its polls alone.
LEMMA LeftStays ==
  ASSUME NEW q, pc'[q] = pc[q], polls'[q] = polls[q]
  PROVE  Left(q)' = Left(q)
BY DEF Left

LEMMA GotoNearer ==
  ASSUME CallsTypeOK, CallsTypeOK', NEW p \in Publisher, NEW step \in GitStep \cup GhStep,
         pc[p] \in (GitStep \cup GhStep) \ {"poll"}, Goto(p, step),
         step = "poll" \/ Before(step) < Before(pc[p])
  PROVE  Nearer(p)
<1>1. pc'[p] = step /\ \A q \in Publisher : q # p => Left(q)' = Left(q)
  BY LeftStays DEF Goto, CallsTypeOK
<1>2. Left(p) = 1 + MaxPolls + Before(pc[p]) /\ Before(pc[p]) \in 1 .. 8 /\ MaxPolls \in Nat
  BY LeftOf
<1>3. CASE step = "poll"
  <2>1. Left(p)' = 1 + MaxPolls - polls'[p] /\ polls'[p] \in Nat
    BY <1>1, <1>3, PublicationAssumption DEF Left, GitStep, GhStep, CallsTypeOK
  <2>2. QED
    BY <1>1, <1>2, <2>1 DEF Nearer
<1>4. CASE step # "poll"
  <2>1. Left(p)' = 1 + MaxPolls + Before(step)
    BY <1>1, <1>4 DEF Left, GitStep, GhStep
  <2>2. Before(step) \in Int
    BY <1>4 DEF Before, GitStep, GhStep
  <2>3. QED
    BY <1>1, <1>2, <1>4, <2>1, <2>2 DEF Nearer
<1>5. QED
  BY <1>3, <1>4

LEMMA AnswerNearer ==
  ASSUME CallsTypeOK, NEW p \in Publisher, pc[p] \in GitStep \cup GhStep,
         NEW status, NEW number, NEW why, Answer(p, status, number, why)
  PROVE  Nearer(p)
<1>1. pc'[p] = "record" /\ \A q \in Publisher : q # p => Left(q)' = Left(q)
  BY LeftStays DEF Answer, CallsTypeOK
<1>2. Left(p)' = 1
  BY <1>1 DEF Left, GitStep, GhStep
<1>3. QED
  BY <1>1, <1>2, LeftRange DEF Nearer

LEMMA ForgetNearer ==
  ASSUME CallsTypeOK, NEW p \in Publisher, pc[p] # "idle", Forget(p)
  PROVE  Nearer(p)
<1>1. pc'[p] = "idle" /\ \A q \in Publisher : q # p => Left(q)' = Left(q)
  BY LeftStays DEF Forget, CallsTypeOK
<1>2. Left(p)' = 0
  BY <1>1 DEF Left, GitStep, GhStep
<1>3. QED
  BY <1>1, <1>2, LeftRange DEF Nearer

LEMMA PolledNearer ==
  ASSUME CallsTypeOK, NEW p \in Publisher, pc[p] = "poll", UNCHANGED pc,
         polls' = [polls EXCEPT ![p] = @ + 1]
  PROVE  Nearer(p)
<1>1. polls'[p] = polls[p] + 1 /\ \A q \in Publisher : q # p => Left(q)' = Left(q)
  BY LeftStays DEF CallsTypeOK
<1>2. pc'[p] = "poll" /\ Left(p)' = 1 + MaxPolls - polls'[p]
  BY DEF Left, GitStep, GhStep
<1>3. QED
  BY <1>1, <1>2, LeftOf DEF Nearer

-----------------------------------------------------------------------------
LEMMA StepNearer ==
  ASSUME CallsTypeOK, CallsTypeOK', NEW p \in Publisher, Step(p)
  PROVE  Nearer(p)
<1>1. CASE PollChecks(p)
  <2>1. pc[p] = "poll" /\ pc[p] # "idle" /\ pc[p] \in GitStep \cup GhStep
    BY <1>1 DEF PollChecks, GhStep
  <2>2. \/ Forget(p) \/ \E status, number, why : Answer(p, status, number, why)
        \/ UNCHANGED pc /\ polls' = [polls EXCEPT ![p] = @ + 1]
    BY <1>1 DEF PollChecks, Raise
  <2>3. QED
    BY <2>1, <2>2, ForgetNearer, AnswerNearer, PolledNearer
<1>2. CASE Record(p)
  BY <1>2, ForgetNearer DEF Record
<1>3. CASE \/ ProveClean(p) \/ ProveHead(p) \/ QueryRef(p) \/ CreateRef(p)
           \/ ListPulls(p) \/ CreatePull(p) \/ RelistPulls(p) \/ ValidatePull(p)
  <2>1. pc[p] \in (GitStep \cup GhStep) \ {"poll"}
    BY <1>3 DEF ProveClean, ProveHead, QueryRef, CreateRef, ListPulls, CreatePull,
                RelistPulls, ValidatePull, GitStep, GhStep
  <2>2. \/ \E why : Reject(p, why)
        \/ \E step \in GitStep \cup GhStep :
             Goto(p, step) /\ (step = "poll" \/ Before(step) < Before(pc[p]))
    <3>1. CASE ProveClean(p)
      BY <3>1 DEF ProveClean, Before, GitStep
    <3>2. CASE ProveHead(p)
      BY <3>2 DEF ProveHead, Before, GhStep
    <3>3. CASE QueryRef(p)
      BY <3>3 DEF QueryRef, Before, GhStep
    <3>4. CASE CreateRef(p)
      BY <3>4 DEF CreateRef, Before, GhStep
    <3>5. CASE ListPulls(p)
      BY <3>5 DEF ListPulls, Use, Before, GhStep
    <3>6. CASE CreatePull(p)
      BY <3>6 DEF CreatePull, Use, Before, GhStep
    <3>7. CASE RelistPulls(p)
      BY <3>7 DEF RelistPulls, Use, Before, GhStep
    <3>8. CASE ValidatePull(p)
      BY <3>8 DEF ValidatePull, GhStep
    <3>9. QED
      BY <1>3, <3>1, <3>2, <3>3, <3>4, <3>5, <3>6, <3>7, <3>8
  <2>3. QED
    BY <2>1, <2>2, AnswerNearer, GotoNearer DEF Reject
<1>4. QED
  BY <1>1, <1>2, <1>3 DEF Step

LEMMA FailureNearer ==
  ASSUME CallsTypeOK, CallsTypeOK', NEW p \in Publisher, Crash(p) \/ TransportFails(p)
  PROVE  Nearer(p)
<1>1. CASE Crash(p)
  BY <1>1, ForgetNearer DEF Crash
<1>2. CASE TransportFails(p)
  <2>1. pc[p] \in GitStep \cup GhStep
    BY <1>2 DEF TransportFails
  <2>2. (\E why : Reject(p, why)) \/ (pc[p] = "create_pull" /\ Goto(p, "relist"))
    BY <1>2 DEF TransportFails
  <2>3. Before("relist") < Before("create_pull") /\ "relist" \in GhStep
        /\ "create_pull" \in (GitStep \cup GhStep) \ {"poll"}
    BY DEF Before, GitStep, GhStep
  <2>4. QED
    BY <2>1, <2>2, <2>3, AnswerNearer, GotoNearer DEF Reject
<1>3. QED
  BY <1>1, <1>2

LEMMA RaisedByStart ==
  ASSUME CallsTypeOK, CallsTypeOK', LeftBounded, LeftBounded', Next
  PROVE  NearerEnd
<1>1. ASSUME NEW p \in Publisher, Step(p) \/ Crash(p) \/ TransportFails(p) PROVE Nearer(p)
  BY <1>1, StepNearer, FailureNearer
<1>2. ASSUME NEW q \in Publisher, Left(q)' > Left(q) PROVE Start(q)
  <2>1. Left(q) \in Int /\ Left(q)' \in Int
    BY DEF LeftBounded
  <2>2. \/ UNCHANGED callVars
        \/ \E p \in Publisher : Start(p) \/ Step(p) \/ Crash(p) \/ TransportFails(p)
    BY DEF Next, ChecksStart, ChecksPass, ChecksFail, ChecksRerun, Push, Close, Edit
  <2>3. CASE UNCHANGED callVars
    BY <1>2, <2>1, <2>3, LeftStays DEF callVars
  <2>4. CASE \E p \in Publisher : Step(p) \/ Crash(p) \/ TransportFails(p)
    BY <1>2, <2>1, <2>4, <1>1 DEF Nearer
  <2>5. CASE \E p \in Publisher : Start(p)
    <3>1. PICK p \in Publisher : Start(p)
      BY <2>5
    <3>2. q # p => pc'[q] = pc[q] /\ polls'[q] = polls[q]
      BY <3>1 DEF Start, CallsTypeOK
    <3>3. QED
      BY <1>2, <2>1, <3>1, <3>2, LeftStays
  <2>6. QED
    BY <2>2, <2>3, <2>4, <2>5
<1>3. QED
  BY <1>1, <1>2 DEF NearerEnd

(***************************************************************************)
(* A call of publish is over after a bounded number of commands, whatever   *)
(* others do and whatever fails (_poll_required_checks counts its polls,    *)
(* and nothing else is tried again): each command brings it nearer its end, *)
(* and only calling publish again begins another one.                       *)
(***************************************************************************)
THEOREM PublicationsRunDown == Spec => []LeftBounded /\ [][NearerEnd]_vars
<1>1. PubInv => LeftBounded
  BY LeftRange DEF PubInv, LeftBounded
<1>2. PubInv /\ PubInv' /\ LeftBounded /\ LeftBounded' /\ [Next]_vars => [NearerEnd]_vars
  BY RaisedByStart DEF PubInv
<1>3. QED
  BY <1>1, <1>2, PublicationInvariant, PTL DEF Spec
=============================================================================
