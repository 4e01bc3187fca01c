------------------------------ MODULE ReportChain ------------------------------
(***************************************************************************)
(* The chain of a squad's reports (src/models/report_chain.py): reports are *)
(* appended one at a time, in the order of the reviewers and their rounds,  *)
(* each but the first refers to earlier ones, and the leader's synthesis    *)
(* ends the chain.  A chain and its reports are immutable.                  *)
(***************************************************************************)
EXTENDS Integers, Sequences

CONSTANT ReportId

VARIABLE chain  \* a sequence of [id, role, round, refs]

ChainInit == chain = <<>>

Leader == "leader_synthesis"

Report ==
  [id : ReportId, role : {"reviewer_a", "reviewer_b", Leader}, round : 1 .. 3,
   refs : SUBSET ReportId]

\* _REVIEW_SEQUENCE, and the leader from the fourth report on.
ReviewSequence == <<<<"reviewer_a", 1>>, <<"reviewer_b", 1>>, <<"reviewer_a", 2>>>>
Turn(index) == IF index <= Len(ReviewSequence) THEN ReviewSequence[index] ELSE <<Leader, 3>>

IdsBefore(reports, index) == {reports[i].id : i \in 1 .. index - 1}

\* Mistaken: any report of the chain may be referred to.
RefersWithin(reports, index) ==
  LET report == reports[index]
  IN  /\ report.refs \subseteq {reports[i].id : i \in DOMAIN reports}
      /\ index > 1 => report.refs # {}
      /\ index = 1 => report.refs = {}

\* validate_chain, for one report
RefersBack(reports, index) ==
  LET report == reports[index]
  IN  /\ report.refs \subseteq IdsBefore(reports, index)
      /\ index > 1 => report.refs # {}

InPlace(reports, index) ==
  LET report == reports[index]
  IN  /\ report.id \notin IdsBefore(reports, index)
      /\ report.role = Leader => index = Len(reports)
      /\ <<report.role, report.round>> = Turn(index)

ValidChain(reports) ==
  \A index \in DOMAIN reports : RefersBack(reports, index) /\ InPlace(reports, index)

\* append_report
AppendReport(report) ==
  /\ ValidChain(Append(chain, report))
  /\ chain' = Append(chain, report)

ChainNext == \E report \in Report : AppendReport(report)

ChainSpec == ChainInit /\ [][ChainNext]_chain

-----------------------------------------------------------------------------
\* The positions of the reports that a report refers to.
Direct(i) == {j \in DOMAIN chain : chain[j].id \in chain[i].refs}

(***************************************************************************)
(* Every report rests, through what it refers to, on the first one: reports *)
(* that refer to nothing outside their set include it.  And a synthesis is  *)
(* made once, after both reviewers and the second round.                    *)
(***************************************************************************)
RestsOnFirst ==
  /\ \A S \in SUBSET DOMAIN chain :
       S # {} /\ (\A i \in S : Direct(i) \subseteq S) => 1 \in S
  /\ \A i \in DOMAIN chain : chain[i].role = Leader => i = 4 /\ Len(chain) = 4
=============================================================================
