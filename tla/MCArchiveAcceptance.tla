------------------------ MODULE MCArchiveAcceptance ------------------------
(***************************************************************************)
(* The command lines, the artifacts and the drafts that the .cfg files     *)
(* choose from.                                                            *)
(***************************************************************************)
EXTENDS ArchiveAcceptance

\* --skip-approval is never read: one value of it is as good as both.
Approving == {a \in Arguments : ~a.skipApproval}
ReadOnly == {a \in Arguments : a.skipApproval}

Md(s) == [kind |-> "markdown_report", served |-> s]
Xlsx(s) == [kind |-> "xlsx_report", served |-> s]
Other == [kind |-> "other", served |-> "missing"]

\* Both reports, a bad one in either place, two of a kind, and a list with
\* something else in it.
SomeArtifacts ==
  {<<Md("intact"), Xlsx("intact")>>,
   <<Other, Md("altered"), Xlsx("intact")>>,
   <<Md("intact"), Xlsx("missing")>>,
   <<Xlsx("intact"), Xlsx("intact")>>}

Eligible == [eligible |-> TRUE, review |-> "PENDING"]
Blocked == [eligible |-> FALSE, review |-> "PENDING"]
SomeDrafts == {<<>>, <<Blocked, Eligible>>, <<Eligible, Eligible>>}
=============================================================================
