---------------------------- MODULE MCE2EQualify ----------------------------
(***************************************************************************)
(* The artifact lists that the .cfg files choose from.                     *)
(***************************************************************************)
EXTENDS E2EQualify

Valid(k) == [kind |-> k, valid |-> TRUE]
Invalid(k) == [kind |-> k, valid |-> FALSE]

\* Nothing, both reports, a bad one in either place, two of a kind, a workbook
\* without its media type, and a list with something else in it.
SomeLists ==
  {<<>>,
   <<Valid("xlsx"), Valid("md")>>,
   <<Invalid("xlsx"), Valid("md")>>,
   <<Valid("md"), Invalid("xlsx")>>,
   <<Valid("xlsx"), Valid("xlsx_untyped")>>,
   <<Valid("xlsx_untyped"), Valid("md")>>,
   <<Invalid("other"), Valid("md")>>}
=============================================================================
