---------------------------- MODULE EvidenceRun ----------------------------
(***************************************************************************)
(* What both acceptance scripts promise of their evidence directory: a     *)
(* file is written once, the verdict is written last, and the verdict and  *)
(* the exit code of the run say the same. An interrupted run may leave no  *)
(* verdict, never a wrong one.                                             *)
(***************************************************************************)
EXTENDS Naturals

CONSTANTS
  Files,    \* the files a run may write
  Verdict   \* the one that holds the verdict

VARIABLES
  files,    \* how often each file was written
  verdict,  \* what the verdict says: "absent", "passed" or "failed"
  end       \* "running", or how the run ended: "passed" or "failed"

vars == <<files, verdict, end>>

Init ==
  /\ files = [f \in Files |-> 0]
  /\ verdict = "absent"
  /\ end = "running"

\* Some files are written, none of them for the second time.
Write ==
  /\ files' \in [Files -> 0 .. 1]
  /\ \A f \in Files : files[f] <= files'[f]
VerdictWritten == files[Verdict] = 0 /\ files'[Verdict] = 1

Collect ==
  /\ end = "running"
  /\ Write /\ ~VerdictWritten
  /\ UNCHANGED <<verdict, end>>

Pass ==
  /\ end = "running"
  /\ Write /\ VerdictWritten
  /\ verdict' = "passed"
  /\ end' = "passed"

Fail ==
  /\ end = "running"
  /\ Write
  /\ verdict' = IF VerdictWritten THEN "failed" ELSE verdict
  /\ end' = "failed"

Next == Collect \/ Pass \/ Fail

Spec == Init /\ [][Next]_vars
=============================================================================
