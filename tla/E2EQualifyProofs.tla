-------------------------- MODULE E2EQualifyProofs --------------------------
(***************************************************************************)
(* Proofs about E2EQualify, for every value of its constants.              *)
(***************************************************************************)
EXTENDS E2EQualify, SequenceTheorems, FiniteSetTheorems, WellFoundedInduction, TLAPS

-----------------------------------------------------------------------------
(* The evidence directory.                                                 *)

LEMMA RecordAdds ==
  ASSUME evidence \in [Files -> Nat], NEW files, Record(files)
  PROVE  /\ evidence' \in [Files -> Nat]
         /\ Written' = Written \cup (files \cap Files)
         /\ \A f \in Files : evidence'[f] = IF f \in files THEN evidence[f] + 1 ELSE evidence[f]
  BY DEF Record, Written

\* What may still be written when the run has come to a label: an evidence file
\* of another label was written already, or never will be.
AfterPoll == {"results", "report_xlsx", "report_md", "artifact_hashes", "acceptance_result"}
Unwritten ==
  CASE pc \in {"validate", "upload"} -> Files
    [] pc \in {"chat"} -> Files \ {"upload_response"}
    [] pc \in {"find", "untriggered", "direct", "poll"} -> AfterPoll \cup {"job_status"}
    [] pc \in {"terminal", "results"} -> AfterPoll
    [] pc \in {"bindings", "download"} -> AfterPoll \ {"results"}
    [] pc \in {"artifacts"} -> {"artifact_hashes", "acceptance_result"}
    [] pc \in {"accept"} -> {"acceptance_result"}
    [] OTHER -> {}

Labels == {"validate", "upload", "chat", "find", "untriggered", "direct", "poll",
           "terminal", "results", "bindings", "download", "artifacts", "accept", "done"}

OnceInv ==
  /\ evidence \in [Files -> Nat]
  /\ pc \in Labels
  /\ args \in Arguments
  /\ pc = "terminal" => seen \in TERMINAL_STATES \cup {"JOB_LOST"}
  /\ WrittenOnce
  /\ \A f \in Unwritten : evidence[f] = 0

LEMMA OnceInit == Init => OnceInv
  BY DEF Init, OnceInv, Labels, Unwritten, WrittenOnce

\* A step writes only what was not written yet.
LEMMA OnceStep == OnceInv /\ [Next]_vars => OnceInv'
  <1> SUFFICES ASSUME OnceInv, [Next]_vars PROVE OnceInv'
    OBVIOUS
  <1>t. evidence \in [Files -> Nat] /\ pc \in Labels /\ args \in Arguments
    BY DEF OnceInv
  <1>w. \A f \in Files : evidence[f] \in Nat /\ evidence[f] <= 1
    BY DEF OnceInv, WrittenOnce
  <1>f. Unwritten \subseteq Files
    BY DEF Unwritten, AfterPoll, Files
  \* A step to a label after which only files of its own are unwritten.
  <1>1. ASSUME NEW files \in SUBSET Files, Record(files), args' = args,
               pc' \in Labels, pc' = "terminal" => seen' \in TERMINAL_STATES \cup {"JOB_LOST"},
               \A f \in files : evidence[f] = 0,
               Unwritten' \subseteq Unwritten \ files
        PROVE  OnceInv'
    <2>1. /\ evidence' \in [Files -> Nat]
          /\ \A f \in Files : evidence'[f] = IF f \in files THEN evidence[f] + 1 ELSE evidence[f]
      BY <1>t, <1>1, RecordAdds
    <2>2. WrittenOnce'
      BY <1>w, <1>1, <2>1 DEF WrittenOnce
    <2>3. \A f \in Unwritten' : evidence'[f] = 0
      BY <1>f, <1>1, <2>1 DEF OnceInv
    <2>4. QED
      BY <1>t, <1>1, <2>1, <2>2, <2>3 DEF OnceInv
  <1>2. ASSUME UNCHANGED evidence PROVE Record({})
    BY <1>2, <1>t DEF Record
  <1>3. ASSUME NEW files \in SUBSET Unwritten PROVE \A f \in files : evidence[f] = 0
    BY DEF OnceInv
  <1>4. CASE ValidateArgs
    BY <1>1, <1>2, <1>4 DEF ValidateArgs, Report, Continue, NothingRecorded, Labels,
       Unwritten, Files, AfterPoll
  <1>5. CASE Upload
    <2>1. pc = "upload" /\ args' = args /\ pc' \in {"direct", "chat"} /\ Record({"upload_response"})
      BY <1>5, <1>t DEF Upload, Continue, Arguments
    <2>2. Unwritten = Files
      BY <2>1 DEF Unwritten
    <2>3. Unwritten' \subseteq Unwritten \ {"upload_response"}
      BY <2>1, <2>2 DEF Unwritten, Files, AfterPoll
    <2>4. QED
      BY <1>1, <1>3, <2>1, <2>2, <2>3 DEF Labels, Files
  <1>6. CASE RequestFails \/ Raises
    <2>1. PICK files \in {{}, AtHand} : Record(files)
      BY <1>6 DEF RequestFails, Raises
    <2>2. files \in SUBSET Files /\ \A f \in files : evidence[f] = 0
      <3>1. CASE pc \in {"upload", "chat"}
        <4>1. files \in SUBSET Unwritten
          BY <2>1, <3>1 DEF AtHand, Unwritten, Files
        <4>2. QED
          BY <1>3, <1>f, <4>1
      <3>2. CASE pc = "artifacts"
        <4>1. files \in SUBSET (Files \ Written)
          BY <2>1, <3>2 DEF AtHand, ReportFile, Files
        <4>2. QED
          BY <1>w, <4>1 DEF Written
      <3>3. CASE pc \notin {"upload", "chat", "artifacts"}
        BY <2>1, <3>3 DEF AtHand
      <3>4. QED
        BY <3>1, <3>2, <3>3
    <2>3. pc' = "done" /\ args' = args
      BY <1>6 DEF RequestFails, Raises, Report
    <2>4. Unwritten' = {}
      BY <2>3 DEF Unwritten
    <2>5. QED
      BY <1>1, <1>3, <1>f, <2>1, <2>2, <2>3, <2>4 DEF Labels
  <1>7. CASE Chat
    <2>1. PICK called \in BOOLEAN :
            /\ Record({"chat_request", "chat_response"}
                        \cup (IF called THEN {"tool_call"} ELSE {}))
            /\ Continue(IF called THEN "find" ELSE "untriggered")
      BY <1>7 DEF Chat
    <2> DEFINE files == {"chat_request", "chat_response"}
                          \cup (IF called THEN {"tool_call"} ELSE {})
    <2>2. pc = "chat" /\ args' = args /\ pc' \in {"find", "untriggered"}
      BY <1>7, <2>1 DEF Chat, Continue
    <2>3. files \in SUBSET Unwritten /\ Unwritten' \subseteq Unwritten \ files
      BY <2>2 DEF Unwritten, Files, AfterPoll
    <2>4. Record(files)
      BY <2>1
    <2>5. \A f \in files : evidence[f] = 0
      BY <1>3, <2>3
    <2> HIDE DEF files
    <2>6. QED
      BY <1>1, <1>f, <2>2, <2>3, <2>4, <2>5 DEF Labels
  <1>8. CASE FindSessionJob \/ Untriggered \/ StartDirect
    BY <1>1, <1>2, <1>8 DEF FindSessionJob, Untriggered, StartDirect, Report, Continue,
       NothingRecorded, Labels, Unwritten, Files, AfterPoll
  <1>9. ASSUME Return(seen'), pc = "poll", args' = args,
               seen' \in TERMINAL_STATES \cup {"JOB_LOST"}
        PROVE  OnceInv'
    <2>1. Record({"job_status"}) /\ pc' = "terminal"
      BY <1>9 DEF Return, Continue
    <2>2. {"job_status"} \subseteq Unwritten /\ Unwritten' \subseteq Unwritten \ {"job_status"}
      BY <1>9, <2>1 DEF Unwritten, AfterPoll
    <2>3. QED
      BY <1>1, <1>3, <1>9, <2>1, <2>2 DEF Labels, Files
  <1>10. ASSUME Continue("poll"), pc = "poll", args' = args, UNCHANGED evidence PROVE OnceInv'
    BY <1>1, <1>2, <1>10 DEF Continue, Labels, Unwritten
  <1>11. CASE PollAnswered
    BY <1>9, <1>10, <1>11 DEF PollAnswered, Return
  <1>12. CASE PollNotFound \/ PollError
    BY <1>9, <1>10, <1>12 DEF PollNotFound, PollError, Return
  <1>13. CASE PollTimeout
    BY <1>1, <1>2, <1>13 DEF PollTimeout, Report, NothingRecorded, Labels, Unwritten
  <1>14. CASE Terminal
    <2>1. pc = "terminal" /\ args' = args /\ UNCHANGED evidence /\ pc' \in {"done", "results"}
      BY <1>14 DEF Terminal, Report, Continue, NothingRecorded, OnceInv,
         TERMINAL_STATES, COMPLETED_STATES
    <2>2. QED
      BY <1>1, <1>2, <2>1 DEF Labels, Unwritten
  <1>15. CASE FetchResults
    <2>1. pc = "results" /\ args' = args /\ pc' = "bindings" /\ Record({"results"})
      BY <1>15 DEF FetchResults, Continue
    <2>2. {"results"} \subseteq Unwritten /\ Unwritten' \subseteq Unwritten \ {"results"}
      BY <2>1 DEF Unwritten, AfterPoll
    <2>3. QED
      BY <1>1, <1>3, <2>1, <2>2 DEF Labels, Files
  <1>16. CASE ResultsExpired \/ DownloadArtifacts \/ EvidenceExists
    BY <1>1, <1>2, <1>16 DEF ResultsExpired, DownloadArtifacts, EvidenceExists, Report,
       Continue, NothingRecorded, Labels, Unwritten, Files, AfterPoll
  <1>17. CASE VerifyBindings
    <2>1. CASE content.bound
      BY <1>1, <1>2, <1>17, <2>1 DEF VerifyBindings, Continue, NothingRecorded, Labels,
         Unwritten
    <2>2. CASE ~content.bound
      <3>1. pc = "bindings" /\ args' = args /\ pc' = "done" /\ Record({"acceptance_result"})
        BY <1>17, <2>2 DEF VerifyBindings, Report
      <3>2. {"acceptance_result"} \subseteq Unwritten /\ Unwritten' = {}
        BY <3>1 DEF Unwritten, AfterPoll
      <3>3. QED
        BY <1>1, <1>3, <3>1, <3>2 DEF Labels, Files
    <2>3. QED
      BY <2>1, <2>2
  <1>18. CASE ValidateArtifact
    <2> DEFINE files == ReportFile(Head(todo).kind)
    <2>1. pc = "artifacts" /\ pc' = "artifacts" /\ args' = args /\ Record(files)
          /\ files \cap Written = {}
      BY <1>18 DEF ValidateArtifact, Continue
    <2>2. files \in SUBSET {"report_xlsx", "report_md"}
      BY DEF ReportFile
    <2> HIDE DEF files
    <2>3. \A f \in files : evidence[f] = 0
      BY <1>w, <2>1, <2>2 DEF Written, Files
    <2>4. Unwritten' \subseteq Unwritten \ files
      BY <2>1, <2>2 DEF Unwritten
    <2>5. QED
      BY <1>1, <2>1, <2>2, <2>3, <2>4 DEF Labels, Files
  <1>19. CASE ArtifactsValidated
    <2>1. pc = "artifacts" /\ args' = args
      BY <1>19 DEF ArtifactsValidated
    <2>2. CASE problems
      <3>1. pc' = "done" /\ Record({"artifact_hashes", "acceptance_result"})
        BY <1>19, <2>2 DEF ArtifactsValidated, Report
      <3>2. {"artifact_hashes", "acceptance_result"} \subseteq Unwritten /\ Unwritten' = {}
        BY <2>1, <3>1 DEF Unwritten
      <3>3. QED
        BY <1>1, <1>3, <2>1, <3>1, <3>2 DEF Labels, Files
    <2>3. CASE ~problems
      <3>1. pc' = "accept" /\ Record({"artifact_hashes"})
        BY <1>19, <2>3 DEF ArtifactsValidated, Continue
      <3>2. {"artifact_hashes"} \subseteq Unwritten /\ Unwritten' \subseteq Unwritten \ {"artifact_hashes"}
        BY <2>1, <3>1 DEF Unwritten
      <3>3. QED
        BY <1>1, <1>3, <2>1, <3>1, <3>2 DEF Labels, Files
    <2>4. QED
      BY <2>2, <2>3
  <1>20. CASE Accept
    <2>1. pc = "accept" /\ args' = args /\ pc' = "done" /\ Record({"acceptance_result"})
      BY <1>20 DEF Accept, Report
    <2>2. {"acceptance_result"} \subseteq Unwritten /\ Unwritten' = {}
      BY <2>1 DEF Unwritten
    <2>3. QED
      BY <1>1, <1>3, <2>1, <2>2 DEF Labels, Files
  <1>21. CASE DeadlinePasses \/ Gateway \/ Done \/ UNCHANGED vars
    <2>1. UNCHANGED <<args, pc, seen, evidence>>
      BY <1>21 DEF DeadlinePasses, Gateway, Done, vars, pollVars
    <2>2. QED
      BY <2>1 DEF OnceInv, WrittenOnce, Unwritten
  <1>22. QED
    BY <1>4, <1>5, <1>6, <1>7, <1>8, <1>11, <1>12, <1>13, <1>14, <1>15, <1>16, <1>17,
       <1>18, <1>19, <1>20, <1>21 DEF Next, Harness

\* No evidence file is ever written twice: on no path does the protection of the
\* directory turn a run that could have been reported into an infrastructure error,
\* two reports of one kind excepted.
THEOREM EvidenceIsWrittenOnce == Spec => []WrittenOnce
  <1>1. Spec => []OnceInv
    BY OnceInit, OnceStep, PTL DEF Spec
  <1>2. OnceInv => WrittenOnce
    BY DEF OnceInv
  <1>3. QED
    BY <1>1, <1>2, PTL

-----------------------------------------------------------------------------
(* The verdict of the evidence directory and the outcome.                  *)

VerdictInv ==
  /\ OnceInv
  /\ pc # "done" => acceptance = "absent" /\ outcome = "none"
  /\ VerdictAgrees

LEMMA VerdictInit == Init => VerdictInv
  BY OnceInit DEF Init, VerdictInv, VerdictAgrees

LEMMA VerdictStep == VerdictInv /\ [Next]_vars => VerdictInv'
  <1> SUFFICES ASSUME VerdictInv, [Next]_vars PROVE VerdictInv'
    OBVIOUS
  <1>t. OnceInv /\ OnceInv'
    BY OnceStep DEF VerdictInv
  \* An exit without a verdict in the evidence, and a step that goes on.
  <1>1. ASSUME NEW o, Report(o), o \notin Success, acceptance' # "passed" PROVE VerdictInv'
    BY <1>1, <1>t DEF VerdictInv, VerdictAgrees, Report
  <1>2. ASSUME NEW label, Continue(label), label # "done", pc # "done",
               acceptance' = acceptance
        PROVE  VerdictInv'
    BY <1>2, <1>t DEF VerdictInv, VerdictAgrees, Continue
  <1>a. pc # "done" => acceptance # "passed"
    BY DEF VerdictInv
  <1>3. CASE ValidateArgs \/ RequestFails \/ Raises \/ Untriggered \/ PollTimeout \/ ResultsExpired
             \/ DownloadArtifacts \/ EvidenceExists
    <2>1. CASE ValidateArgs
      BY <1>1, <1>2, <1>a, <2>1 DEF ValidateArgs, NothingRecorded, Success
    <2>2. CASE RequestFails \/ Raises \/ PollTimeout \/ ResultsExpired \/ EvidenceExists
      BY <1>1, <1>a, <2>2 DEF RequestFails, Raises, PollTimeout, ResultsExpired, EvidenceExists,
         NothingRecorded, Success
    <2>3. CASE Untriggered \/ DownloadArtifacts
      BY <1>1, <1>2, <1>a, <2>3 DEF Untriggered, DownloadArtifacts, NothingRecorded, Success
    <2>4. QED
      BY <1>3, <2>1, <2>2, <2>3
  <1>4. CASE Upload
    BY <1>2, <1>4, <1>t DEF Upload, OnceInv, Arguments
  <1>5. CASE Chat \/ FindSessionJob \/ StartDirect \/ FetchResults \/ ValidateArtifact
    BY <1>2, <1>5 DEF Chat, FindSessionJob, StartDirect, FetchResults, ValidateArtifact,
       NothingRecorded, Continue
  <1>6. CASE PollAnswered \/ PollNotFound \/ PollError
    BY <1>2, <1>6 DEF PollAnswered, PollNotFound, PollError, Return
  <1>7. CASE Terminal
    BY <1>1, <1>2, <1>7, <1>a, <1>t DEF Terminal, NothingRecorded, OnceInv, Success,
       TERMINAL_STATES, COMPLETED_STATES
  <1>8. CASE VerifyBindings \/ ArtifactsValidated
    BY <1>1, <1>2, <1>8 DEF VerifyBindings, ArtifactsValidated, NothingRecorded, Success
  <1>9. CASE Accept
    <2>1. pc' = "done" /\ (acceptance' = "passed" <=> Accepted)
      BY <1>9 DEF Accept, Report
    <2>2. Accepted => outcome' \in Success
      BY <1>9 DEF Accept, Report, Success
    <2>3. ~Accepted => outcome' = "QUALIFICATION_INCOMPLETE"
      BY <1>9 DEF Accept, Report
    <2>4. QED
      BY <1>t, <2>1, <2>2, <2>3 DEF VerdictInv, VerdictAgrees, Success
  <1>10. CASE DeadlinePasses \/ Gateway \/ Done \/ UNCHANGED vars
    <2>1. UNCHANGED <<pc, acceptance, outcome>>
      BY <1>10 DEF DeadlinePasses, Gateway, Done, vars
    <2>2. QED
      BY <1>t, <2>1 DEF VerdictInv, VerdictAgrees
  <1>11. QED
    BY <1>3, <1>4, <1>5, <1>6, <1>7, <1>8, <1>9, <1>10 DEF Next, Harness

\* Whichever exit a run takes, acceptance_result.json says "passed" exactly when
\* the outcome reported to the caller is a success.
THEOREM VerdictIsReported == Spec => []VerdictAgrees
  <1>1. Spec => []VerdictInv
    BY VerdictInit, VerdictStep, PTL DEF Spec
  <1>2. VerdictInv => VerdictAgrees
    BY DEF VerdictInv
  <1>3. QED
    BY <1>1, <1>2, PTL

-----------------------------------------------------------------------------
(* The run implements EvidenceRun: a step that goes on collects, one that  *)
(* ends the run gives its verdict or leaves none.                          *)

LEMMA EvidenceGrows ==
  ASSUME OnceInv, OnceInv', [Next]_vars
  PROVE  Run!Write
  <1>t. /\ evidence \in [Files -> Nat] /\ evidence' \in [Files -> Nat]
        /\ \A f \in Files : evidence'[f] <= 1
    BY DEF OnceInv, WrittenOnce
  <1>1. ASSUME NEW files, Record(files) PROVE \A f \in Files : evidence[f] <= evidence'[f]
    <2>1. \A f \in Files : evidence'[f] = IF f \in files THEN evidence[f] + 1 ELSE evidence[f]
      BY <1>1, <1>t, RecordAdds
    <2>2. QED
      BY <1>t, <2>1
  <1>2. ASSUME evidence' = evidence PROVE \A f \in Files : evidence[f] <= evidence'[f]
    BY <1>2, <1>t
  <1>3. (\E files : Record(files)) \/ evidence' = evidence
    BY DEF Next, Harness, vars, ValidateArgs, Upload, RequestFails, Raises, Chat, FindSessionJob,
       Untriggered, StartDirect, PollAnswered, PollNotFound, PollError, PollTimeout,
       Terminal, FetchResults, ResultsExpired, VerifyBindings, DownloadArtifacts,
       EvidenceExists, ValidateArtifact, ArtifactsValidated, Accept, DeadlinePasses,
       Gateway, Done, NothingRecorded, Return
  <1>4. \A f \in Files : evidence[f] <= evidence'[f]
    BY <1>1, <1>2, <1>3
  <1>5. evidence' \in [Files -> 0 .. 1]
    BY <1>t
  <1>6. QED
    BY <1>4, <1>5 DEF Run!Write

\* What the last step of a run does to the verdict.
NoVerdict ==
  /\ outcome' \notin Success
  /\ acceptance' = acceptance
  /\ evidence'["acceptance_result"] = evidence["acceptance_result"]
GivenVerdict ==
  /\ acceptance' = IF outcome' \in Success THEN "passed" ELSE "failed"
  /\ evidence'["acceptance_result"] = evidence["acceptance_result"] + 1

LEMMA LastStep ==
  ASSUME VerdictInv, [Next]_vars, pc # "done", pc' = "done"
  PROVE  outcome' # "none" /\ (NoVerdict \/ GivenVerdict)
  <1>t. evidence \in [Files -> Nat] /\ "acceptance_result" \in Files
    BY DEF VerdictInv, OnceInv, Files
  <1>r. ASSUME NEW files, Record(files)
        PROVE  evidence'["acceptance_result"] =
                 IF "acceptance_result" \in files THEN evidence["acceptance_result"] + 1
                 ELSE evidence["acceptance_result"]
    BY <1>r, <1>t, RecordAdds
  <1>1. ASSUME NEW o, Report(o), o \notin Success, o # "none", NothingRecorded
        PROVE  outcome' # "none" /\ NoVerdict
    BY <1>1 DEF Report, NothingRecorded, NoVerdict
  <1>2. ASSUME NEW label, Continue(label), label # "done" PROVE FALSE
    BY <1>2 DEF Continue
  <1>3. CASE ValidateArgs \/ Untriggered \/ PollTimeout \/ ResultsExpired
             \/ DownloadArtifacts \/ EvidenceExists
    <2>1. CASE ValidateArgs
      BY <1>1, <1>2, <2>1 DEF ValidateArgs, Success
    <2>2. CASE Untriggered \/ DownloadArtifacts
      BY <1>1, <1>2, <2>2 DEF Untriggered, DownloadArtifacts, Success
    <2>3. CASE PollTimeout \/ ResultsExpired \/ EvidenceExists
      BY <1>1, <2>3 DEF PollTimeout, ResultsExpired, EvidenceExists, Success
    <2>4. QED
      BY <1>3, <2>1, <2>2, <2>3
  <1>4. CASE RequestFails \/ Raises
    <2>1. PICK files \in {{}, AtHand} : Record(files)
      BY <1>4 DEF RequestFails, Raises
    <2>r. "acceptance_result" \notin files
      BY <2>1 DEF AtHand, ReportFile
    <2>2. evidence'["acceptance_result"] = evidence["acceptance_result"]
      BY <1>r, <2>1, <2>r
    <2>3. QED
      BY <1>4, <2>2 DEF RequestFails, Raises, Report, NoVerdict, Success
  <1>5. CASE Upload
    BY <1>2, <1>5 DEF Upload, VerdictInv, OnceInv, Arguments
  <1>6. CASE Chat \/ FindSessionJob \/ StartDirect \/ FetchResults \/ ValidateArtifact
    BY <1>6 DEF Chat, FindSessionJob, StartDirect, FetchResults, ValidateArtifact, Continue
  <1>7. CASE PollAnswered \/ PollNotFound \/ PollError
    BY <1>2, <1>7 DEF PollAnswered, PollNotFound, PollError, Return
  <1>8. CASE Terminal
    BY <1>1, <1>2, <1>8 DEF Terminal, VerdictInv, OnceInv, Success, TERMINAL_STATES,
       COMPLETED_STATES
  <1>9. CASE VerifyBindings
    <2>1. CASE content.bound
      BY <1>2, <1>9, <2>1 DEF VerifyBindings
    <2>2. CASE ~content.bound
      <3>1. Report("BINDING_MISMATCH") /\ Record({"acceptance_result"}) /\ acceptance' = "failed"
        BY <1>9, <2>2 DEF VerifyBindings
      <3>2. QED
        BY <1>r, <3>1 DEF Report, GivenVerdict, Success
    <2>3. QED
      BY <2>1, <2>2
  <1>10. CASE ArtifactsValidated
    <2>1. CASE ~problems
      BY <1>2, <1>10, <2>1 DEF ArtifactsValidated
    <2>2. CASE problems
      <3>1. /\ Report("ARTIFACT_INVALID") /\ Record({"artifact_hashes", "acceptance_result"})
            /\ acceptance' = "failed"
        BY <1>10, <2>2 DEF ArtifactsValidated
      <3>2. QED
        BY <1>r, <3>1 DEF Report, GivenVerdict, Success
    <2>3. QED
      BY <2>1, <2>2
  <1>11. CASE Accept
    <2>1. Record({"acceptance_result"}) /\ acceptance' = IF Accepted THEN "passed" ELSE "failed"
      BY <1>11 DEF Accept
    <2>2. Accepted => outcome' \in Success
      BY <1>11 DEF Accept, Report, Success
    <2>3. ~Accepted => outcome' = "QUALIFICATION_INCOMPLETE"
      BY <1>11 DEF Accept, Report
    <2>4. evidence'["acceptance_result"] = evidence["acceptance_result"] + 1
      BY <1>r, <2>1
    <2>5. QED
      BY <2>1, <2>2, <2>3, <2>4 DEF GivenVerdict, Success
  <1>12. CASE DeadlinePasses \/ Gateway \/ Done \/ UNCHANGED vars
    BY <1>12 DEF DeadlinePasses, Gateway, Done, vars
  <1>13. QED
    BY <1>3, <1>4, <1>5, <1>6, <1>7, <1>8, <1>9, <1>10, <1>11, <1>12 DEF Next, Harness

\* A run that is done takes no further step.
LEMMA DoneStutters ==
  ASSUME [Next]_vars, pc = "done"
  PROVE  UNCHANGED <<evidence, acceptance, outcome>>
  BY DEF Next, Harness, vars, ValidateArgs, Upload, RequestFails, Raises, Chat, FindSessionJob,
     Untriggered, StartDirect, PollAnswered, PollNotFound, PollError, PollTimeout,
     Terminal, FetchResults, ResultsExpired, VerifyBindings, DownloadArtifacts,
     EvidenceExists, ValidateArtifact, ArtifactsValidated, Accept, DeadlinePasses,
     Gateway, Done

LEMMA RunStep == VerdictInv /\ VerdictInv' /\ [Next]_vars => [Run!Next]_(Run!vars)
  <1> SUFFICES ASSUME VerdictInv, VerdictInv', [Next]_vars PROVE [Run!Next]_(Run!vars)
    OBVIOUS
  <1>t. /\ OnceInv /\ OnceInv' /\ "acceptance_result" \in Files
        /\ evidence \in [Files -> Nat] /\ evidence' \in [Files -> Nat]
    BY DEF VerdictInv, OnceInv, Files
  <1>w. Run!Write
    BY <1>t, EvidenceGrows
  <1>e. /\ End = "running" <=> outcome = "none"
        /\ End' = "running" <=> outcome' = "none"
        /\ outcome' # "none" => End' = IF outcome' \in Success THEN "passed" ELSE "failed"
    BY DEF End, Success
  <1>1. pc # "done" => evidence["acceptance_result"] = 0 /\ outcome = "none"
    BY <1>t DEF VerdictInv, OnceInv, Labels, Unwritten, AfterPoll, Files
  <1>2. CASE pc = "done"
    <2>1. UNCHANGED <<evidence, acceptance, outcome>>
      BY <1>2, DoneStutters
    <2>2. End' = End
      BY <2>1 DEF End
    <2>3. QED
      BY <2>1, <2>2 DEF Run!vars
  <1>3. CASE pc # "done" /\ pc' # "done"
    <2>1. evidence'["acceptance_result"] = 0
      BY <1>t, <1>3 DEF OnceInv, Labels, Unwritten, AfterPoll, Files
    <2>2. outcome = "none" /\ outcome' = "none" /\ acceptance' = acceptance
      BY <1>3 DEF VerdictInv
    <2>3. ~Run!VerdictWritten
      BY <2>1 DEF Run!VerdictWritten
    <2>4. Run!Collect
      BY <1>e, <1>w, <2>2, <2>3 DEF Run!Collect
    <2>5. QED
      BY <2>4 DEF Run!Next
  <1>4. CASE pc # "done" /\ pc' = "done"
    <2>1. outcome = "none" /\ outcome' # "none" /\ (NoVerdict \/ GivenVerdict)
      BY <1>1, <1>4, LastStep
    <2>2. CASE NoVerdict
      <3>1. ~Run!VerdictWritten
        BY <1>1, <1>4, <2>2 DEF NoVerdict, Run!VerdictWritten
      <3>2. Run!Fail
        BY <1>e, <1>w, <2>1, <2>2, <3>1 DEF Run!Fail, NoVerdict
      <3>3. QED
        BY <3>2 DEF Run!Next
    <2>3. CASE GivenVerdict
      <3>1. Run!VerdictWritten
        BY <1>1, <1>4, <2>3 DEF GivenVerdict, Run!VerdictWritten
      <3>2. Run!Pass \/ Run!Fail
        BY <1>e, <1>w, <2>1, <2>3, <3>1 DEF Run!Pass, Run!Fail, GivenVerdict
      <3>3. QED
        BY <3>2 DEF Run!Next
    <2>4. QED
      BY <2>1, <2>2, <2>3
  <1>5. QED
    BY <1>2, <1>3, <1>4

\* Evidence, verdict and outcome of every run behave as EvidenceRun promises.
THEOREM RunImplements == Spec => ImplementsEvidenceRun
  <1>1. Init => Run!Init
    <2>1. outcome = "none" => End = "running"
      BY DEF End, Success
    <2>2. QED
      BY <2>1 DEF Init, Run!Init
  <1>2. Spec => []VerdictInv
    BY VerdictInit, VerdictStep, PTL DEF Spec
  <1>3. QED
    BY <1>1, <1>2, RunStep, PTL DEF Spec, ImplementsEvidenceRun, Run!Spec

-----------------------------------------------------------------------------
(* What a success has behind it. The facts are collected on the way: each  *)
(* label knows what the steps before it have established, and the loop over *)
(* the artifacts knows it of those that are no longer to do.               *)

Validated(a) ==
  /\ a.kind \in present
  /\ problems \/ ReportFile(a.kind) = {} \/ a.valid
  /\ ReportFile(a.kind) \subseteq Written

StageInv ==
  /\ pc \notin {"validate", "upload", "done"} => "upload_response" \in Written
  /\ pc \in {"terminal", "results", "bindings", "download", "artifacts", "accept"} =>
       "job_status" \in Written
  /\ pc \in {"results", "bindings", "download", "artifacts", "accept"} =>
       seen \in COMPLETED_STATES
  /\ pc \in {"bindings", "download", "artifacts", "accept"} => "results" \in Written
  /\ pc \in {"download", "artifacts", "accept"} => content.bound
  /\ pc \notin {"artifacts", "accept", "done"} => present = {}
  /\ pc \in {"artifacts", "accept"} =>
       /\ present \subseteq Kinds
       /\ Range(todo) \subseteq Range(content.artifacts)
       /\ \A a \in Range(content.artifacts) : a \in Range(todo) \/ Validated(a)
  /\ pc = "accept" => todo = <<>> /\ ~problems /\ "artifact_hashes" \in Written

SuccessInv ==
  /\ VerdictInv
  /\ content \in Contents \cup {NoContent}
  /\ todo \in Seq(Artifacts)
  /\ problems \in BOOLEAN
  /\ StageInv
  /\ SuccessMeansAccepted

LEMMA RangeMembers ==
  ASSUME NEW S, NEW s \in Seq(S)
  PROVE  \A x : x \in Range(s) <=> \E i \in 1 .. Len(s) : x = s[i]
  <1>1. DOMAIN s = 1 .. Len(s)
    BY LenProperties
  <1>2. QED
    BY <1>1 DEF Range

LEMMA HeadTailRange ==
  ASSUME NEW S, NEW s \in Seq(S), s # <<>>
  PROVE  /\ Tail(s) \in Seq(S)
         /\ Range(s) = {Head(s)} \cup Range(Tail(s))
  <1> DEFINE h == Head(s)
             t == Tail(s)
  <1>1. /\ t \in Seq(S) /\ Len(t) = Len(s) - 1
        /\ \A i \in 1 .. Len(t) : t[i] = s[i + 1]
    BY HeadTailProperties
  <1>2. h = s[1]
    OBVIOUS
  <1>3. Len(s) \in Nat \ {0}
    BY EmptySeq
  <1> HIDE DEF h, t
  <1>4. \A x : x \in Range(s) <=> \E i \in 1 .. Len(s) : x = s[i]
    BY RangeMembers
  <1>5. \A x : x \in Range(t) <=> \E i \in 1 .. Len(t) : x = t[i]
    BY <1>1, RangeMembers
  <1>6. ASSUME NEW i \in 1 .. Len(s) PROVE s[i] \in {h} \cup Range(t)
    <2>1. CASE i = 1
      BY <1>2, <2>1
    <2>2. CASE i # 1
      <3>1. i - 1 \in 1 .. Len(t) /\ t[i - 1] = s[i]
        BY <1>1, <1>3, <2>2
      <3>2. QED
        BY <1>5, <3>1
    <2>3. QED
      BY <2>1, <2>2
  <1>7. ASSUME NEW i \in 1 .. Len(t) PROVE t[i] \in Range(s)
    <2>1. i + 1 \in 1 .. Len(s)
      BY <1>1, <1>3
    <2>2. QED
      BY <1>1, <1>4, <2>1
  <1>8. h \in Range(s)
    BY <1>2, <1>3, <1>4
  <1>9. Range(s) = {h} \cup Range(t)
    BY <1>4, <1>5, <1>6, <1>7, <1>8
  <1>10. QED
    BY <1>1, <1>9 DEF h, t

LEMMA ArtifactsAreSeq ==
  ASSUME content \in Contents \cup {NoContent}
  PROVE  content.artifacts \in Seq(Artifacts)
  <1>1. <<>> \in Seq(Artifacts)
    BY EmptySeq
  <1>2. CASE content \in Contents
    <2>1. content.artifacts \in ArtifactLists
      BY <1>2 DEF Contents
    <2>2. QED
      BY <2>1, QualifyAssumption
  <1>3. CASE content = NoContent
    BY <1>1, <1>3 DEF NoContent
  <1>4. QED
    BY <1>2, <1>3

LEMMA WrittenGrows ==
  ASSUME OnceInv, [Next]_vars
  PROVE  Written \subseteq Written'
  <1>t. evidence \in [Files -> Nat]
    BY DEF OnceInv
  <1>1. ASSUME NEW files, Record(files) PROVE Written \subseteq Written'
    BY <1>1, <1>t, RecordAdds
  <1>2. ASSUME evidence' = evidence PROVE Written \subseteq Written'
    BY <1>2 DEF Written
  <1>3. (\E files : Record(files)) \/ evidence' = evidence
    BY DEF Next, Harness, vars, ValidateArgs, Upload, RequestFails, Raises, Chat, FindSessionJob,
       Untriggered, StartDirect, PollAnswered, PollNotFound, PollError, PollTimeout,
       Terminal, FetchResults, ResultsExpired, VerifyBindings, DownloadArtifacts,
       EvidenceExists, ValidateArtifact, ArtifactsValidated, Accept, DeadlinePasses,
       Gateway, Done, NothingRecorded, Return
  <1>4. QED
    BY <1>1, <1>2, <1>3

LEMMA SuccessInit == Init => SuccessInv
  <1> SUFFICES ASSUME Init PROVE SuccessInv
    OBVIOUS
  <1>1. <<>> \in Seq(Artifacts)
    BY EmptySeq
  <1>2. StageInv
    BY DEF Init, StageInv
  <1>3. QED
    BY <1>1, <1>2, VerdictInit DEF Init, SuccessInv, SuccessMeansAccepted, Success

LEMMA SuccessStep == SuccessInv /\ [Next]_vars => SuccessInv'
  <1> SUFFICES ASSUME SuccessInv, [Next]_vars PROVE SuccessInv'
    OBVIOUS
  <1>t. /\ content \in Contents \cup {NoContent} /\ todo \in Seq(Artifacts)
        /\ problems \in BOOLEAN /\ StageInv /\ VerdictInv'
        /\ evidence \in [Files -> Nat] /\ args \in Arguments /\ pc \in Labels
        /\ Written \subseteq Written'
        /\ pc # "done" => outcome = "none"
    BY VerdictStep, WrittenGrows DEF SuccessInv, VerdictInv, OnceInv
  <1> DEFINE Typed == /\ content \in Contents \cup {NoContent} /\ todo \in Seq(Artifacts)
                      /\ problems \in BOOLEAN
  \* A step that leaves the job and its artifacts alone and goes on.
  <1>1. ASSUME NEW label, Continue(label), pc # "done", Typed', StageInv'
        PROVE  SuccessInv'
    BY <1>1, <1>t DEF SuccessInv, SuccessMeansAccepted, Continue, Success
  <1>2. ASSUME NEW o, Report(o), o \notin Success, Typed' PROVE SuccessInv'
    <2>1. StageInv'
      BY <1>2 DEF Report, StageInv
    <2>2. QED
      BY <1>2, <1>t, <2>1 DEF SuccessInv, SuccessMeansAccepted, Report
  <1>3. UNCHANGED artifactVars => Typed'
    BY <1>t DEF artifactVars
  <1> HIDE DEF Typed
  <1>4. CASE ValidateArgs
    <2>1. UNCHANGED artifactVars /\ pc = "validate"
      BY <1>4 DEF ValidateArgs
    <2>2. CASE Continue("upload")
      <3>1. StageInv'
        BY <1>t, <2>1, <2>2 DEF Continue, StageInv, artifactVars
      <3>2. QED
        BY <1>1, <1>3, <2>1, <2>2, <3>1
    <2>3. CASE Report("CONFIGURATION_ERROR")
      BY <1>2, <1>3, <2>1, <2>3 DEF Success
    <2>4. QED
      BY <1>4, <2>2, <2>3 DEF ValidateArgs
  <1>5. CASE Upload
    <2>1. /\ UNCHANGED artifactVars /\ pc = "upload" /\ Continue(args.mode)
          /\ args.mode \in {"direct", "chat"} /\ Record({"upload_response"})
      BY <1>5, <1>t DEF Upload, Arguments
    <2>2. "upload_response" \in Written'
      BY <1>t, <2>1, RecordAdds DEF Files
    <2>3. StageInv'
      BY <1>t, <2>1, <2>2 DEF Continue, StageInv, artifactVars
    <2>4. QED
      BY <1>1, <1>3, <2>1, <2>3
  <1>6. CASE RequestFails \/ Raises \/ PollTimeout \/ ResultsExpired \/ EvidenceExists
    <2>1. UNCHANGED artifactVars
      BY <1>6 DEF RequestFails, Raises, PollTimeout, ResultsExpired, EvidenceExists
    <2>2. QED
      BY <1>2, <1>3, <1>6, <2>1 DEF RequestFails, Raises, PollTimeout, ResultsExpired,
         EvidenceExists, Success
  <1>7. CASE Chat \/ FindSessionJob \/ StartDirect
    <2>1. /\ UNCHANGED artifactVars /\ pc \in {"chat", "find", "direct"}
          /\ \E label \in {"find", "untriggered", "poll"} : Continue(label)
      BY <1>7 DEF Chat, FindSessionJob, StartDirect
    <2>2. StageInv'
      BY <1>t, <2>1 DEF Continue, StageInv, artifactVars
    <2>3. QED
      BY <1>1, <1>3, <2>1, <2>2
  <1>8. CASE Untriggered
    <2>1. UNCHANGED artifactVars /\ pc = "untriggered"
      BY <1>8 DEF Untriggered
    <2>2. CASE Continue("direct")
      <3>1. StageInv'
        BY <1>t, <2>1, <2>2 DEF Continue, StageInv, artifactVars
      <3>2. QED
        BY <1>1, <1>3, <2>1, <2>2, <3>1
    <2>3. CASE Report("CHAT_TOOL_NOT_TRIGGERED")
      BY <1>2, <1>3, <2>1, <2>3 DEF Success
    <2>4. QED
      BY <1>8, <2>2, <2>3 DEF Untriggered
  <1>9. CASE PollAnswered \/ PollNotFound \/ PollError
    <2>1. UNCHANGED artifactVars /\ pc = "poll"
      BY <1>9 DEF PollAnswered, PollNotFound, PollError
    <2>2. CASE Continue("poll")
      <3>1. StageInv'
        BY <1>t, <2>1, <2>2 DEF Continue, StageInv, artifactVars
      <3>2. QED
        BY <1>1, <1>3, <2>1, <2>2, <3>1
    <2>3. CASE Continue("terminal") /\ Record({"job_status"})
      <3>1. "job_status" \in Written'
        BY <1>t, <2>3, RecordAdds DEF Files
      <3>2. StageInv'
        BY <1>t, <2>1, <2>3, <3>1 DEF Continue, StageInv, artifactVars
      <3>3. QED
        BY <1>1, <1>3, <2>1, <2>3, <3>2
    <2>4. QED
      BY <1>9, <2>2, <2>3 DEF PollAnswered, PollNotFound, PollError, Return
  <1>10. CASE Terminal
    <2>1. /\ UNCHANGED artifactVars /\ pc = "terminal" /\ seen' = seen
          /\ seen \in TERMINAL_STATES \cup {"JOB_LOST"}
      BY <1>10 DEF Terminal, pollVars, SuccessInv, VerdictInv, OnceInv
    <2>2. CASE seen \in COMPLETED_STATES
      <3>1. Continue("results")
        BY <1>10, <2>2 DEF Terminal, COMPLETED_STATES
      <3>2. StageInv'
        BY <1>t, <2>1, <2>2, <3>1 DEF Continue, StageInv, artifactVars
      <3>3. QED
        BY <1>1, <1>3, <2>1, <3>1, <3>2
    <2>3. CASE seen \notin COMPLETED_STATES
      <3>1. \E o \in {"JOB_LOST", "JOB_FAILED", "JOB_CANCELLED", "JOB_EXPIRED"} : Report(o)
        BY <1>10, <2>1, <2>3 DEF Terminal, TERMINAL_STATES, COMPLETED_STATES
      <3>2. QED
        BY <1>2, <1>3, <2>1, <3>1 DEF Success
    <2>4. QED
      BY <2>2, <2>3
  <1>11. CASE FetchResults
    <2>1. /\ pc = "results" /\ Continue("bindings") /\ Record({"results"})
          /\ content' \in Contents /\ UNCHANGED <<pollVars, todo, problems, present>>
      BY <1>11 DEF FetchResults
    <2>2. Typed'
      BY <1>t, <2>1 DEF Typed
    <2>3. "results" \in Written'
      BY <1>t, <2>1, RecordAdds DEF Files
    <2>4. StageInv'
      BY <1>t, <2>1, <2>3 DEF Continue, StageInv, pollVars
    <2>5. QED
      BY <1>1, <2>1, <2>2, <2>4
  <1>12. CASE VerifyBindings
    <2>1. UNCHANGED <<artifactVars, pollVars>> /\ pc = "bindings"
      BY <1>12 DEF VerifyBindings
    <2>2. CASE content.bound
      <3>1. Continue("download")
        BY <1>12, <2>2 DEF VerifyBindings
      <3>2. StageInv'
        BY <1>t, <2>1, <2>2, <3>1 DEF Continue, StageInv, artifactVars, pollVars
      <3>3. QED
        BY <1>1, <1>3, <2>1, <3>1, <3>2
    <2>3. CASE ~content.bound
      BY <1>2, <1>3, <1>12, <2>1, <2>3 DEF VerifyBindings, Success
    <2>4. QED
      BY <2>2, <2>3
  <1>13. CASE DownloadArtifacts
    <2>1. /\ pc = "download" /\ todo' = content.artifacts
          /\ UNCHANGED <<pollVars, content, problems, present>>
          /\ Continue("artifacts") \/ Report("ARTIFACT_INVALID")
      BY <1>13 DEF DownloadArtifacts
    <2>2. Typed'
      BY <1>t, <2>1, ArtifactsAreSeq DEF Typed
    <2>3. CASE Continue("artifacts")
      <3>1. StageInv'
        BY <1>t, <2>1, <2>3 DEF Continue, StageInv, pollVars, Validated, Kinds
      <3>2. QED
        BY <1>1, <2>1, <2>2, <2>3, <3>1
    <2>4. CASE Report("ARTIFACT_INVALID")
      BY <1>2, <2>2, <2>4 DEF Success
    <2>5. QED
      BY <2>1, <2>3, <2>4
  <1>14. CASE ValidateArtifact
    <2>0. PICK a : a = Head(todo)
      OBVIOUS
    <2>1. /\ pc = "artifacts" /\ todo # <<>> /\ Continue("artifacts")
          /\ Record(ReportFile(a.kind)) /\ problems' = InvalidReport(a)
          /\ present' = present \cup {a.kind} /\ todo' = Tail(todo)
          /\ UNCHANGED <<pollVars, content>>
      BY <1>14, <2>0 DEF ValidateArtifact
    <2>2. Tail(todo) \in Seq(Artifacts) /\ Range(todo) = {a} \cup Range(Tail(todo))
      BY <1>t, <2>0, <2>1, HeadTailRange
    <2>3. Written' = Written \cup ReportFile(a.kind)
      <3>1. ReportFile(a.kind) \subseteq Files
        BY DEF ReportFile, Files
      <3>2. QED
        BY <1>t, <2>1, <3>1, RecordAdds
    <2>4. problems' \in BOOLEAN
      BY <1>t, <2>1 DEF InvalidReport
    <2>5. problems' = (problems \/ (ReportFile(a.kind) # {} /\ ~a.valid))
      BY <2>1 DEF InvalidReport
    <2>6. Validated(a)'
      BY <2>1, <2>3, <2>5 DEF Validated
    <2>7. \A b : Validated(b) => Validated(b)'
      BY <2>1, <2>3, <2>5 DEF Validated
    <2>8. present' \subseteq Kinds
      BY <1>t, <2>1, <2>2 DEF StageInv, Kinds
    <2>9. \A b \in Range(content.artifacts) : b \in Range(todo') \/ Validated(b)'
      BY <1>t, <2>1, <2>2, <2>6, <2>7 DEF StageInv
    <2>10. Typed'
      BY <1>t, <2>1, <2>2, <2>4 DEF Typed
    <2>11. StageInv'
      BY <1>t, <2>1, <2>2, <2>3, <2>8, <2>9 DEF Continue, StageInv, pollVars, Kinds
    <2>12. QED
      BY <1>1, <2>1, <2>10, <2>11
  <1>15. CASE ArtifactsValidated
    <2>1. UNCHANGED <<artifactVars, pollVars>> /\ pc = "artifacts" /\ todo = <<>>
      BY <1>15 DEF ArtifactsValidated
    <2>2. CASE problems
      BY <1>2, <1>3, <1>15, <2>1, <2>2 DEF ArtifactsValidated, Success
    <2>3. CASE ~problems
      <3>1. Continue("accept") /\ Record({"artifact_hashes"})
        BY <1>15, <2>3 DEF ArtifactsValidated
      <3>2. "artifact_hashes" \in Written'
        BY <1>t, <3>1, RecordAdds DEF Files
      <3>3. \A a : Validated(a) => Validated(a)'
        BY <1>t, <2>1 DEF artifactVars, Validated
      <3>4. StageInv'
        BY <1>t, <2>1, <2>3, <3>1, <3>2, <3>3 DEF Continue, StageInv, artifactVars, pollVars, Kinds
      <3>5. QED
        BY <1>1, <1>3, <2>1, <3>1, <3>4
    <2>4. QED
      BY <2>2, <2>3
  <1>16. CASE Accept
    <2>1. /\ UNCHANGED <<args, artifactVars, pollVars>> /\ pc = "accept" /\ pc' = "done"
          /\ Record({"acceptance_result"})
      BY <1>16 DEF Accept, Report
    <2>2. "acceptance_result" \in Written'
      BY <1>t, <2>1, RecordAdds DEF Files
    <2>3. outcome' \in Success => Accepted
      BY <1>16 DEF Accept, Report, Success
    <2>4. Range(todo) = {}
      <3>1. todo = <<>>
        BY <1>t, <2>1 DEF StageInv
      <3>2. QED
        BY <3>1 DEF Range
    <2>5. \A a \in Range(content.artifacts) :
            (ReportFile(a.kind) # {} => a.valid) /\ ReportFile(a.kind) \subseteq Written
      BY <1>t, <2>1, <2>4 DEF StageInv, Validated
    <2>6. SuccessMeansAccepted'
      BY <1>t, <2>1, <2>2, <2>3, <2>5
         DEF SuccessMeansAccepted, Accepted, StageInv, Kinds, artifactVars, pollVars
    <2>7. StageInv'
      BY <2>1 DEF StageInv
    <2>8. Typed'
      BY <1>3, <2>1
    <2>9. QED
      BY <1>t, <2>6, <2>7, <2>8 DEF SuccessInv, Typed
  <1>17. CASE DeadlinePasses \/ Gateway \/ Done \/ UNCHANGED vars
    <2>1. UNCHANGED <<args, pc, seen, artifactVars, evidence, outcome>>
      BY <1>17 DEF DeadlinePasses, Gateway, Done, vars, pollVars
    <2>2. Typed'
      BY <1>3, <2>1
    <2>3. StageInv'
      BY <1>t, <2>1 DEF StageInv, Validated, Kinds, Written, artifactVars
    <2>4. SuccessMeansAccepted'
      BY <2>1 DEF SuccessInv, SuccessMeansAccepted, Kinds, Written, artifactVars
    <2>5. QED
      BY <1>t, <2>2, <2>3, <2>4 DEF SuccessInv, Typed
  <1>18. QED
    BY <1>4, <1>5, <1>6, <1>7, <1>8, <1>9, <1>10, <1>11, <1>12, <1>13, <1>14, <1>15,
       <1>16, <1>17 DEF Next, Harness

\* A success is reported only for an accepted job, whose bindings, results and
\* reports were all found good and whose evidence is complete.
THEOREM SuccessIsAccepted == Spec => []SuccessMeansAccepted
  <1>1. Spec => []SuccessInv
    BY SuccessInit, SuccessStep, PTL DEF Spec
  <1>2. SuccessInv => SuccessMeansAccepted
    BY DEF SuccessInv
  <1>3. QED
    BY <1>1, <1>2, PTL

-----------------------------------------------------------------------------
(* Type correctness. The newest job exists because jobs are numbered: a set *)
(* of numbers up to MaxJobs has a greatest one.                            *)

LEMMA LeastNatural ==
  ASSUME NEW T, T \subseteq Nat, T # {}
  PROVE  \E x \in T : \A y \in T : x <= y
  <1> DEFINE R == {p \in Nat \X Nat : p[1] < p[2]}
  <1>1. IsWellFoundedOn(R, Nat)
    BY NatLessThanWellFounded DEF OpToRel
  <1>2. \A x, y \in Nat : y < x => <<y, x>> \in R
    OBVIOUS
  <1> HIDE DEF R
  <1>3. PICK x \in T : \A y \in T : ~(<<y, x>> \in R)
    BY <1>1, WFMin
  <1>4. ASSUME NEW y \in T PROVE x <= y
    <2>1. x \in Nat /\ y \in Nat
      OBVIOUS
    <2>2. ~(y < x)
      BY <1>2, <1>3, <2>1
    <2>3. QED
      BY <2>1, <2>2
  <1>5. QED
    BY <1>4

LEMMA GreatestElement ==
  ASSUME NEW n \in Nat, NEW T, T \subseteq 1 .. n, T # {}
  PROVE  \E x \in T : \A y \in T : y <= x
  <1>1. \A x \in T : x \in Int /\ n - x \in Nat
    <2>1. \A x \in 1 .. n : x \in Int /\ n - x \in Nat
      OBVIOUS
    <2>2. QED
      BY <2>1
  <1> DEFINE U == {n - x : x \in T}
  <1>2. U \subseteq Nat /\ U # {}
    BY <1>1
  <1>3. PICK u \in U : \A v \in U : u <= v
    <2> HIDE DEF U
    <2>2. QED
      BY <1>2, LeastNatural
  <1>4. PICK x \in T : u = n - x
    BY <1>3
  <1>5. ASSUME NEW y \in T PROVE y <= x
    <2>1. u <= n - y
      BY <1>3
    <2>2. x \in Int /\ y \in Int
      BY <1>1
    <2>3. QED
      BY <1>4, <2>1, <2>2
  <1>6. QED
    BY <1>5

LEMMA NewestIsKnown ==
  ASSUME Known # {}
  PROVE  NewestJob \in Known
  <1> DEFINE running == {j \in Known : jobs[j] \notin TERMINAL_STATES}
             pool == IF running # {} THEN running ELSE Known
  <1>1. pool # {} /\ pool \subseteq Known
    OBVIOUS
  <1>2. Known \subseteq 1 .. MaxJobs
    BY DEF Known, Jobs
  <1>3. NewestJob = CHOOSE j \in pool : \A i \in pool : i <= j
    BY DEF NewestJob
  <1> HIDE DEF pool
  <1>4. \E j \in pool : \A i \in pool : i <= j
    BY <1>1, <1>2, QualifyAssumption, GreatestElement
  <1>5. NewestJob \in pool
    BY <1>3, <1>4
  <1>6. QED
    BY <1>1, <1>5

\* Polling goes on only while there were fewer errors in a row than the limit.
TypeInv ==
  /\ SuccessInv
  /\ TypeOK
  /\ pc \in {"validate", "upload", "chat", "find", "untriggered", "direct"} => errors = 0
  /\ pc = "poll" => errors < MaxPollErrors

LEMMA TypeInit == Init => TypeInv
  <1> SUFFICES ASSUME Init PROVE TypeInv
    OBVIOUS
  <1>1. SuccessInv /\ OnceInv
    BY SuccessInit, OnceInit
  <1>b. toolCall \in BOOLEAN /\ fallback \in BOOLEAN /\ late \in BOOLEAN /\ problems \in BOOLEAN
    BY DEF Init
  <1>e. errors \in 0 .. MaxPollErrors /\ jobs \in [Jobs -> JobStates]
    BY QualifyAssumption DEF Init, JobStates
  <1>2. TypeOK
    BY <1>1, <1>b, <1>e DEF Init, TypeOK, SuccessInv, OnceInv
  <1>3. QED
    BY <1>1, <1>2, QualifyAssumption DEF Init, TypeInv

LEMMA TypeStep == TypeInv /\ [Next]_vars => TypeInv'
  <1> SUFFICES ASSUME TypeInv, [Next]_vars PROVE TypeInv'
    OBVIOUS
  <1>s. SuccessInv /\ SuccessInv'
    BY SuccessStep DEF TypeInv
  <1>t. /\ args \in Arguments /\ pc \in Labels /\ jobs \in [Jobs -> JobStates]
        /\ job \in Jobs \cup {NoJob} /\ toolCall \in BOOLEAN /\ fallback \in BOOLEAN
        /\ errors \in 0 .. MaxPollErrors /\ late \in BOOLEAN
        /\ seen \in TERMINAL_STATES \cup {"JOB_LOST", "unknown"}
        /\ todo \in Seq(Artifacts) /\ present \subseteq ArtifactKinds
        /\ acceptance \in {"absent", "passed", "failed"}
        /\ outcome \in Outcomes \cup {"none"}
    BY DEF TypeInv, TypeOK, Labels
  <1>a. MaxPollErrors \in Nat \ {0} /\ MaxJobs \in Nat
    BY QualifyAssumption
  \* What the other invariants already say of the next state.
  <1>o. /\ args' \in Arguments /\ pc' \in Labels /\ evidence' \in [Files -> Nat]
        /\ content' \in Contents \cup {NoContent} /\ todo' \in Seq(Artifacts)
        /\ problems' \in BOOLEAN
    BY <1>s DEF SuccessInv, VerdictInv, OnceInv
  <1> DEFINE Gate == jobs' \in [Jobs -> JobStates]
             Choice == /\ toolCall' \in BOOLEAN /\ fallback' \in BOOLEAN
                       /\ job' \in Jobs \cup {NoJob}
             Poll == /\ errors' \in 0 .. MaxPollErrors /\ late' \in BOOLEAN
                     /\ seen' \in TERMINAL_STATES \cup {"JOB_LOST", "unknown"}
                     /\ pc' \in {"validate", "upload", "chat", "find", "untriggered", "direct"}
                          => errors' = 0
                     /\ pc' = "poll" => errors' < MaxPollErrors
             Exits == /\ present' \subseteq ArtifactKinds
                      /\ acceptance' \in {"absent", "passed", "failed"}
                      /\ outcome' \in Outcomes \cup {"none"}
  <1>1. ASSUME Gate, Choice, Poll, Exits PROVE TypeInv'
    BY <1>1, <1>s, <1>o DEF TypeInv, TypeOK, Labels
  <1>n. \A n : WithNewJobs(n) \in [Jobs -> JobStates]
    BY <1>t DEF WithNewJobs, JobStates
  <1>g. Next => Gate
    <2>1. CASE Gateway
      BY <1>t, <2>1 DEF Gateway, JobEnds, JobExpires, RegistryRestart, JobStates, TERMINAL_STATES
    <2>2. CASE RequestFails \/ Chat \/ StartDirect
      BY <1>n, <2>2 DEF RequestFails, Chat, StartDirect
    <2>3. CASE UNCHANGED jobs
      BY <1>t, <2>3
    <2>4. QED
      BY <2>1, <2>2, <2>3 DEF Next, Harness, ValidateArgs, Upload, Raises, FindSessionJob,
         Untriggered, PollAnswered, PollNotFound, PollError, PollTimeout, Terminal, FetchResults,
         ResultsExpired, VerifyBindings, DownloadArtifacts, EvidenceExists, ValidateArtifact,
         ArtifactsValidated, Accept, DeadlinePasses, Done, vars
  <1>c. Next => Choice
    <2>1. CASE FindSessionJob
      BY <1>t, <2>1, NewestIsKnown DEF FindSessionJob, Known
    <2>2. CASE StartDirect
      <3>1. Cardinality(Created) \in Nat
        <4>1. Created \in SUBSET (1 .. MaxJobs)
          BY DEF Created, Jobs
        <4>2. QED
          <5>1. IsFiniteSet(1 .. MaxJobs)
            BY <1>a, FS_Interval
          <5>2. IsFiniteSet(Created)
            BY <4>1, <5>1, FS_Subset
          <5>3. QED
            BY <5>2, FS_CardinalityType
      <3>2. Cardinality(Created) + 1 \in Jobs
        BY <1>a, <2>2, <3>1 DEF StartDirect, RoomFor, Jobs
      <3>3. QED
        BY <1>t, <2>2, <3>2 DEF StartDirect
    <2>3. CASE Chat \/ Untriggered
      BY <1>t, <2>3 DEF Chat, Untriggered
    <2>4. CASE UNCHANGED <<toolCall, job, fallback>>
      BY <1>t, <2>4
    <2>5. QED
      BY <2>1, <2>2, <2>3, <2>4 DEF Next, Harness, ValidateArgs, Upload, RequestFails, Raises,
         PollAnswered, PollNotFound, PollError, PollTimeout, Terminal, FetchResults,
         ResultsExpired, VerifyBindings, DownloadArtifacts, EvidenceExists, ValidateArtifact,
         ArtifactsValidated, Accept, DeadlinePasses, Done, Gateway, vars
  <1>p. Next => Poll
    <2>l. /\ pc = "poll" => errors + 1 <= MaxPollErrors
          /\ pc \in {"validate", "upload", "chat", "find", "untriggered", "direct"} => errors = 0
          /\ pc = "poll" => errors < MaxPollErrors
      BY <1>t, <1>a DEF TypeInv
    <2>1. CASE PollAnswered
      BY <1>t, <1>a, <2>1 DEF PollAnswered, Return, Continue
    <2>2. CASE PollNotFound
      BY <1>t, <1>a, <2>2 DEF PollNotFound, Return, Continue
    <2>3. CASE PollError
      <3>1. errors' = errors + 1 /\ late' = late
            /\ \/ errors' >= MaxPollErrors /\ seen' = "JOB_LOST" /\ pc' = "terminal"
               \/ ~(errors' >= MaxPollErrors) /\ seen' = seen /\ pc' = "poll"
        BY <2>3 DEF PollError, Return, Continue
      <3>2. QED
        BY <1>t, <1>a, <2>l, <2>3, <3>1 DEF PollError
    <2>4. CASE DeadlinePasses
      BY <1>t, <1>a, <2>l, <2>4 DEF DeadlinePasses
    <2>5. ASSUME UNCHANGED pollVars,
                 \/ pc' = pc
                 \/ pc \in {"validate", "upload", "chat", "find", "untriggered", "direct"}
                 \/ pc' \in {"terminal", "results", "bindings", "download", "artifacts",
                             "accept", "done"}
          PROVE  Poll
      BY <1>t, <1>a, <2>l, <2>5 DEF pollVars
    <2>6. CASE ValidateArgs \/ Upload \/ RequestFails \/ Raises \/ Chat \/ FindSessionJob
               \/ Untriggered \/ StartDirect
      <3>1. UNCHANGED pollVars
        BY <2>6 DEF ValidateArgs, Upload, RequestFails, Raises, Chat, FindSessionJob, Untriggered,
           StartDirect
      <3>2. \/ pc \in {"validate", "upload", "chat", "find", "untriggered", "direct"}
            \/ pc' = "done"
        BY <2>6 DEF ValidateArgs, Upload, RequestFails, Raises, Chat, FindSessionJob, Untriggered,
           StartDirect, Report
      <3>3. QED
        BY <2>5, <3>1, <3>2
    <2>7. CASE PollTimeout \/ Terminal \/ FetchResults \/ ResultsExpired \/ VerifyBindings
               \/ DownloadArtifacts \/ EvidenceExists \/ ValidateArtifact \/ ArtifactsValidated
               \/ Accept
      <3>1. UNCHANGED pollVars
        BY <2>7 DEF PollTimeout, Terminal, FetchResults, ResultsExpired, VerifyBindings,
           DownloadArtifacts, EvidenceExists, ValidateArtifact, ArtifactsValidated, Accept
      <3>2. pc' \in {"results", "bindings", "download", "artifacts", "accept", "done"}
        <4>1. CASE Terminal
          <5>1. seen \in TERMINAL_STATES \cup {"JOB_LOST"}
            BY <1>s, <4>1 DEF Terminal, SuccessInv, VerdictInv, OnceInv
          <5>2. QED
            BY <4>1, <5>1 DEF Terminal, Report, Continue, TERMINAL_STATES, COMPLETED_STATES
        <4>2. CASE ~Terminal
          BY <2>7, <4>2 DEF PollTimeout, FetchResults, ResultsExpired, VerifyBindings,
             DownloadArtifacts, EvidenceExists, ValidateArtifact, ArtifactsValidated, Accept,
             Report, Continue
        <4>3. QED
          BY <4>1, <4>2
      <3>3. QED
        BY <2>5, <3>1, <3>2
    <2>8. CASE Gateway \/ Done
      <3>1. UNCHANGED <<pc, pollVars>>
        BY <2>8 DEF Gateway, Done, vars
      <3>2. QED
        BY <2>5, <3>1
    <2>9. QED
      BY <2>1, <2>2, <2>3, <2>4, <2>6, <2>7, <2>8 DEF Next, Harness
  <1>e. Next => Exits
    <2>1. ASSUME UNCHANGED <<present, acceptance>>,
                 UNCHANGED outcome \/ \E o \in Outcomes : Report(o)
          PROVE  Exits
      BY <1>t, <2>1 DEF Report
    <2>2. Success \cup {"QUALIFICATION_INCOMPLETE", "CHAT_TOOL_NOT_TRIGGERED", "JOB_FAILED",
                       "JOB_CANCELLED", "JOB_EXPIRED", "JOB_LOST", "TIMEOUT",
                       "ARTIFACT_INVALID", "CONFIGURATION_ERROR", "BINDING_MISMATCH",
                       "INFRASTRUCTURE_ERROR"} \subseteq Outcomes
      BY DEF Outcomes, ExitCode, Success
    <2>3. CASE ValidateArtifact
      <3>1. Head(todo).kind \in ArtifactKinds
        <4>1. todo # <<>>
          BY <2>3 DEF ValidateArtifact
        <4>2. Head(todo) \in Artifacts
          BY <1>t, <4>1, HeadTailProperties
        <4>3. QED
          BY <4>2 DEF Artifacts
      <3>2. QED
        BY <1>t, <2>3, <3>1 DEF ValidateArtifact, Continue
    <2>4. CASE VerifyBindings \/ ArtifactsValidated
      BY <1>t, <2>2, <2>4 DEF VerifyBindings, ArtifactsValidated, Report, Continue,
         NothingRecorded, artifactVars
    <2>5. CASE Accept
      <3>1. present' = present /\ acceptance' \in {"passed", "failed"}
        BY <2>5 DEF Accept, artifactVars
      <3>2. outcome' \in Success \cup {"QUALIFICATION_INCOMPLETE"}
        BY <2>5 DEF Accept, Report, Success
      <3>3. QED
        BY <1>t, <2>2, <3>1, <3>2
    <2>6. CASE Terminal
      <3>1. seen \in TERMINAL_STATES \cup {"JOB_LOST"}
        BY <1>s, <2>6 DEF Terminal, SuccessInv, VerdictInv, OnceInv
      <3>2. UNCHANGED <<present, acceptance>>
        BY <2>6 DEF Terminal, NothingRecorded, artifactVars
      <3>3. \/ UNCHANGED outcome
            \/ \E o \in {"JOB_LOST", "JOB_FAILED", "JOB_CANCELLED", "JOB_EXPIRED"} : Report(o)
        BY <2>6, <3>1 DEF Terminal, Continue, TERMINAL_STATES, COMPLETED_STATES
      <3>4. QED
        BY <2>1, <2>2, <3>2, <3>3
    <2>7. CASE ValidateArgs \/ RequestFails \/ Raises \/ Untriggered \/ PollTimeout \/ ResultsExpired
               \/ DownloadArtifacts \/ EvidenceExists
      <3>1. UNCHANGED <<present, acceptance>>
        BY <2>7 DEF ValidateArgs, RequestFails, Raises, Untriggered, PollTimeout, ResultsExpired,
           DownloadArtifacts, EvidenceExists, NothingRecorded, artifactVars
      <3>2. \/ UNCHANGED outcome
            \/ \E o \in {"CONFIGURATION_ERROR", "INFRASTRUCTURE_ERROR", "JOB_EXPIRED", "TIMEOUT",
                         "CHAT_TOOL_NOT_TRIGGERED", "ARTIFACT_INVALID"} : Report(o)
        BY <2>7 DEF ValidateArgs, RequestFails, Raises, Untriggered, PollTimeout, ResultsExpired,
           DownloadArtifacts, EvidenceExists, Continue
      <3>3. QED
        BY <2>1, <2>2, <3>1, <3>2
    <2>8. CASE UNCHANGED <<present, acceptance, outcome>>
      BY <2>1, <2>8
    <2>9. QED
      BY <2>3, <2>4, <2>5, <2>6, <2>7, <2>8 DEF Next, Harness, Upload, Chat, FindSessionJob,
         StartDirect, PollAnswered, PollNotFound, PollError, FetchResults, DeadlinePasses,
         Gateway, Done, Return, Continue, NothingRecorded, vars, artifactVars
  <1>u. CASE UNCHANGED vars
    <2>1. UNCHANGED <<jobs, pc, toolCall, job, fallback, errors, late, seen, present,
                      acceptance, outcome>>
      BY <1>u DEF vars, pollVars, artifactVars
    <2>2. Gate /\ Choice /\ Poll /\ Exits
      BY <1>t, <1>a, <2>1 DEF TypeInv
    <2>3. QED
      BY <1>1, <2>2
  <1> HIDE DEF Gate, Choice, Poll, Exits
  <1>2. QED
    BY <1>1, <1>g, <1>c, <1>p, <1>e, <1>u

\* The harness follows a job that exists, polls on only below the limit of errors
\* in a row, and reports one of the documented outcomes.
THEOREM TypeCorrect == Spec => []TypeOK
  <1>1. Spec => []TypeInv
    BY TypeInit, TypeStep, PTL DEF Spec
  <1>2. TypeInv => TypeOK
    BY DEF TypeInv
  <1>3. QED
    BY <1>1, <1>2, PTL
=============================================================================
