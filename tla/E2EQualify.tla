----------------------------- MODULE E2EQualify -----------------------------
(***************************************************************************)
(* The end-to-end qualification harness (scripts/e2e_qualify.py) and the   *)
(* gateway it drives: it uploads a workbook into a fresh session, has a    *)
(* qualification job started, by the chat agent or directly, polls it,     *)
(* collects its results and artifacts, and reports one outcome.            *)
(*                                                                         *)
(* The gateway is outside the repository. Its job registry lives in the    *)
(* memory of one process: a restart forgets every job. It changes between  *)
(* any two requests of the harness.                                        *)
(*                                                                         *)
(* Left out: the wording of requests and replies, hashes, the execution    *)
(* log and the manifest, which copies what the run has recorded.           *)
(***************************************************************************)
EXTENDS Integers, Sequences, SequencesExt, FiniteSets

CONSTANTS
  MaxJobs,        \* bound: how many jobs may be created
  ArtifactLists,  \* the artifacts that a job may end with
  MaxAgentJobs,   \* how many jobs the chat agent may create in its turn
  MaxPollErrors   \* MAX_CONSECUTIVE_POLL_ERRORS

ArtifactKinds == {"xlsx", "xlsx_untyped", "md", "other"}
Artifacts == [kind : ArtifactKinds, valid : BOOLEAN]

ASSUME QualifyAssumption ==
  /\ MaxJobs \in Nat
  /\ ArtifactLists \subseteq Seq(Artifacts)
  /\ MaxAgentJobs \in Nat
  /\ MaxPollErrors \in Nat \ {0}

VARIABLES
  \* The command line.
  args,        \* --mode, --strict-chat, --allow-direct-fallback, the criteria
  \* The gateway.
  jobs,        \* the state of each job: "none" before it is created
  \* The harness.
  pc,
  toolCall,    \* the reply of the agent reports a call of the tool
  job,         \* the job that is polled
  fallback,
  errors,      \* consecutive_errors of poll_job
  late,        \* the deadline of poll_job has passed
  seen,        \* the state in which poll_job returned the job
  content,     \* what the job produced, as its results and its artifact list say
  todo,        \* the artifacts not yet validated
  problems,    \* xlsx_problems or md_problems is not empty
  present,     \* the kinds of artifact found
  evidence,    \* how often each file of the evidence directory was written
  acceptance,  \* what acceptance_result.json says
  outcome

pollVars == <<errors, late, seen>>
artifactVars == <<content, todo, problems, present>>
vars == <<args, jobs, pc, toolCall, job, fallback, pollVars, artifactVars,
          evidence, acceptance, outcome>>

-----------------------------------------------------------------------------
COMPLETED_STATES == {"COMPLETED", "COMPLETED_WITH_WARNINGS"}
TERMINAL_STATES == COMPLETED_STATES \cup {"FAILED", "CANCELLED", "EXPIRED"}
\* "none": not created. "gone": forgotten by a restarted registry.
JobStates == {"none", "RUNNING", "gone"} \cup TERMINAL_STATES
Jobs == 1 .. MaxJobs       \* in order of creation
NoJob == 0

Success == {"PASS", "PASS_WITH_WARNINGS", "CHAT_FAILED_DIRECT_FALLBACK_SUCCEEDED"}
ExitCode ==
  [PASS |-> 0, PASS_WITH_WARNINGS |-> 0, QUALIFICATION_INCOMPLETE |-> 1, REGRESSION_FAILED |-> 1,
   CHAT_TOOL_NOT_TRIGGERED |-> 2, JOB_FAILED |-> 3, JOB_CANCELLED |-> 3,
   JOB_EXPIRED |-> 3, JOB_LOST |-> 3, TIMEOUT |-> 4, ARTIFACT_INVALID |-> 5,
   CONFIGURATION_ERROR |-> 6, BINDING_MISMATCH |-> 7, INFRASTRUCTURE_ERROR |-> 8,
   CHAT_FAILED_DIRECT_FALLBACK_SUCCEEDED |-> 9]
Outcomes == DOMAIN ExitCode

Arguments ==
  [mode : {"direct", "chat"}, strict : BOOLEAN, allowFallback : BOOLEAN,
   required : SUBSET {"xlsx", "md"}]

\* bound: verify_bindings finds no problem. enough: results and reconciliation
\* meet the criteria.
Contents == [bound : BOOLEAN, enough : BOOLEAN, artifacts : ArtifactLists]
NoContent == [bound |-> FALSE, enough |-> FALSE, artifacts |-> <<>>]

Files == {"upload_response", "chat_request", "chat_response", "tool_call",
          "job_status", "results", "report_xlsx", "report_md", "artifact_hashes",
          "acceptance_result"}

TypeOK ==
  /\ args \in Arguments
  /\ jobs \in [Jobs -> JobStates]
  /\ content \in Contents \cup {NoContent}
  /\ pc \in {"validate", "upload", "chat", "find", "untriggered", "direct", "poll",
             "terminal", "results", "bindings", "download", "artifacts",
             "accept", "done"}
  /\ toolCall \in BOOLEAN
  /\ job \in Jobs \cup {NoJob}
  /\ fallback \in BOOLEAN
  /\ errors \in 0 .. MaxPollErrors
  /\ late \in BOOLEAN
  /\ seen \in TERMINAL_STATES \cup {"JOB_LOST", "unknown"}
  /\ todo \in Seq(Artifacts)
  /\ problems \in BOOLEAN
  /\ present \subseteq ArtifactKinds
  /\ evidence \in [Files -> Nat]
  /\ acceptance \in {"absent", "passed", "failed"}
  /\ outcome \in Outcomes \cup {"none"}

Init ==
  /\ args \in Arguments
  /\ jobs = [j \in Jobs |-> "none"]
  /\ pc = "validate"
  /\ toolCall = FALSE /\ job = NoJob /\ fallback = FALSE
  /\ errors = 0 /\ late = FALSE /\ seen = "unknown"
  /\ content = NoContent /\ todo = <<>> /\ problems = FALSE /\ present = {}
  /\ evidence = [f \in Files |-> 0] /\ acceptance = "absent" /\ outcome = "none"

-----------------------------------------------------------------------------
(* The gateway.                                                            *)

Created == {j \in Jobs : jobs[j] # "none"}
Known == {j \in Jobs : jobs[j] \notin {"none", "gone"}}

\* The registry after n more jobs were created.
WithNewJobs(n) ==
  [j \in Jobs |-> IF j \in Cardinality(Created) + 1 .. Cardinality(Created) + n
                  THEN "RUNNING" ELSE jobs[j]]
RoomFor(n) == Cardinality(Created) + n <= MaxJobs

JobEnds(j) ==
  /\ jobs[j] = "RUNNING"
  /\ \E s \in TERMINAL_STATES \ {"EXPIRED"} : jobs' = [jobs EXCEPT ![j] = s]

JobExpires(j) ==
  /\ jobs[j] \in COMPLETED_STATES
  /\ jobs' = [jobs EXCEPT ![j] = "EXPIRED"]

RegistryRestart ==
  /\ Known # {}
  /\ jobs' = [j \in Jobs |-> IF j \in Known THEN "gone" ELSE jobs[j]]

Gateway ==
  /\ pc # "done"
  /\ \/ \E j \in Jobs : JobEnds(j) \/ JobExpires(j)
     \/ RegistryRestart
  /\ UNCHANGED <<args, pc, toolCall, job, fallback, pollVars, artifactVars,
                 evidence, acceptance, outcome>>

-----------------------------------------------------------------------------
(* run_qualification and main, request by request.                         *)

Report(o) == outcome' = o /\ pc' = "done"
Continue(label) == pc' = label /\ UNCHANGED outcome
Record(files) ==
  evidence' = [f \in Files |-> IF f \in files THEN evidence[f] + 1 ELSE evidence[f]]
Written == {f \in Files : evidence[f] > 0}
NothingRecorded == UNCHANGED <<evidence, acceptance>>

\* validate_args and the check that the workbook exists.
ValidateArgs ==
  /\ pc = "validate"
  /\ IF args.mode = "chat" /\ args.strict /\ args.allowFallback
     THEN Report("CONFIGURATION_ERROR")
     ELSE Continue("upload") \/ Report("CONFIGURATION_ERROR")
  /\ NothingRecorded
  /\ UNCHANGED <<args, jobs, toolCall, job, fallback, pollVars, artifactVars>>

Upload ==
  /\ pc = "upload"
  /\ Record({"upload_response"})
  /\ Continue(args.mode)
  /\ UNCHANGED <<args, jobs, toolCall, job, fallback, pollVars, artifactVars,
                 acceptance>>

\* The agent answers; each call of the tool may or may not have created a job.
Chat ==
  /\ pc = "chat"
  /\ \E called \in BOOLEAN : \E n \in IF called THEN 0 .. MaxAgentJobs ELSE {0} :
       /\ RoomFor(n)
       /\ jobs' = WithNewJobs(n)
       /\ toolCall' = called
       /\ Record({"chat_request", "chat_response"}
                   \cup (IF called THEN {"tool_call"} ELSE {}))
       /\ Continue(IF called THEN "find" ELSE "untriggered")
  /\ UNCHANGED <<args, job, fallback, pollVars, artifactVars, acceptance>>

\* The newest of the jobs still running, or else of all jobs.
NewestJob ==
  LET running == {j \in Known : jobs[j] \notin TERMINAL_STATES}
      pool == IF running # {} THEN running ELSE Known
  IN CHOOSE j \in pool : \A i \in pool : i <= j

FindSessionJob ==
  /\ pc = "find"
  /\ IF Known = {}
     THEN Continue("untriggered") /\ UNCHANGED job
     ELSE Continue("poll") /\ job' = NewestJob
  /\ NothingRecorded
  /\ UNCHANGED <<args, jobs, toolCall, fallback, pollVars, artifactVars>>

Untriggered ==
  /\ pc = "untriggered"
  /\ IF args.allowFallback
     THEN Continue("direct") /\ fallback' = TRUE
     ELSE Report("CHAT_TOOL_NOT_TRIGGERED") /\ UNCHANGED fallback
  /\ NothingRecorded
  /\ UNCHANGED <<args, jobs, toolCall, job, pollVars, artifactVars>>

StartDirect ==
  /\ pc = "direct"
  /\ RoomFor(1)
  /\ jobs' = WithNewJobs(1)
  /\ job' = Cardinality(Created) + 1
  /\ Continue("poll")
  /\ NothingRecorded
  /\ UNCHANGED <<args, toolCall, fallback, pollVars, artifactVars>>

-----------------------------------------------------------------------------
(* poll_job.                                                               *)

\* The clock, which is read between two requests.
DeadlinePasses ==
  /\ pc = "poll" /\ ~late
  /\ late' = TRUE
  /\ UNCHANGED <<args, jobs, pc, toolCall, job, fallback, errors, seen,
                 artifactVars, evidence, acceptance, outcome>>

Return(state) ==
  /\ seen' = state
  /\ Record({"job_status"})
  /\ Continue("terminal")

PollAnswered ==
  /\ pc = "poll" /\ ~late
  /\ jobs[job] # "gone"
  /\ errors' = 0
  /\ IF jobs[job] \in TERMINAL_STATES
     THEN Return(jobs[job])
     ELSE Continue("poll") /\ UNCHANGED <<seen, evidence>>
  /\ UNCHANGED <<args, jobs, toolCall, job, fallback, late, artifactVars,
                 acceptance>>

PollNotFound ==
  /\ pc = "poll" /\ ~late
  /\ jobs[job] = "gone"
  /\ Return("JOB_LOST")
  /\ UNCHANGED <<args, jobs, toolCall, job, fallback, errors, late,
                 artifactVars, acceptance>>

\* An HTTP error, a broken connection or an unreadable answer.
OneErrorMore ==                                       \* a mutated form
  /\ pc = "poll" /\ ~late
  /\ errors' = errors + 1
  /\ IF errors > MaxPollErrors
     THEN Return("JOB_LOST")
     ELSE Continue("poll") /\ UNCHANGED <<seen, evidence>>
  /\ UNCHANGED <<args, jobs, toolCall, job, fallback, late, artifactVars,
                 acceptance>>
PollError ==
  /\ pc = "poll" /\ ~late
  /\ errors' = errors + 1
  /\ IF errors + 1 >= MaxPollErrors
     THEN Return("JOB_LOST")
     ELSE Continue("poll") /\ UNCHANGED <<seen, evidence>>
  /\ UNCHANGED <<args, jobs, toolCall, job, fallback, late, artifactVars,
                 acceptance>>

\* The deadline has passed, or the socket timed out: a TimeoutError either way.
TimeoutIfAnswered ==                                  \* a mutated form
  /\ pc = "poll"
  /\ errors = 0
  /\ Report("TIMEOUT")
  /\ NothingRecorded
  /\ UNCHANGED <<args, jobs, toolCall, job, fallback, pollVars, artifactVars>>
PollTimeout ==
  /\ pc = "poll"
  /\ Report("TIMEOUT")
  /\ NothingRecorded
  /\ UNCHANGED <<args, jobs, toolCall, job, fallback, pollVars, artifactVars>>

Terminal ==
  /\ pc = "terminal"
  /\ CASE seen = "JOB_LOST"  -> Report("JOB_LOST")
       [] seen = "FAILED"    -> Report("JOB_FAILED")
       [] seen = "CANCELLED" -> Report("JOB_CANCELLED")
       [] seen = "EXPIRED"   -> Report("JOB_EXPIRED")
       [] seen \in COMPLETED_STATES -> Continue("results")
  /\ NothingRecorded
  /\ UNCHANGED <<args, jobs, toolCall, job, fallback, pollVars, artifactVars>>

-----------------------------------------------------------------------------
(* Results, artifacts and acceptance.                                      *)

FetchResults ==
  /\ pc = "results"
  /\ jobs[job] \in COMPLETED_STATES
  /\ content' \in Contents
  /\ Record({"results"})
  /\ Continue("bindings")
  /\ UNCHANGED <<args, jobs, toolCall, job, fallback, pollVars, todo, problems, present,
                 acceptance>>

\* 409 or 410
ResultsExpired ==
  /\ pc = "results"
  /\ jobs[job] = "EXPIRED"
  /\ Report("JOB_EXPIRED")
  /\ NothingRecorded
  /\ UNCHANGED <<args, jobs, toolCall, job, fallback, pollVars, artifactVars>>

MismatchNoted ==                                      \* a mutated form
  /\ pc = "bindings"
  /\ Continue("download")
  /\ Record(IF content.bound THEN {} ELSE {"acceptance_result"})
  /\ acceptance' = IF content.bound THEN acceptance ELSE "failed"
  /\ UNCHANGED <<args, jobs, toolCall, job, fallback, pollVars, artifactVars>>
VerifyBindings ==
  /\ pc = "bindings"
  /\ IF content.bound
     THEN Continue("download") /\ NothingRecorded
     ELSE /\ Report("BINDING_MISMATCH")
          /\ Record({"acceptance_result"})
          /\ acceptance' = "failed"
  /\ UNCHANGED <<args, jobs, toolCall, job, fallback, pollVars, artifactVars>>

DownloadArtifacts ==
  /\ pc = "download"
  /\ todo' = content.artifacts
  /\ IF todo' = <<>> THEN Report("ARTIFACT_INVALID") ELSE Continue("artifacts")
  /\ NothingRecorded
  /\ UNCHANGED <<args, jobs, toolCall, job, fallback, pollVars, content, problems, present>>

\* The evidence file of an artifact, if it has one.
ReportFile(kind) ==
  CASE kind \in {"xlsx", "xlsx_untyped"} -> {"report_xlsx"}
    [] kind = "md" -> {"report_md"}
    [] OTHER -> {}

\* An evidence file is written once: a second artifact for the same file raises.
EvidenceExists ==
  /\ pc = "artifacts" /\ todo # <<>>
  /\ ReportFile(Head(todo).kind) \cap Written # {}
  /\ Report("INFRASTRUCTURE_ERROR")
  /\ NothingRecorded
  /\ UNCHANGED <<args, jobs, toolCall, job, fallback, pollVars, artifactVars>>

\* Is the artifact validated and found wanting?
LastOneInvalid(a) == ReportFile(a.kind) # {} /\ ~a.valid      \* mutated form
InvalidReport(a) == problems \/ (ReportFile(a.kind) # {} /\ ~a.valid)

ValidateArtifact ==
  /\ pc = "artifacts" /\ todo # <<>>
  /\ ReportFile(Head(todo).kind) \cap Written = {}
  /\ Record(ReportFile(Head(todo).kind))
  /\ problems' = InvalidReport(Head(todo))
  /\ present' = present \cup {Head(todo).kind}
  /\ todo' = Tail(todo)
  /\ Continue("artifacts")
  /\ UNCHANGED <<args, jobs, toolCall, job, fallback, pollVars, content, acceptance>>

ArtifactsValidated ==
  /\ pc = "artifacts" /\ todo = <<>>
  /\ IF problems
     THEN /\ Report("ARTIFACT_INVALID")
          /\ Record({"artifact_hashes", "acceptance_result"})
          /\ acceptance' = "failed"
     ELSE /\ Continue("accept")
          /\ Record({"artifact_hashes"})
          /\ UNCHANGED acceptance
  /\ UNCHANGED <<args, jobs, toolCall, job, fallback, pollVars, artifactVars>>

\* evaluate_acceptance: a workbook of unknown media type does not count.
Accepted == content.enough /\ args.required \subseteq present

WarningsFirst ==                                      \* a mutated form
  /\ pc = "accept"
  /\ Record({"acceptance_result"})
  /\ acceptance' = IF Accepted THEN "passed" ELSE "failed"
  /\ Report(CASE seen = "COMPLETED_WITH_WARNINGS" -> "PASS_WITH_WARNINGS"
              [] seen = "COMPLETED" /\ ~Accepted -> "QUALIFICATION_INCOMPLETE"
              [] OTHER -> "PASS")
  /\ UNCHANGED <<args, jobs, toolCall, job, fallback, pollVars, artifactVars>>
Accept ==
  /\ pc = "accept"
  /\ Record({"acceptance_result"})
  /\ acceptance' = IF Accepted THEN "passed" ELSE "failed"
  /\ Report(CASE ~Accepted -> "QUALIFICATION_INCOMPLETE"
              [] Accepted /\ seen = "COMPLETED_WITH_WARNINGS" -> "PASS_WITH_WARNINGS"
              [] Accepted /\ seen = "COMPLETED" /\ fallback ->
                   "CHAT_FAILED_DIRECT_FALLBACK_SUCCEEDED"
              [] OTHER -> "PASS")
  /\ UNCHANGED <<args, jobs, toolCall, job, fallback, pollVars, artifactVars>>

-----------------------------------------------------------------------------
(* What goes wrong elsewhere is reported as one outcome, by the handlers   *)
(* of run_qualification and by the catch-all of main. The gateway may have *)
(* done its work nevertheless.                                             *)

\* The file that is written by a stage that may fail after it.
AtHand ==
  CASE pc = "upload" -> {"upload_response"}
    [] pc = "chat" -> {"chat_request"}
    [] pc = "artifacts" /\ todo # <<>> -> ReportFile(Head(todo).kind) \ Written
    [] OTHER -> {}

\* Another answer or none, or one that is not what it should be.
RequestFails ==
  /\ pc \in {"upload", "chat", "direct", "results", "download"}
  /\ Report("INFRASTRUCTURE_ERROR")
  /\ \E written \in {{}, AtHand} :
       \E n \in CASE pc = "chat" /\ written # {} -> 0 .. MaxAgentJobs
                  [] pc = "direct" -> 0 .. 1
                  [] OTHER -> {0} :
         Record(written) /\ RoomFor(n) /\ jobs' = WithNewJobs(n)
  /\ UNCHANGED <<args, toolCall, job, fallback, pollVars, artifactVars, acceptance>>

\* No handler expects it: a prompt or acceptance file that cannot be read, an answer
\* to the search for the job or to a poll that is no JSON object or breaks off,
\* results of another shape, a report whose validation raises.
Raises ==
  /\ pc \in {"validate", "find", "poll", "bindings", "artifacts", "accept"}
  /\ pc = "poll" => ~late
  /\ Report("INFRASTRUCTURE_ERROR")
  /\ \E written \in {{}, AtHand} : Record(written)
  /\ UNCHANGED <<args, jobs, toolCall, job, fallback, pollVars, artifactVars, acceptance>>

-----------------------------------------------------------------------------
Harness ==
  \/ ValidateArgs \/ Upload \/ RequestFails \/ Raises \/ Chat \/ FindSessionJob \/ Untriggered
  \/ StartDirect \/ PollAnswered \/ PollNotFound \/ PollError \/ PollTimeout
  \/ Terminal \/ FetchResults \/ ResultsExpired \/ VerifyBindings
  \/ DownloadArtifacts \/ EvidenceExists \/ ValidateArtifact \/ ArtifactsValidated
  \/ Accept

Done == pc = "done" /\ UNCHANGED vars

Next == Harness \/ DeadlinePasses \/ Gateway \/ Done

Spec == Init /\ [][Next]_vars

\* Every request of the harness ends, and time passes. The timeout of 60 s is one
\* for each wait of the socket: a gateway that may be silent or refuse is covered, one
\* that lets an answer trickle for ever is not. Nothing else is assumed of it.
FairSpec == Spec /\ WF_vars(Harness) /\ WF_vars(DeadlinePasses)

-----------------------------------------------------------------------------
(* Properties.                                                             *)

Kinds == {a.kind : a \in Range(content.artifacts)}

\* A run that reports success has accepted a job whose bindings hold, whose
\* results are enough, which produced every required report, and of which
\* every report is valid; and its evidence is complete.
SuccessMeansAccepted ==
  outcome \in Success =>
    /\ content.bound /\ content.enough
    /\ args.required \subseteq Kinds
    /\ \A a \in Range(content.artifacts) : ReportFile(a.kind) # {} => a.valid
    /\ seen \in COMPLETED_STATES
    /\ {"upload_response", "job_status", "results", "artifact_hashes",
        "acceptance_result"} \subseteq Written
    /\ \A a \in Range(content.artifacts) : ReportFile(a.kind) \subseteq Written

\* The verdict left in the evidence directory and the outcome reported to the
\* caller agree, whichever of the exits of the run was taken.
VerdictAgrees ==
  pc = "done" => (acceptance = "passed" <=> outcome \in Success)

\* No file of the evidence is written twice: the exception that protects it can
\* only be raised by a job with two reports of one kind.
WrittenOnce == \A f \in Files : evidence[f] <= 1

End ==
  CASE outcome = "none"     -> "running"
    [] outcome \in Success -> "passed"
    [] OTHER                -> "failed"

\* The evidence, its verdict and the outcome: what EvidenceRun says.
Run == INSTANCE EvidenceRun WITH
  Files <- Files, Verdict <- "acceptance_result", files <- evidence,
  verdict <- acceptance, end <- End
ImplementsEvidenceRun == Run!Spec

\* The run ends, whatever the gateway answers.
Terminates == <>(pc = "done")

-----------------------------------------------------------------------------
(* What the documentation of the harness says, and the code does not do.   *)

\* A fallback is "always reported distinctly": it never exits like a pass.
FallbackReported == fallback /\ pc = "done" => ExitCode[outcome] # 0
=============================================================================
