------------------------- MODULE ArchiveAcceptance -------------------------
(***************************************************************************)
(* The acceptance script of the durable archive                            *)
(* (scripts/e2e_archive_acceptance.py) and the gateway it drives: it has a *)
(* qualification job completed, or takes one, notes what the gateway says  *)
(* of it, recreates the ingestion service, checks that the archive answers *)
(* for the job, approves a draft and retries the job.                      *)
(*                                                                         *)
(* The gateway is outside the repository. A restart forgets the jobs in    *)
(* its memory and keeps the archive; a job is answered from memory while   *)
(* it is there. A restart nobody asked for and the decisions of human      *)
(* reviewers come between any two requests.                                *)
(*                                                                         *)
(* Left out: hashes (a comparison has a result), the wording of requests   *)
(* and replies, the log, the list of checks but for its conjunction, and   *)
(* an I/O error once acceptance_result.json exists (a full disk): the      *)
(* handler then raises too, at exit 1 beside whatever verdict was written. *)
(* upload_workbook, start_direct and poll_job are those of E2EQualify.     *)
(***************************************************************************)
EXTENDS Integers, Sequences, SequencesExt, FiniteSets

CONSTANTS
  CommandLines,   \* the arguments that are tried
  ArtifactLists,  \* the artifacts the archive may hold
  DraftLists      \* the assessment drafts a job may end with, all undecided

ArtifactKinds == {"markdown_report", "xlsx_report", "other"}
\* served: how its content compares with the hash of the listing.
Artifacts == [kind : ArtifactKinds, served : {"intact", "altered", "missing"}]
Reviews == {"PENDING", "APPROVED", "REJECTED"}
Drafts == [eligible : BOOLEAN, review : Reviews]

\* jobGiven: --job-id. serving: the compose file, project and service named are
\* those of the process behind the gateway. recreate: by restart or by rebuild.
\* skipRetry: by --skip-retry, or because no session is known for the job.
Arguments ==
  [jobGiven : BOOLEAN, serving : BOOLEAN, recreate : BOOLEAN,
   skipApproval : BOOLEAN, skipRetry : BOOLEAN]

ASSUME ArchiveAssumption ==
  /\ CommandLines \subseteq Arguments
  /\ ArtifactLists \subseteq Seq(Artifacts)
  /\ DraftLists \subseteq Seq(Drafts)

VARIABLES
  args,        \* the command line
  \* The gateway.
  jobState,    \* "none" before the job is created
  live,        \* the job is in the memory of the running process
  rows,        \* the rows of the archive for the job
  archive,     \* what they hold
  drafts,
  \* The harness.
  pc,
  pre,         \* what fetch_pre_state noted
  todo,        \* the artifacts listed before, and not yet gone through
  listed,      \* the drafts as listed
  next,        \* the draft of the list that is tried next
  mine,        \* history: the drafts this run has approved
  passed,      \* all checks so far
  evidence,    \* how often each file of the evidence directory was written
  acceptance,  \* what acceptance_result.json says
  exit         \* the exit code, or Running

gateway == <<jobState, live, rows, archive, drafts>>
review == <<listed, next, mine>>
vars == <<args, gateway, pc, pre, todo, review, passed, evidence, acceptance, exit>>

-----------------------------------------------------------------------------
\* A job that completed with warnings is one that completed; FAILED stands for
\* the other terminal states.
JobStates == {"none", "RUNNING", "COMPLETED", "FAILED"}

\* same: the results are those of the job.
Archives == [same : BOOLEAN, artifacts : ArtifactLists]
NoArchive == [same |-> FALSE, artifacts |-> <<>>]

Snapshots == [live : BOOLEAN, results : {"original", "altered"}]
NoSnapshot == [live |-> FALSE, results |-> "altered"]

Files == {"upload_response", "qualify_response", "pre_restart_status",
          "pre_restart_archive", "postrestart_job_status", "postrestart_results",
          "archived_md", "archived_xlsx", "postrestart_drafts",
          "archived_draft_approval", "retry_lineage", "acceptance_result"}

Running == -1
Steps == {"start", "upload", "qualify", "poll", "pre_status", "pre_results",
          "pre_archive", "pre_artifacts", "recreate", "healthy", "observe",
          "post_status", "post_results", "artifacts", "session", "drafts", "approve",
          "assessment", "rows", "retry", "retry_poll", "lineage", "verdict", "done"}

TypeOK ==
  /\ args \in CommandLines
  /\ jobState \in JobStates
  /\ live \in BOOLEAN
  /\ rows \in 0 .. 2
  /\ archive \in Archives \cup {NoArchive}
  /\ drafts \in Seq(Drafts)
  /\ pc \in Steps
  /\ pre \in Snapshots
  /\ todo \in Seq(Artifacts)
  /\ listed \in Seq(Drafts)
  /\ next \in Nat
  /\ mine \subseteq Nat
  /\ passed \in BOOLEAN
  /\ evidence \in [Files -> Nat]
  /\ acceptance \in {"absent", "passed", "failed"}
  /\ exit \in Running .. 3

\* ds with some of its drafts decided; only an eligible draft can be approved.
Decided(ds) ==
  {es \in [DOMAIN ds -> Drafts] : \A i \in DOMAIN ds :
     /\ es[i].eligible = ds[i].eligible
     /\ es[i].review = "APPROVED" => es[i].eligible}

\* A job given on the command line has completed, in this process or before it,
\* and its drafts may have been decided, by reviewers or by earlier runs.
Init ==
  /\ args \in CommandLines
  /\ IF args.jobGiven
     THEN /\ jobState = "COMPLETED" /\ live \in BOOLEAN /\ rows \in 0 .. 2
          /\ archive \in Archives
          /\ \E ds \in DraftLists : drafts \in Decided(ds)
     ELSE /\ jobState = "none" /\ live = FALSE /\ rows = 0
          /\ archive = NoArchive /\ drafts = <<>>
  /\ pc = "start" /\ pre = NoSnapshot /\ todo = <<>>
  /\ listed = <<>> /\ next = 1 /\ mine = {} /\ passed = TRUE
  /\ evidence = [f \in Files |-> 0] /\ acceptance = "absent" /\ exit = Running

-----------------------------------------------------------------------------
(* The gateway.                                                            *)

\* Completion archives the job; how well is for the harness to find out.
JobEnds ==
  /\ jobState = "RUNNING" /\ live
  /\ \/ /\ jobState' = "COMPLETED"
        /\ rows' \in 0 .. 2
        /\ archive' \in Archives
        /\ drafts' \in DraftLists
     \/ jobState' = "FAILED" /\ UNCHANGED <<rows, archive, drafts>>
  /\ UNCHANGED live

GatewayRestarts ==
  /\ live
  /\ live' = FALSE
  /\ UNCHANGED <<jobState, rows, archive, drafts>>

ReviewerDecides(i) ==
  /\ rows > 0 /\ drafts[i].review = "PENDING"
  /\ \E r \in {"APPROVED", "REJECTED"} :
       /\ r = "APPROVED" => drafts[i].eligible
       /\ drafts' = [drafts EXCEPT ![i].review = r]
  /\ UNCHANGED <<jobState, live, rows, archive>>

Gateway ==
  /\ pc # "done"
  /\ JobEnds \/ GatewayRestarts \/ \E i \in DOMAIN drafts : ReviewerDecides(i)
  /\ UNCHANGED <<args, pc, pre, todo, review, passed, evidence, acceptance, exit>>

\* GET jobs/{id} and its results: from memory, else from the archive, else 404.
Answered == jobState # "none" /\ (live \/ rows > 0)
AnyAnswer == TRUE                                     \* a mutated form
IsArchived == ~live                      \* the field "archived" of the answer
Results == IF live \/ archive.same THEN "original" ELSE "altered"

-----------------------------------------------------------------------------
(* main, request by request.                                               *)

Continue(label) == pc' = label /\ UNCHANGED <<acceptance, exit>>
Check(ok) == passed' = (passed /\ ok)
Record(files) ==
  evidence' = [f \in Files |-> IF f \in files THEN evidence[f] + 1 ELSE evidence[f]]
Written == {f \in Files : evidence[f] > 0}

\* The handlers of main: AcceptanceError is 1, any other exception is 3.
Abort(code, files) ==
  /\ Record(files \cup {"acceptance_result"})
  /\ acceptance' = "failed"
  /\ exit' = code
  /\ pc' = "done"

Start ==
  /\ pc = "start"
  /\ Continue(IF args.jobGiven THEN "pre_status" ELSE "upload")
  /\ UNCHANGED <<args, gateway, pre, todo, review, passed, evidence>>

\* No workbook to qualify: the one exit without a verdict.
NoWorkbook ==
  /\ pc = "start" /\ ~args.jobGiven
  /\ exit' = 2 /\ pc' = "done"
  /\ UNCHANGED <<args, gateway, pre, todo, review, passed, evidence, acceptance>>

\* The health probe and the upload.
Upload ==
  /\ pc = "upload"
  /\ Record({"upload_response"})
  /\ Continue("qualify")
  /\ UNCHANGED <<args, gateway, pre, todo, review, passed>>

Qualify ==
  /\ pc = "qualify"
  /\ jobState' = "RUNNING" /\ live' = TRUE
  /\ Record({"qualify_response"})
  /\ Continue("poll")
  /\ UNCHANGED <<args, rows, archive, drafts, pre, todo, review, passed>>

Poll ==
  /\ pc = "poll"
  /\ Answered /\ jobState = "COMPLETED"
  /\ Continue("pre_status")
  /\ UNCHANGED <<args, gateway, pre, todo, review, passed, evidence>>

\* What a request that fails may leave behind, by the exit it leads to: an answer
\* without the field that is needed is recorded before it is refused, but the health
\* probe before the upload leaves nothing.
LeftBehind(code) ==
  CASE pc = "upload" /\ code = 1  -> {{}, {"upload_response"}}
    [] pc = "qualify" /\ code = 1 -> {{"qualify_response"}}
    [] OTHER -> {{}}

\* Any other answer than the one that is needed, or none. The job of poll may
\* have failed, or be lost (1), or take too long (3); the archive may lack the
\* job (1); docker may fail (3). The qualification may have been started.
RequestFails ==
  /\ pc \in Steps \ {"start", "recreate", "observe", "approve", "retry_poll",
                     "verdict", "done"}
  /\ \E code \in IF pc \in {"healthy", "artifacts"} THEN {3} ELSE {1, 3} :
       \E left \in LeftBehind(code) : Abort(code, left)
  /\ \/ UNCHANGED gateway
     \/ /\ pc = "qualify"
        /\ jobState' = "RUNNING" /\ live' = TRUE
        /\ UNCHANGED <<rows, archive, drafts>>
  /\ UNCHANGED <<args, pre, todo, review, passed>>

-----------------------------------------------------------------------------
(* fetch_pre_state and recreate_service.                                   *)

PreStatus ==
  /\ pc = "pre_status"
  /\ Answered /\ jobState = "COMPLETED"
  /\ Continue("pre_results")
  /\ UNCHANGED <<args, gateway, pre, todo, review, passed, evidence>>

NothingToCompare ==                                   \* a mutated form
  /\ pc = "pre_results"
  /\ Answered
  /\ pre' = [live |-> live]
  /\ Continue("pre_archive")
  /\ UNCHANGED <<args, gateway, todo, review, passed, evidence>>
PreResults ==
  /\ pc = "pre_results"
  /\ Answered
  /\ pre' = [live |-> live, results |-> Results]
  /\ Continue("pre_archive")
  /\ UNCHANGED <<args, gateway, todo, review, passed, evidence>>

PreArchive ==
  /\ pc = "pre_archive"
  /\ rows > 0
  /\ Continue("pre_artifacts")
  /\ UNCHANGED <<args, gateway, pre, todo, review, passed, evidence>>

PreArtifacts ==
  /\ pc = "pre_artifacts"
  /\ todo' = archive.artifacts
  /\ Record({"pre_restart_status", "pre_restart_archive"})
  /\ Continue("recreate")
  /\ UNCHANGED <<args, gateway, pre, review, passed>>

\* Whatever service is named is restarted, or rebuilt and replaced.
Recreate ==
  /\ pc = "recreate"
  /\ live' = (live /\ ~(args.recreate /\ args.serving))
  /\ Continue(IF args.recreate THEN "healthy" ELSE "post_status")
  /\ UNCHANGED <<args, jobState, rows, archive, drafts, pre, todo, review, passed,
                 evidence>>

RecreateFails ==
  /\ pc = "recreate" /\ args.recreate
  /\ live' \in {live, live /\ ~args.serving}
  /\ Abort(3, {})
  /\ UNCHANGED <<args, jobState, rows, archive, drafts, pre, todo, review, passed>>

Healthy ==
  /\ pc = "healthy"
  /\ Continue("observe")
  /\ UNCHANGED <<args, gateway, pre, todo, review, passed, evidence>>

\* wait_restart_observed: its answer is not used, and it gives up in the end.
ObserveForever ==                                     \* a mutated form
  /\ pc = "observe"
  /\ IF live THEN UNCHANGED vars
     ELSE /\ Continue("post_status")
          /\ UNCHANGED <<args, gateway, pre, todo, review, passed, evidence>>
Observe ==
  /\ pc = "observe"
  /\ Continue("post_status")
  /\ UNCHANGED <<args, gateway, pre, todo, review, passed, evidence>>

-----------------------------------------------------------------------------
(* verify_post_state.                                                      *)

PostStatus ==
  /\ pc = "post_status"
  /\ Answered
  /\ Check(IsArchived /\ jobState = "COMPLETED")
  /\ Record({"postrestart_job_status"})
  /\ Continue("post_results")
  /\ UNCHANGED <<args, gateway, pre, todo, review>>

PostResults ==
  /\ pc = "post_results"
  /\ Answered
  /\ Check(IsArchived /\ Results = pre.results)
  /\ Record({"postrestart_results"})
  /\ Continue("artifacts")
  /\ UNCHANGED <<args, gateway, pre, todo, review>>

IsReport(a) == a.kind \in {"markdown_report", "xlsx_report"}

SkipArtifact ==
  /\ pc = "artifacts" /\ todo # <<>> /\ ~IsReport(Head(todo))
  /\ todo' = Tail(todo)
  /\ Continue("artifacts")
  /\ UNCHANGED <<args, gateway, pre, review, passed, evidence>>

\* The evidence file of a report; one that is not served has none.
ReportFile(a) ==
  CASE a.served = "missing" -> {}
    [] a.kind = "markdown_report" -> {"archived_md"}
    [] OTHER -> {"archived_xlsx"}

LastReportCounts ==                                   \* a mutated form
  /\ pc = "artifacts" /\ todo # <<>> /\ IsReport(Head(todo))
  /\ ReportFile(Head(todo)) \cap Written = {}
  /\ passed' = (Head(todo).served = "intact")
  /\ Record(ReportFile(Head(todo)))
  /\ todo' = Tail(todo)
  /\ Continue("artifacts")
  /\ UNCHANGED <<args, gateway, pre, review>>
FetchReport ==
  /\ pc = "artifacts" /\ todo # <<>> /\ IsReport(Head(todo))
  /\ ReportFile(Head(todo)) \cap Written = {}
  /\ Check(Head(todo).served = "intact")
  /\ Record(ReportFile(Head(todo)))
  /\ todo' = Tail(todo)
  /\ Continue("artifacts")
  /\ UNCHANGED <<args, gateway, pre, review>>

\* A second report of a kind: its evidence file exists, and write raises.
EvidenceExists ==
  /\ pc = "artifacts" /\ todo # <<>> /\ IsReport(Head(todo))
  /\ ReportFile(Head(todo)) \cap Written # {}
  /\ Abort(3, {})
  /\ UNCHANGED <<args, gateway, pre, todo, review, passed>>

ReportsFetched ==
  /\ pc = "artifacts" /\ todo = <<>>
  /\ Continue("session")
  /\ UNCHANGED <<args, gateway, pre, todo, review, passed, evidence>>

\* The jobs of the session: the archived job should be among them.
SessionJobs ==
  /\ pc = "session"
  /\ \E found \in BOOLEAN : Check(found /\ IsArchived)
  /\ Continue("drafts")
  /\ UNCHANGED <<args, gateway, pre, todo, review, evidence>>

ListDrafts ==
  /\ pc = "drafts"
  /\ listed' = drafts
  /\ Check(drafts # <<>>)
  /\ Record({"postrestart_drafts"})
  /\ Continue("approve")
  /\ UNCHANGED <<args, gateway, pre, todo, next, mine>>

\* The next draft of the list that is eligible, and undecided as listed.
Open(i) == listed[i].eligible /\ listed[i].review = "PENDING"
Candidate(i) == Open(i) /\ \A k \in next .. i - 1 : ~Open(k)

MissingBreak(i) ==                                    \* a mutated form
  /\ pc = "approve" /\ Candidate(i)
  /\ drafts[i].review = "PENDING"
  /\ drafts' = [drafts EXCEPT ![i].review = "APPROVED"]
  /\ mine' = mine \cup {i}
  /\ next' = i + 1
  /\ Continue("approve")
  /\ UNCHANGED <<args, jobState, live, rows, archive, pre, todo, listed,
                 passed, evidence>>
Approve(i) ==
  /\ pc = "approve" /\ Candidate(i)
  /\ drafts[i].review = "PENDING"
  /\ drafts' = [drafts EXCEPT ![i].review = "APPROVED"]
  /\ mine' = mine \cup {i}
  /\ Continue("assessment")
  /\ UNCHANGED <<args, jobState, live, rows, archive, pre, todo, listed, next,
                 passed, evidence>>

\* A status below 500 other than 200, as when a reviewer was faster.
Refused(i) ==
  /\ pc = "approve" /\ Candidate(i)
  /\ next' = i + 1
  /\ Continue("approve")
  /\ UNCHANGED <<args, gateway, pre, todo, listed, mine, passed, evidence>>

\* A server error (1) or no readable answer (3), to an approval that may count.
ApprovalFails(i) ==
  /\ pc = "approve" /\ Candidate(i)
  /\ \/ UNCHANGED <<drafts, mine>>
     \/ /\ drafts[i].review = "PENDING"
        /\ drafts' = [drafts EXCEPT ![i].review = "APPROVED"]
        /\ mine' = mine \cup {i}
  /\ \E code \in {1, 3} : Abort(code, {})
  /\ UNCHANGED <<args, jobState, live, rows, archive, pre, todo, listed, next, passed>>

ApproveDraft ==
  \E i \in next .. Len(listed) : Approve(i) \/ Refused(i) \/ ApprovalFails(i)

\* No draft was approved: one that was approved as listed counts instead.
AnyDecisionCounts ==                                  \* a mutated form
  /\ pc = "approve" /\ ~\E i \in next .. Len(listed) : Candidate(i)
  /\ Check(\E i \in DOMAIN listed : listed[i].review # "PENDING")
  /\ Continue("rows")
  /\ UNCHANGED <<args, gateway, pre, todo, review, evidence>>
NothingApproved ==
  /\ pc = "approve" /\ ~\E i \in next .. Len(listed) : Candidate(i)
  /\ Check(\E i \in DOMAIN listed : listed[i].review = "APPROVED")
  /\ Continue("rows")
  /\ UNCHANGED <<args, gateway, pre, todo, review, evidence>>

\* The assessment of the approved draft, as the other store shows it.
Assessment ==
  /\ pc = "assessment"
  /\ \E approved \in BOOLEAN : Check(approved)
  /\ Record({"archived_draft_approval"})
  /\ Continue("rows")
  /\ UNCHANGED <<args, gateway, pre, todo, review>>

\* The last check of verify_post_state.
Rows ==
  /\ pc = "rows"
  /\ Check(rows = 1)
  /\ Continue(IF args.skipRetry THEN "verdict" ELSE "retry")
  /\ UNCHANGED <<args, gateway, pre, todo, review, evidence>>

-----------------------------------------------------------------------------
(* verify_retry_lineage, and the verdict. The retried job is another job.  *)

\* Accepted, refused or without a job, or already running: then it is skipped.
Retry ==
  /\ pc = "retry"
  /\ \/ Check(TRUE) /\ Continue("retry_poll")
     \/ \E running \in BOOLEAN : Check(running) /\ Continue("verdict")
  /\ UNCHANGED <<args, gateway, pre, todo, review, evidence>>

\* Whatever poll_job raises is a failed check, and leaves the lineage unread.
RetryPoll ==
  /\ pc = "retry_poll"
  /\ \/ \E completed \in BOOLEAN : Check(completed) /\ Continue("lineage")
     \/ Check(FALSE) /\ Continue("verdict")
  /\ UNCHANGED <<args, gateway, pre, todo, review, evidence>>

Lineage ==
  /\ pc = "lineage"
  /\ \E rooted \in BOOLEAN : Check(rooted)
  /\ Record({"retry_lineage"})
  /\ Continue("verdict")
  /\ UNCHANGED <<args, gateway, pre, todo, review>>

PassesBeforeChecks ==                                 \* a mutated form
  /\ pc = "verdict"
  /\ Record({"acceptance_result"})
  /\ acceptance' = "passed"
  /\ exit' = IF passed THEN 0 ELSE 1
  /\ pc' = "done"
  /\ UNCHANGED <<args, gateway, pre, todo, review, passed>>
GiveVerdict ==
  /\ pc = "verdict"
  /\ Record({"acceptance_result"})
  /\ acceptance' = IF passed THEN "passed" ELSE "failed"
  /\ exit' = IF passed THEN 0 ELSE 1
  /\ pc' = "done"
  /\ UNCHANGED <<args, gateway, pre, todo, review, passed>>

-----------------------------------------------------------------------------
Harness ==
  \/ Start \/ NoWorkbook \/ Upload \/ Qualify \/ Poll \/ RequestFails
  \/ PreStatus \/ PreResults \/ PreArchive \/ PreArtifacts
  \/ Recreate \/ RecreateFails \/ Healthy \/ Observe
  \/ PostStatus \/ PostResults
  \/ SkipArtifact \/ FetchReport \/ EvidenceExists \/ ReportsFetched
  \/ SessionJobs \/ ListDrafts \/ ApproveDraft \/ NothingApproved \/ Assessment \/ Rows
  \/ Retry \/ RetryPoll \/ Lineage \/ GiveVerdict

Done == pc = "done" /\ UNCHANGED vars

Next == Harness \/ Gateway \/ Done

Spec == Init /\ [][Next]_vars

\* Every wait has a deadline, and every wait of a socket a timeout. That is one of
\* each wait: an answer is assumed not to come byte by byte for ever, and the docker
\* commands, which have no timeout, are assumed to end.
FairSpec == Spec /\ WF_vars(Harness)

-----------------------------------------------------------------------------
(* Properties.                                                             *)

\* A run passes only if the process that held the job is gone and the job is
\* answered from one row of the archive: neither the wrong service, nor a
\* recreation that was skipped, nor a restart in between can make up for it.
PassMeansOutlived ==
  exit = 0 => jobState = "COMPLETED" /\ ~live /\ rows = 1

\* A run that passes has compared what the archive serves: every report of the
\* job is intact, and its results are those the live job had, if the job was
\* still live when they were noted.
PassMeansFaithful ==
  exit = 0 =>
    /\ pre.live => archive.same
    /\ \A a \in Range(archive.artifacts) : IsReport(a) => a.served = "intact"

\* A run passes only if a draft of the job is approved, by this run or before
\* it; drafts that reviewers have turned down do not count.
PassNeedsApproval ==
  exit = 0 => \E i \in DOMAIN drafts : drafts[i].review = "APPROVED"

\* A run approves one draft at the most, and only one that it saw eligible and
\* undecided, whatever reviewers decide at the same time and however it ends.
ApprovesOneEligible ==
  /\ Cardinality(mine) <= 1
  /\ \A i \in mine : i \in DOMAIN listed /\ Open(i)

End ==
  CASE exit = Running -> "running"
    [] exit = 0       -> "passed"
    [] OTHER          -> "failed"

\* The evidence, its verdict and the exit code: what EvidenceRun says.
Run == INSTANCE EvidenceRun WITH
  Files <- Files, Verdict <- "acceptance_result", files <- evidence,
  verdict <- acceptance, end <- End
ImplementsEvidenceRun == Run!Spec

\* The run ends, whatever the gateway and the reviewers do.
Terminates == <>(pc = "done")

-----------------------------------------------------------------------------
(* What the help of the script says, and the code does not do.             *)

\* --skip-approval: "do not approve any draft (read-only run)".
SkipApprovalIsReadOnly == args.skipApproval => mine = {}
=============================================================================
