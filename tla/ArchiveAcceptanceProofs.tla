---------------------- MODULE ArchiveAcceptanceProofs ----------------------
(***************************************************************************)
(* Proofs about ArchiveAcceptance, for every value of its constants.       *)
(***************************************************************************)
EXTENDS ArchiveAcceptance, SequenceTheorems, FiniteSetTheorems, TLAPS

-----------------------------------------------------------------------------
(* Sequences.                                                              *)

LEMMA RangeMembers ==
  ASSUME NEW S, NEW s \in Seq(S)
  PROVE  \A x : x \in Range(s) <=> \E i \in 1 .. Len(s) : x = s[i]
  <1>1. DOMAIN s = 1 .. Len(s)
    BY LenProperties
  <1>2. QED
    BY <1>1 DEF Range

\* What is left in front of a head is the head or in the tail.
LEMMA HeadOrTail ==
  ASSUME NEW S, NEW s \in Seq(S), s # <<>>
  PROVE  /\ Head(s) \in S /\ Tail(s) \in Seq(S)
         /\ \A x \in Range(s) : x = Head(s) \/ x \in Range(Tail(s))
  <1> DEFINE t == Tail(s)
  <1>1. /\ Head(s) \in S /\ t \in Seq(S) /\ Len(t) = Len(s) - 1
        /\ \A i \in 1 .. Len(t) : t[i] = s[i + 1]
    BY HeadTailProperties
  <1>2. Head(s) = s[1]
    OBVIOUS
  <1>3. Len(s) \in Nat \ {0}
    BY EmptySeq
  <1> HIDE DEF t
  <1>4. \A x : x \in Range(s) <=> \E i \in 1 .. Len(s) : x = s[i]
    BY RangeMembers
  <1>5. \A x : x \in Range(t) <=> \E i \in 1 .. Len(t) : x = t[i]
    BY <1>1, RangeMembers
  <1>6. ASSUME NEW i \in 1 .. Len(s), i # 1 PROVE s[i] \in Range(t)
    <2>1. i - 1 \in 1 .. Len(t) /\ t[i - 1] = s[i]
      BY <1>1, <1>3, <1>6
    <2>2. QED
      BY <1>5, <2>1
  <1>7. \A x \in Range(s) : x = Head(s) \/ x \in Range(t)
    BY <1>2, <1>4, <1>6
  <1>8. QED
    BY <1>1, <1>7 DEF t

\* A decision changes one draft and nothing else of the list.
LEMMA DecisionKeepsList ==
  ASSUME NEW ds \in Seq(Drafts), NEW i, NEW r \in Reviews,
         NEW es, es = [ds EXCEPT ![i].review = r]
  PROVE  /\ es \in Seq(Drafts)
         /\ DOMAIN es = DOMAIN ds
         /\ \A k \in DOMAIN ds : k # i => es[k] = ds[k]
         /\ i \in DOMAIN ds => es[i].review = r
  <1>1. Len(ds) \in Nat /\ DOMAIN ds = 1 .. Len(ds)
    BY LenProperties
  <1>2. \A k \in 1 .. Len(ds) : ds[k] \in Drafts
    BY ElementOfSeq
  <1>3. /\ es = [k \in 1 .. Len(ds) |->
                   IF k = i THEN [ds[k] EXCEPT !.review = r] ELSE ds[k]]
        /\ DOMAIN es = DOMAIN ds
    BY <1>1
  <1>4. \A d \in Drafts : /\ [d EXCEPT !.review = r] \in Drafts
                          /\ [d EXCEPT !.review = r].review = r
    BY DEF Drafts
  <1>d. i \in DOMAIN ds => es[i].review = r
    BY <1>1, <1>2, <1>3, <1>4
  <1>5. \A k \in 1 .. Len(ds) : es[k] \in Drafts
    BY <1>2, <1>3, <1>4
  <1>6. es \in Seq(Drafts)
    <2>1. es \in [1 .. Len(ds) -> Drafts]
      BY <1>3, <1>5
    <2>2. QED
      BY <1>1, <2>1, SeqDef
  <1>7. \A k \in DOMAIN ds : k # i => es[k] = ds[k]
    BY <1>1, <1>3
  <1>8. QED
    BY <1>3, <1>d, <1>6, <1>7

LEMMA DecidedAreLists ==
  ASSUME NEW ds \in DraftLists, NEW es \in Decided(ds)
  PROVE  es \in Seq(Drafts)
  <1>1. ds \in Seq(Drafts)
    BY ArchiveAssumption
  <1>2. Len(ds) \in Nat /\ DOMAIN ds = 1 .. Len(ds)
    BY <1>1, LenProperties
  <1>3. es \in [1 .. Len(ds) -> Drafts]
    BY <1>2 DEF Decided
  <1>4. QED
    BY <1>2, <1>3, SeqDef

-----------------------------------------------------------------------------
(* Types.                                                                  *)

GatewayType ==
  /\ jobState \in JobStates
  /\ live \in BOOLEAN
  /\ rows \in 0 .. 2
  /\ archive \in Archives \cup {NoArchive}
  /\ drafts \in Seq(Drafts)

HarnessType ==
  /\ pre \in Snapshots
  /\ todo \in Seq(Artifacts)
  /\ listed \in Seq(Drafts)
  /\ next \in Nat
  /\ mine \subseteq Nat
  /\ passed \in BOOLEAN

ReportType ==
  /\ args \in CommandLines
  /\ pc \in Steps
  /\ evidence \in [Files -> Nat]
  /\ acceptance \in {"absent", "passed", "failed"}
  /\ exit \in Running .. 3

LEMMA TypeParts == TypeOK <=> GatewayType /\ HarnessType /\ ReportType
  BY DEF TypeOK, GatewayType, HarnessType, ReportType

LEMMA ArgumentsTyped ==
  ASSUME ReportType
  PROVE  /\ args \in Arguments
         /\ args.jobGiven \in BOOLEAN /\ args.serving \in BOOLEAN /\ args.recreate \in BOOLEAN
         /\ args.skipApproval \in BOOLEAN /\ args.skipRetry \in BOOLEAN
  <1>1. args \in Arguments
    BY ArchiveAssumption DEF ReportType
  <1>2. QED
    BY <1>1 DEF Arguments

LEMMA ArtifactsAreSeq ==
  ASSUME archive \in Archives \cup {NoArchive}
  PROVE  archive.artifacts \in Seq(Artifacts)
  <1>1. <<>> \in Seq(Artifacts)
    BY EmptySeq
  <1>2. CASE archive \in Archives
    <2>1. archive.artifacts \in ArtifactLists
      BY <1>2 DEF Archives
    <2>2. QED
      BY <2>1, ArchiveAssumption
  <1>3. CASE archive = NoArchive
    BY <1>1, <1>3 DEF NoArchive
  <1>4. QED
    BY <1>2, <1>3

LEMMA TypeInit == Init => TypeOK
  <1> SUFFICES ASSUME Init PROVE TypeOK
    OBVIOUS
  <1>1. <<>> \in Seq(Artifacts) /\ <<>> \in Seq(Drafts)
    BY EmptySeq
  <1>2. drafts \in Seq(Drafts)
    BY <1>1, DecidedAreLists DEF Init
  <1>3. GatewayType
    <2>1. CASE args.jobGiven
      BY <1>2, <2>1 DEF Init, GatewayType, JobStates
    <2>2. CASE ~args.jobGiven
      <3>1. live = FALSE
        BY <2>2 DEF Init
      <3>2. jobState \in JobStates /\ rows \in 0 .. 2 /\ archive = NoArchive
        BY <2>2 DEF Init, JobStates
      <3>3. QED
        BY <1>2, <3>1, <3>2 DEF GatewayType
    <2>3. QED
      BY <2>1, <2>2
  <1>4. HarnessType
    BY <1>1 DEF Init, HarnessType, NoSnapshot, Snapshots
  <1>5. ReportType
    BY DEF Init, ReportType, Steps, Running
  <1>6. QED
    BY <1>3, <1>4, <1>5, TypeParts

LEMMA RecordAdds ==
  ASSUME evidence \in [Files -> Nat], NEW files, Record(files)
  PROVE  /\ evidence' \in [Files -> Nat]
         /\ \A f \in Files : evidence'[f] = IF f \in files THEN evidence[f] + 1 ELSE evidence[f]
  BY DEF Record

\* Only these change the gateway; each other step leaves it alone.
LEMMA GatewaySteps ==
  ASSUME [Next]_vars
  PROVE  \/ UNCHANGED gateway
         \/ Gateway \/ Qualify \/ RequestFails \/ Recreate \/ RecreateFails
         \/ pc = "approve" /\ ApproveDraft
  BY DEF Next, Harness, Done, vars, gateway, Start, NoWorkbook, Upload, Poll, PreStatus,
     PreResults, PreArchive, PreArtifacts, Healthy, Observe, PostStatus, PostResults,
     SkipArtifact, FetchReport, EvidenceExists, ReportsFetched, SessionJobs, ListDrafts,
     ApproveDraft, Approve, Refused, ApprovalFails, NothingApproved, Assessment, Rows, Retry,
     RetryPoll, Lineage, GiveVerdict

\* What an approval does, if it reaches the archive.
Approves(i) ==
  /\ drafts[i].review = "PENDING"
  /\ drafts' = [drafts EXCEPT ![i].review = "APPROVED"]
  /\ mine' = mine \cup {i}

LEMMA ApproveDraftSteps ==
  ASSUME ApproveDraft
  PROVE  /\ UNCHANGED <<args, jobState, live, rows, archive, pre, todo, listed, passed>>
         /\ \E i \in next .. Len(listed) :
              /\ Candidate(i)
              /\ \/ Approves(i) \/ UNCHANGED <<drafts, mine>>
              /\ \/ Approves(i) /\ Continue("assessment") /\ UNCHANGED <<next, evidence>>
                 \/ /\ next' = i + 1 /\ Continue("approve")
                    /\ UNCHANGED <<drafts, mine, evidence>>
                 \/ UNCHANGED next /\ \E code \in {1, 3} : Abort(code, {})
  BY DEF ApproveDraft, Approve, Refused, ApprovalFails, Approves, gateway

LEMMA GatewayTypeStep == TypeOK /\ [Next]_vars => GatewayType'
  <1> SUFFICES ASSUME TypeOK, [Next]_vars PROVE GatewayType'
    OBVIOUS
  <1>t. GatewayType /\ HarnessType /\ ReportType
    BY TypeParts
  <1>1. CASE UNCHANGED gateway
    BY <1>t, <1>1 DEF GatewayType, gateway
  <1>2. CASE Gateway
    <2>1. CASE JobEnds
      <3>1. drafts' \in Seq(Drafts)
        BY <1>t, <2>1, ArchiveAssumption DEF JobEnds, GatewayType
      <3>2. QED
        BY <1>t, <2>1, <3>1 DEF JobEnds, GatewayType, JobStates
    <2>2. CASE GatewayRestarts
      <3>1. live' \in BOOLEAN
        BY <2>2 DEF GatewayRestarts
      <3>2. QED
        BY <1>t, <2>2, <3>1 DEF GatewayRestarts, GatewayType
    <2>3. ASSUME NEW i \in DOMAIN drafts, ReviewerDecides(i) PROVE GatewayType'
      <3>1. PICK r \in {"APPROVED", "REJECTED"} : drafts' = [drafts EXCEPT ![i].review = r]
        BY <2>3 DEF ReviewerDecides
      <3>2. drafts' \in Seq(Drafts)
        BY <1>t, <3>1, DecisionKeepsList DEF GatewayType, Reviews
      <3>3. QED
        BY <1>t, <2>3, <3>2 DEF ReviewerDecides, GatewayType
    <2>4. QED
      BY <1>2, <2>1, <2>2, <2>3 DEF Gateway
  <1>3. CASE Qualify \/ RequestFails
    <2>1. \/ UNCHANGED gateway
          \/ /\ jobState' = "RUNNING" /\ live' = TRUE
             /\ UNCHANGED <<rows, archive, drafts>>
      BY <1>3 DEF Qualify, RequestFails
    <2>2. live' \in BOOLEAN
      BY <1>t, <2>1 DEF GatewayType, gateway
    <2>3. QED
      BY <1>t, <2>1, <2>2 DEF GatewayType, gateway, JobStates
  <1>4. CASE Recreate \/ RecreateFails
    <2>1. live' \in BOOLEAN
      BY <1>t, <1>4 DEF Recreate, RecreateFails, GatewayType
    <2>2. QED
      BY <1>t, <1>4, <2>1 DEF Recreate, RecreateFails, GatewayType
  <1>5. CASE ApproveDraft
    <2>1. /\ UNCHANGED <<jobState, live, rows, archive>>
          /\ drafts' = drafts \/ \E i : drafts' = [drafts EXCEPT ![i].review = "APPROVED"]
      BY <1>5, ApproveDraftSteps DEF Approves
    <2>2. drafts' \in Seq(Drafts)
      BY <1>t, <2>1, DecisionKeepsList DEF GatewayType, Reviews
    <2>3. QED
      BY <1>t, <2>1, <2>2 DEF GatewayType
  <1>6. QED
    BY <1>1, <1>2, <1>3, <1>4, <1>5, GatewaySteps

LEMMA HarnessTypeStep == TypeOK /\ [Next]_vars => HarnessType'
  <1> SUFFICES ASSUME TypeOK, [Next]_vars PROVE HarnessType'
    OBVIOUS
  <1>t. GatewayType /\ HarnessType /\ ReportType
    BY TypeParts
  <1>1. CASE UNCHANGED <<pre, todo, review, passed>>
    BY <1>t, <1>1 DEF HarnessType, review
  <1>2. CASE PreResults
    <2>1. pre' \in Snapshots
      BY <1>t, <1>2 DEF PreResults, Snapshots, Results, GatewayType
    <2>2. QED
      BY <1>t, <1>2, <2>1 DEF PreResults, HarnessType, review
  <1>3. CASE PreArtifacts
    <2>1. todo' \in Seq(Artifacts)
      BY <1>t, <1>3, ArtifactsAreSeq DEF PreArtifacts, GatewayType
    <2>2. QED
      BY <1>t, <1>3, <2>1 DEF PreArtifacts, HarnessType, review
  <1>4. CASE SkipArtifact \/ FetchReport
    <2>1. todo' \in Seq(Artifacts)
      BY <1>t, <1>4, HeadOrTail DEF SkipArtifact, FetchReport, HarnessType
    <2>2. passed' \in BOOLEAN
      BY <1>t, <1>4 DEF SkipArtifact, FetchReport, Check, HarnessType
    <2>3. QED
      BY <1>t, <1>4, <2>1, <2>2 DEF SkipArtifact, FetchReport, HarnessType, review
  <1>5. ASSUME UNCHANGED <<pre, todo, review>>, \E ok : Check(ok) PROVE HarnessType'
    <2>1. passed' \in BOOLEAN
      BY <1>5 DEF Check
    <2>2. QED
      BY <1>t, <1>5, <2>1 DEF HarnessType, review
  <1>6. CASE PostStatus \/ PostResults \/ SessionJobs \/ NothingApproved \/ Assessment \/ Rows
             \/ Retry \/ RetryPoll \/ Lineage
    BY <1>5, <1>6 DEF PostStatus, PostResults, SessionJobs, NothingApproved, Assessment, Rows,
       Retry, RetryPoll, Lineage
  <1>7. CASE ListDrafts
    <2>1. passed' \in BOOLEAN
      BY <1>7 DEF ListDrafts, Check
    <2>2. QED
      BY <1>t, <1>7, <2>1 DEF ListDrafts, HarnessType, GatewayType
  <1>8. CASE ApproveDraft
    <2>1. PICK i \in next .. Len(listed) :
            /\ mine' = mine \cup {i} \/ mine' = mine
            /\ next' = next \/ next' = i + 1
      BY <1>8, ApproveDraftSteps DEF Approves
    <2>2. i \in Nat
      BY <1>t, <2>1, LenProperties DEF HarnessType
    <2>3. pre' = pre /\ todo' = todo /\ listed' = listed /\ passed' = passed
      BY <1>8, ApproveDraftSteps
    <2>4. mine' \subseteq Nat /\ next' \in Nat
      <3>1. mine \subseteq Nat /\ next \in Nat /\ i + 1 \in Nat
        BY <1>t, <2>2 DEF HarnessType
      <3>2. QED
        BY <2>1, <2>2, <3>1
    <2>5. QED
      BY <1>t, <2>3, <2>4 DEF HarnessType
  <1>9. QED
    BY <1>1, <1>2, <1>3, <1>4, <1>6, <1>7, <1>8 DEF Next, Harness, Done, vars, Start, NoWorkbook,
       Upload, Qualify, Poll, RequestFails, PreStatus, PreArchive, Recreate, RecreateFails,
       Healthy, Observe, EvidenceExists, ReportsFetched, GiveVerdict, Gateway

LEMMA ReportTypeStep == TypeOK /\ [Next]_vars => ReportType'
  <1> SUFFICES ASSUME TypeOK, [Next]_vars PROVE ReportType'
    OBVIOUS
  <1>t. ReportType
    BY TypeParts
  <1>a. args' = args
    BY DEF Next, Harness, Done, vars, Gateway, Start, NoWorkbook, Upload, Qualify, Poll,
       RequestFails, PreStatus, PreResults, PreArchive, PreArtifacts, Recreate, RecreateFails,
       Healthy, Observe, PostStatus, PostResults, SkipArtifact, FetchReport, EvidenceExists,
       ReportsFetched, SessionJobs, ListDrafts, ApproveDraft, Approve, Refused, ApprovalFails,
       NothingApproved, Assessment, Rows, Retry, RetryPoll, Lineage, GiveVerdict
  \* A step that goes on, one that aborts, and the two others that end the run.
  <1>r. ASSUME (\E files : Record(files)) \/ UNCHANGED evidence
        PROVE  evidence' \in [Files -> Nat]
    BY <1>t, <1>r, RecordAdds DEF ReportType
  <1>1. ASSUME NEW label \in Steps, Continue(label),
               (\E files : Record(files)) \/ UNCHANGED evidence
        PROVE  ReportType'
    BY <1>t, <1>a, <1>r, <1>1 DEF ReportType, Continue
  <1>2. ASSUME NEW code \in {1, 3}, NEW files, Abort(code, files) PROVE ReportType'
    BY <1>t, <1>a, <1>r, <1>2 DEF ReportType, Abort, Steps, Running
  <1>3. CASE NoWorkbook
    BY <1>t, <1>a, <1>3 DEF ReportType, NoWorkbook, Steps, Running
  <1>4. CASE GiveVerdict
    <2>1. /\ evidence' \in [Files -> Nat] /\ acceptance' \in {"passed", "failed"}
          /\ exit' \in {0, 1} /\ pc' = "done"
      BY <1>r, <1>4 DEF GiveVerdict
    <2>2. QED
      BY <1>t, <1>a, <2>1 DEF ReportType, Steps, Running
  <1>5. CASE UNCHANGED <<pc, evidence, acceptance, exit>>
    BY <1>t, <1>a, <1>5 DEF ReportType
  <1>6. CASE RequestFails
    BY <1>2, <1>6 DEF RequestFails
  <1>7. CASE RecreateFails \/ EvidenceExists
    BY <1>2, <1>7 DEF RecreateFails, EvidenceExists
  <1>8. CASE ApproveDraft
    <2>1. \/ /\ \E label \in {"assessment", "approve"} : Continue(label)
             /\ UNCHANGED evidence
          \/ \E code \in {1, 3} : Abort(code, {})
      BY <1>8, ApproveDraftSteps
    <2>2. QED
      BY <1>1, <1>2, <2>1 DEF Steps
  <1>9. CASE Start \/ Recreate \/ Rows
    BY <1>1, <1>9 DEF Start, Recreate, Rows, Steps
  <1>10. CASE Upload \/ Qualify \/ Poll \/ PreStatus \/ PreResults \/ PreArchive \/ PreArtifacts
              \/ Healthy \/ Observe \/ PostStatus \/ PostResults \/ SkipArtifact \/ FetchReport
    BY <1>1, <1>10 DEF Upload, Qualify, Poll, PreStatus, PreResults, PreArchive, PreArtifacts,
       Healthy, Observe, PostStatus, PostResults, SkipArtifact, FetchReport, Steps
  <1>11. CASE ReportsFetched \/ SessionJobs \/ ListDrafts \/ NothingApproved \/ Assessment
              \/ Retry \/ RetryPoll \/ Lineage
    BY <1>1, <1>11 DEF ReportsFetched, SessionJobs, ListDrafts, NothingApproved, Assessment,
       Retry, RetryPoll, Lineage, Steps
  <1>12. CASE Gateway \/ Done \/ UNCHANGED vars
    BY <1>5, <1>12 DEF Gateway, Done, vars
  <1>13. QED
    BY <1>3, <1>4, <1>6, <1>7, <1>8, <1>9, <1>10, <1>11, <1>12 DEF Next, Harness

\* Every variable keeps its type, whatever lists the gateway holds.
THEOREM TypeCorrect == Spec => []TypeOK
  <1>1. TypeOK /\ [Next]_vars => TypeOK'
    <2> SUFFICES ASSUME TypeOK, [Next]_vars PROVE TypeOK'
      OBVIOUS
    <2>1. GatewayType' /\ HarnessType' /\ ReportType'
      BY GatewayTypeStep, HarnessTypeStep, ReportTypeStep
    <2>2. QED
      BY <2>1 DEF TypeOK, GatewayType, HarnessType, ReportType
  <1>2. QED
    BY <1>1, TypeInit, PTL DEF Spec

-----------------------------------------------------------------------------
(* The evidence directory.                                                 *)

\* The files that are not written when the run has come to a label. The reports
\* are not among them: their own guard protects them.
AfterRows == {"retry_lineage", "acceptance_result"}
AfterDrafts == AfterRows \cup {"archived_draft_approval"}
AfterReports == AfterDrafts \cup {"postrestart_drafts"}
Reports == {"archived_md", "archived_xlsx"}
AfterJob == Files \ {"upload_response", "qualify_response"}
Unwritten ==
  CASE pc \in {"start", "upload"} -> Files
    [] pc \in {"qualify"} -> Files \ {"upload_response"}
    [] pc \in {"poll", "pre_status", "pre_results", "pre_archive", "pre_artifacts"} -> AfterJob
    [] pc \in {"recreate", "healthy", "observe", "post_status"} ->
         AfterReports \cup Reports \cup {"postrestart_job_status", "postrestart_results"}
    [] pc \in {"post_results"} -> AfterReports \cup Reports \cup {"postrestart_results"}
    [] pc \in {"artifacts", "session", "drafts"} -> AfterReports
    [] pc \in {"approve", "assessment"} -> AfterDrafts
    [] pc \in {"rows", "retry", "retry_poll", "lineage"} -> AfterRows
    [] pc \in {"verdict"} -> {"acceptance_result"}
    [] OTHER -> {}

Once ==
  /\ \A f \in Files : evidence[f] <= 1
  /\ \A f \in Unwritten : evidence[f] = 0

\* The verdict is written by the last step, and says what the exit code says.
RunInv ==
  /\ TypeOK
  /\ Once
  /\ pc # "done" => acceptance = "absent" /\ exit = Running

\* Each step writes files that are unwritten.
WritesUnwritten ==
  \E files \in SUBSET Files :
    /\ Record(files)
    /\ \A f \in files : evidence[f] = 0
    /\ Unwritten' \subseteq Unwritten \ files
    /\ pc' # "done" => "acceptance_result" \notin files

LEMMA RecordStep ==
  ASSUME RunInv, [Next]_vars
  PROVE  WritesUnwritten
  <1>t. evidence \in [Files -> Nat] /\ pc \in Steps
    BY TypeParts DEF RunInv, ReportType
  <1>u. Unwritten \in SUBSET Files /\ \A f \in Unwritten : evidence[f] = 0
    BY DEF RunInv, Once, Unwritten, Files, AfterReports, AfterDrafts, AfterRows, Reports, AfterJob
  <1>1. ASSUME NEW files \in SUBSET Unwritten, Record(files),
               Unwritten' \subseteq Unwritten \ files,
               pc' # "done" => "acceptance_result" \notin files
        PROVE  WritesUnwritten
    BY <1>u, <1>1 DEF WritesUnwritten
  <1>2. ASSUME UNCHANGED evidence, Unwritten' \subseteq Unwritten PROVE WritesUnwritten
    <2>1. Record({})
      BY <1>t, <1>2 DEF Record
    <2>2. QED
      BY <1>1, <1>2, <2>1
  <1>3. ASSUME NEW code, NEW files \in SUBSET Unwritten, Abort(code, files), pc # "done"
        PROVE  WritesUnwritten
    <2>1. "acceptance_result" \in Unwritten
      BY <1>t, <1>3 DEF Steps, Unwritten, Files, AfterReports, AfterDrafts, AfterRows, AfterJob
    <2>2. Unwritten' = {}
      BY <1>3 DEF Abort, Unwritten
    <2>3. Record(files \cup {"acceptance_result"}) /\ pc' = "done"
      BY <1>3 DEF Abort
    <2>4. QED
      BY <1>1, <1>3, <2>1, <2>2, <2>3
  <1>4. CASE Start \/ Poll \/ PreStatus \/ PreResults \/ PreArchive \/ Recreate \/ Healthy
             \/ Observe \/ SkipArtifact \/ ReportsFetched
    BY <1>2, <1>4 DEF Start, Poll, PreStatus, PreResults, PreArchive, Recreate, Healthy, Observe,
       SkipArtifact, ReportsFetched, Continue, Unwritten, Files, AfterJob
  <1>5. CASE SessionJobs \/ NothingApproved \/ Rows \/ Retry \/ RetryPoll
    BY <1>2, <1>5 DEF SessionJobs, NothingApproved, Rows, Retry, RetryPoll, Continue, Unwritten,
       AfterRows, AfterDrafts
  <1>6. CASE NoWorkbook
    BY <1>2, <1>6 DEF NoWorkbook, Unwritten
  <1>7. CASE Upload
    <2>1. /\ Record({"upload_response"}) /\ pc = "upload" /\ pc' = "qualify"
      BY <1>7 DEF Upload, Continue
    <2>2. {"upload_response"} \in SUBSET Unwritten /\ Unwritten' \subseteq Unwritten \ {"upload_response"}
      BY <2>1 DEF Unwritten, Files
    <2>3. QED
      BY <1>1, <2>1, <2>2
  <1>8. CASE Qualify
    <2>1. /\ Record({"qualify_response"}) /\ pc = "qualify" /\ pc' = "poll"
      BY <1>8 DEF Qualify, Continue
    <2>2. {"qualify_response"} \in SUBSET Unwritten /\ Unwritten' \subseteq Unwritten \ {"qualify_response"}
      BY <2>1 DEF Unwritten, Files, AfterJob
    <2>3. QED
      BY <1>1, <2>1, <2>2
  <1>9. CASE PreArtifacts
    <2> DEFINE files == {"pre_restart_status", "pre_restart_archive"}
    <2>1. /\ Record(files) /\ pc = "pre_artifacts" /\ pc' = "recreate"
      BY <1>9 DEF PreArtifacts, Continue
    <2>2. files \in SUBSET Unwritten /\ Unwritten' \subseteq Unwritten \ files
      BY <2>1 DEF Unwritten, Files, AfterJob, AfterReports, AfterDrafts, AfterRows, Reports
    <2>3. QED
      BY <1>1, <2>1, <2>2
  <1>10. CASE PostStatus
    <2> DEFINE files == {"postrestart_job_status"}
    <2>1. /\ Record(files) /\ pc = "post_status" /\ pc' = "post_results"
      BY <1>10 DEF PostStatus, Continue
    <2>2. files \in SUBSET Unwritten /\ Unwritten' \subseteq Unwritten \ files
      BY <2>1 DEF Unwritten, AfterReports, AfterDrafts, AfterRows, Reports
    <2>3. QED
      BY <1>1, <2>1, <2>2
  <1>11. CASE PostResults
    <2> DEFINE files == {"postrestart_results"}
    <2>1. /\ Record(files) /\ pc = "post_results" /\ pc' = "artifacts"
      BY <1>11 DEF PostResults, Continue
    <2>2. files \in SUBSET Unwritten /\ Unwritten' \subseteq Unwritten \ files
      BY <2>1 DEF Unwritten, AfterReports, AfterDrafts, AfterRows, Reports
    <2>3. QED
      BY <1>1, <2>1, <2>2
  <1>12. CASE FetchReport
    <2>1. PICK files : files = ReportFile(Head(todo))
      OBVIOUS
    <2>2. /\ Record(files) /\ files \cap Written = {} /\ pc = "artifacts" /\ pc' = "artifacts"
      BY <1>12, <2>1 DEF FetchReport, Continue
    <2>3. files \in SUBSET Reports
      BY <2>1 DEF ReportFile, Reports
    <2>4. files \in SUBSET Files /\ "acceptance_result" \notin files
      BY <2>3 DEF Reports, Files
    <2>5. \A f \in files : evidence[f] = 0
      BY <1>t, <2>2, <2>4 DEF Written
    <2>6. Unwritten' \subseteq Unwritten \ files
      BY <2>2, <2>3 DEF Unwritten, AfterReports, AfterDrafts, AfterRows, Reports
    <2>7. QED
      BY <2>2, <2>4, <2>5, <2>6 DEF WritesUnwritten
  <1>13. CASE ListDrafts
    <2> DEFINE files == {"postrestart_drafts"}
    <2>1. /\ Record(files) /\ pc = "drafts" /\ pc' = "approve"
      BY <1>13 DEF ListDrafts, Continue
    <2>2. files \in SUBSET Unwritten /\ Unwritten' \subseteq Unwritten \ files
      BY <2>1 DEF Unwritten, AfterReports, AfterDrafts, AfterRows
    <2>3. QED
      BY <1>1, <2>1, <2>2
  <1>14. CASE Assessment
    <2> DEFINE files == {"archived_draft_approval"}
    <2>1. /\ Record(files) /\ pc = "assessment" /\ pc' = "rows"
      BY <1>14 DEF Assessment, Continue
    <2>2. files \in SUBSET Unwritten /\ Unwritten' \subseteq Unwritten \ files
      BY <2>1 DEF Unwritten, AfterDrafts, AfterRows
    <2>3. QED
      BY <1>1, <2>1, <2>2
  <1>15. CASE Lineage
    <2> DEFINE files == {"retry_lineage"}
    <2>1. /\ Record(files) /\ pc = "lineage" /\ pc' = "verdict"
      BY <1>15 DEF Lineage, Continue
    <2>2. files \in SUBSET Unwritten /\ Unwritten' \subseteq Unwritten \ files
      BY <2>1 DEF Unwritten, AfterRows
    <2>3. QED
      BY <1>1, <2>1, <2>2
  <1>16. CASE GiveVerdict
    <2>1. /\ Record({"acceptance_result"}) /\ pc = "verdict" /\ pc' = "done"
      BY <1>16 DEF GiveVerdict
    <2>2. Unwritten = {"acceptance_result"} /\ Unwritten' = {}
      BY <2>1 DEF Unwritten
    <2>3. QED
      BY <1>1, <2>1, <2>2
  <1>17. CASE RequestFails
    <2>1. PICK code \in {1, 3} : \E left \in LeftBehind(code) : Abort(code, left)
      BY <1>17 DEF RequestFails
    <2>2. PICK files \in LeftBehind(code) : Abort(code, files)
      BY <2>1
    <2>3. files \in SUBSET Unwritten
      BY <2>2 DEF LeftBehind, Unwritten, Files
    <2>4. pc # "done"
      BY <1>17 DEF RequestFails
    <2>5. QED
      BY <1>3, <2>2, <2>3, <2>4
  <1>18. CASE RecreateFails \/ EvidenceExists
    <2>1. Abort(3, {}) /\ pc # "done"
      BY <1>18 DEF RecreateFails, EvidenceExists
    <2>2. QED
      BY <1>3, <2>1
  <1>19. CASE ApproveDraft
    <2>1. pc = "approve"
      BY <1>19 DEF ApproveDraft, Approve, Refused, ApprovalFails
    <2>2. \/ pc' \in {"assessment", "approve"} /\ UNCHANGED evidence
          \/ \E code \in {1, 3} : Abort(code, {})
      BY <1>19, ApproveDraftSteps DEF Continue
    <2>3. pc' \in {"assessment", "approve"} => Unwritten' \subseteq Unwritten
      BY <2>1 DEF Unwritten
    <2>4. QED
      BY <1>2, <1>3, <2>1, <2>2, <2>3
  <1>20. CASE Gateway \/ Done \/ UNCHANGED vars
    <2>1. UNCHANGED <<pc, evidence>>
      BY <1>20 DEF Gateway, Done, vars
    <2>2. Unwritten' = Unwritten
      BY <2>1 DEF Unwritten
    <2>3. QED
      BY <1>2, <2>1, <2>2
  <1>21. QED
    BY <1>4, <1>5, <1>6, <1>7, <1>8, <1>9, <1>10, <1>11, <1>12, <1>13, <1>14, <1>15, <1>16,
       <1>17, <1>18, <1>19, <1>20 DEF Next, Harness

\* What the last step of a run does to the verdict.
NoVerdict ==
  /\ exit' = 2
  /\ UNCHANGED <<acceptance, evidence>>
GivenVerdict ==
  /\ exit' \in {0, 1, 3}
  /\ acceptance' = IF exit' = 0 THEN "passed" ELSE "failed"
  /\ \E files : Record(files \cup {"acceptance_result"})

\* A run goes on without a verdict, or ends with it, or stutters.
ReachesVerdict ==
  \/ pc # "done" /\ pc' # "done" /\ UNCHANGED <<acceptance, exit>>
  \/ pc' = pc /\ UNCHANGED <<evidence, acceptance, exit>>
  \/ pc # "done" /\ pc' = "done" /\ (NoVerdict \/ GivenVerdict)

LEMMA VerdictStep ==
  ASSUME RunInv, [Next]_vars
  PROVE  ReachesVerdict
  <1>t. ReportType
    BY TypeParts DEF RunInv
  <1>1. ASSUME NEW label, Continue(label), pc # "done", label # "done"
        PROVE  ReachesVerdict
    BY <1>1 DEF Continue, ReachesVerdict
  <1>2. ASSUME NEW code \in {1, 3}, NEW files, Abort(code, files), pc # "done" PROVE ReachesVerdict
    <2>1. GivenVerdict
      BY <1>2 DEF Abort, GivenVerdict
    <2>2. QED
      BY <1>2, <2>1 DEF Abort, ReachesVerdict
  <1>3. CASE GiveVerdict
    <2>1. /\ exit' \in {0, 1} /\ acceptance' = IF exit' = 0 THEN "passed" ELSE "failed"
          /\ pc = "verdict" /\ pc' = "done"
      BY <1>3 DEF GiveVerdict
    <2>2. Record({} \cup {"acceptance_result"})
      BY <1>3 DEF GiveVerdict, Record
    <2>3. GivenVerdict
      BY <2>1, <2>2 DEF GivenVerdict
    <2>4. QED
      BY <2>1, <2>3 DEF ReachesVerdict
  <1>4. CASE NoWorkbook
    BY <1>4 DEF NoWorkbook, NoVerdict, ReachesVerdict
  <1>5. CASE RequestFails
    BY <1>2, <1>5 DEF RequestFails
  <1>6. CASE RecreateFails \/ EvidenceExists
    BY <1>2, <1>6 DEF RecreateFails, EvidenceExists
  <1>7. CASE ApproveDraft
    <2>1. pc = "approve"
      BY <1>7 DEF ApproveDraft, Approve, Refused, ApprovalFails
    <2>2. \/ Continue("assessment") \/ Continue("approve")
          \/ \E code \in {1, 3} : Abort(code, {})
      BY <1>7, ApproveDraftSteps
    <2>3. QED
      BY <1>1, <1>2, <2>1, <2>2
  <1>8. CASE Start \/ Upload \/ Qualify \/ Poll \/ PreStatus \/ PreResults \/ PreArchive
             \/ PreArtifacts \/ Recreate \/ Healthy \/ Observe \/ PostStatus \/ PostResults
             \/ SkipArtifact \/ FetchReport \/ ReportsFetched
    BY <1>1, <1>8 DEF Start, Upload, Qualify, Poll, PreStatus, PreResults, PreArchive,
       PreArtifacts, Recreate, Healthy, Observe, PostStatus, PostResults, SkipArtifact,
       FetchReport, ReportsFetched
  <1>9. CASE SessionJobs \/ ListDrafts \/ NothingApproved \/ Assessment \/ Rows \/ Retry
             \/ RetryPoll \/ Lineage
    BY <1>1, <1>9 DEF SessionJobs, ListDrafts, NothingApproved, Assessment, Rows, Retry,
       RetryPoll, Lineage
  <1>10. CASE Gateway \/ Done \/ UNCHANGED vars
    BY <1>10 DEF Gateway, Done, vars, ReachesVerdict
  <1>11. QED
    BY <1>3, <1>4, <1>5, <1>6, <1>7, <1>8, <1>9, <1>10 DEF Next, Harness

LEMMA RunInit == Init => RunInv
  BY TypeInit DEF Init, RunInv, Once, Unwritten, Running

LEMMA RunInvStep == RunInv /\ [Next]_vars => RunInv'
  <1> SUFFICES ASSUME RunInv, [Next]_vars PROVE RunInv'
    OBVIOUS
  <1>1. TypeOK /\ TypeOK'
    <2>1. GatewayType' /\ HarnessType' /\ ReportType'
      BY GatewayTypeStep, HarnessTypeStep, ReportTypeStep DEF RunInv
    <2>2. QED
      BY <2>1 DEF RunInv, TypeOK, GatewayType, HarnessType, ReportType
  <1>t. evidence \in [Files -> Nat] /\ \A f \in Files : evidence[f] \in Nat /\ evidence[f] <= 1
    BY <1>1 DEF TypeOK, RunInv, Once
  <1>2. PICK files \in SUBSET Files :
           /\ Record(files)
           /\ \A f \in files : evidence[f] = 0
           /\ Unwritten' \subseteq Unwritten \ files
    BY RecordStep DEF WritesUnwritten
  <1>3. \A f \in Files : evidence'[f] = IF f \in files THEN evidence[f] + 1 ELSE evidence[f]
    BY <1>t, <1>2, RecordAdds
  <1>4. Unwritten \in SUBSET Files
    BY DEF Unwritten, Files, AfterReports, AfterDrafts, AfterRows, Reports, AfterJob
  <1>5. \A f \in Files : evidence'[f] <= 1
    BY <1>t, <1>2, <1>3
  <1>6. \A f \in Unwritten' : evidence'[f] = 0
    BY <1>2, <1>3, <1>4 DEF RunInv, Once
  <1>7. pc' # "done" => acceptance' = "absent" /\ exit' = Running
    BY VerdictStep DEF ReachesVerdict, RunInv
  <1>8. QED
    BY <1>1, <1>5, <1>6, <1>7 DEF RunInv, Once

LEMMA RunStep == RunInv /\ [Next]_vars => [Run!Next]_(Run!vars)
  <1> SUFFICES ASSUME RunInv, [Next]_vars PROVE [Run!Next]_(Run!vars)
    OBVIOUS
  <1>t. /\ exit \in Running .. 3 /\ acceptance \in {"absent", "passed", "failed"}
        /\ evidence \in [Files -> Nat] /\ evidence' \in [Files -> Nat]
        /\ \A f \in Files : evidence[f] <= 1 /\ evidence'[f] <= 1
    BY RunInvStep DEF RunInv, TypeOK, Once
  <1>a. "acceptance_result" \in Files
    BY DEF Files
  <1>e. /\ exit = Running => End = "running"
        /\ exit' = Running => End' = "running"
        /\ exit' = 0 => End' = "passed"
        /\ exit' \in {1, 2, 3} => End' = "failed"
    BY DEF End, Running
  <1>1. PICK files \in SUBSET Files :
          /\ Record(files)
          /\ \A f \in files : evidence[f] = 0
          /\ Unwritten' \subseteq Unwritten \ files
          /\ pc' # "done" => "acceptance_result" \notin files
    BY RecordStep DEF WritesUnwritten
  <1>2. \A f \in Files : evidence'[f] = IF f \in files THEN evidence[f] + 1 ELSE evidence[f]
    BY <1>t, <1>1, RecordAdds
  <1>3. Run!Write
    <2>1. \A f \in Files : evidence[f] <= evidence'[f] /\ evidence'[f] \in 0 .. 1
      BY <1>t, <1>2
    <2>2. QED
      BY <1>t, <2>1 DEF Run!Write
  <1>4. CASE pc # "done" /\ pc' # "done" /\ UNCHANGED <<acceptance, exit>>
    <2>1. exit = Running /\ exit' = Running
      BY <1>4 DEF RunInv
    <2>2. ~Run!VerdictWritten
      BY <1>1, <1>2, <1>4, <1>a, <1>t DEF Run!VerdictWritten
    <2>3. QED
      BY <1>3, <1>4, <1>e, <2>1, <2>2 DEF Run!Next, Run!Collect
  <1>5. CASE pc' = pc /\ UNCHANGED <<evidence, acceptance, exit>>
    BY <1>5 DEF Run!vars, End
  <1>6. CASE pc # "done" /\ pc' = "done" /\ NoVerdict
    <2>1. exit = Running /\ exit' = 2 /\ acceptance' = acceptance
      BY <1>6 DEF RunInv, NoVerdict
    <2>2. ~Run!VerdictWritten
      BY <1>6, <1>t DEF NoVerdict, Run!VerdictWritten
    <2>3. QED
      BY <1>3, <1>e, <2>1, <2>2 DEF Run!Next, Run!Fail
  <1>7. CASE pc # "done" /\ pc' = "done" /\ GivenVerdict
    <2>1. exit = Running /\ exit' \in {0, 1, 3}
          /\ acceptance' = IF exit' = 0 THEN "passed" ELSE "failed"
      BY <1>7 DEF RunInv, GivenVerdict
    <2>2. Run!VerdictWritten
      <3>1. PICK others : Record(others \cup {"acceptance_result"})
        BY <1>7 DEF GivenVerdict
      <3>2. evidence'["acceptance_result"] = evidence["acceptance_result"] + 1
        BY <1>a, <1>t, <3>1 DEF Record
      <3>3. QED
        BY <1>a, <1>t, <3>2 DEF Run!VerdictWritten
    <2>3. CASE exit' = 0
      BY <1>3, <1>e, <2>1, <2>2, <2>3 DEF Run!Next, Run!Pass
    <2>4. CASE exit' # 0
      BY <1>3, <1>e, <2>1, <2>2, <2>4 DEF Run!Next, Run!Fail
    <2>5. QED
      BY <2>3, <2>4
  <1>8. QED
    BY <1>4, <1>5, <1>6, <1>7, VerdictStep DEF ReachesVerdict

\* The evidence directory, its verdict and the exit code of every run behave as
\* EvidenceRun promises.
THEOREM RunImplements == Spec => ImplementsEvidenceRun
  <1>1. Init => Run!Init
    <2> SUFFICES ASSUME Init PROVE Run!Init
      OBVIOUS
    <2>1. /\ evidence = [f \in Files |-> 0] /\ acceptance = "absent" /\ exit = Running
      BY DEF Init
    <2>2. End = "running"
      BY <2>1 DEF End, Running
    <2>3. QED
      BY <2>1, <2>2 DEF Run!Init
  <1>2. Spec => []RunInv
    BY RunInit, RunInvStep, PTL DEF Spec
  <1>3. QED
    BY <1>1, <1>2, RunStep, PTL DEF Spec, ImplementsEvidenceRun, Run!Spec
-----------------------------------------------------------------------------
(* What a run has behind it when it has come to a label.                   *)

PastRows == {"retry", "retry_poll", "lineage", "verdict"}
PastApproval == PastRows \cup {"rows"}
PastDrafts == PastApproval \cup {"approve", "assessment"}
PastReports == PastDrafts \cup {"session", "drafts"}
PastResults == PastReports \cup {"artifacts"}
PastStatus == PastResults \cup {"post_results"}
Settled ==
  PastStatus \cup {"pre_results", "pre_archive", "pre_artifacts", "recreate", "healthy",
                   "observe", "post_status"}

LEMMA Pasts ==
  /\ PastRows \subseteq PastApproval /\ PastApproval \subseteq PastDrafts
  /\ PastDrafts \subseteq PastReports /\ PastReports \subseteq PastResults
  /\ PastResults \subseteq PastStatus /\ PastStatus \subseteq Settled
  /\ "verdict" \in PastRows /\ "done" \notin Settled
  BY DEF PastRows, PastApproval, PastDrafts, PastReports, PastResults, PastStatus, Settled

\* Labels come in one order: each set of them is entered by one action.
LEMMA Entries ==
  ASSUME [Next]_vars
  PROVE  /\ pc' \in Settled => pc \in Settled \/ PreStatus
         /\ pc' \in PastStatus => pc \in PastStatus \/ PostStatus
         /\ pc' \in PastResults => pc \in PastResults \/ PostResults
         /\ pc' \in PastReports => pc \in PastReports \/ ReportsFetched
         /\ pc' \in PastDrafts => pc \in PastDrafts \/ ListDrafts
         /\ pc' \in PastApproval => pc \in PastApproval \/ NothingApproved \/ Assessment
         /\ pc' \in PastRows => pc \in PastRows \/ Rows
  <1>1. CASE Start \/ NoWorkbook \/ Upload \/ Qualify \/ Poll \/ PreStatus \/ PreResults
             \/ PreArchive \/ PreArtifacts \/ Recreate \/ Healthy \/ Observe
    BY <1>1 DEF Start, NoWorkbook, Upload, Qualify, Poll, PreStatus, PreResults, PreArchive,
       PreArtifacts, Recreate, Healthy, Observe, Continue, Settled, PastStatus, PastResults,
       PastReports, PastDrafts, PastApproval, PastRows
  <1>2. CASE PostStatus \/ PostResults \/ SkipArtifact \/ FetchReport \/ ReportsFetched
             \/ SessionJobs \/ ListDrafts
    BY <1>2 DEF PostStatus, PostResults, SkipArtifact, FetchReport, ReportsFetched, SessionJobs,
       ListDrafts, Continue, Settled, PastStatus, PastResults, PastReports, PastDrafts,
       PastApproval, PastRows
  <1>3. CASE NothingApproved \/ Assessment \/ Rows \/ Retry \/ RetryPoll \/ Lineage
             \/ GiveVerdict
    BY <1>3 DEF NothingApproved, Assessment, Rows, Retry, RetryPoll, Lineage, GiveVerdict,
       Continue, Settled, PastStatus, PastResults, PastReports, PastDrafts, PastApproval,
       PastRows
  <1>4. CASE ApproveDraft
    <2>1. pc = "approve" /\ pc' \in {"assessment", "approve", "done"}
      BY <1>4 DEF ApproveDraft, Approve, Refused, ApprovalFails, Continue, Abort
    <2>2. QED
      BY <2>1 DEF Settled, PastStatus, PastResults, PastReports, PastDrafts, PastApproval,
         PastRows
  <1>5. CASE RequestFails \/ RecreateFails \/ EvidenceExists
    <2>1. pc' = "done"
      BY <1>5 DEF RequestFails, RecreateFails, EvidenceExists, Abort
    <2>2. QED
      BY <2>1 DEF Settled, PastStatus, PastResults, PastReports, PastDrafts, PastApproval,
         PastRows
  <1>6. CASE Gateway \/ Done \/ UNCHANGED vars
    BY <1>6 DEF Gateway, Done, vars
  <1>7. QED
    BY <1>1, <1>2, <1>3, <1>4, <1>5, <1>6 DEF Next, Harness

\* A failed check is never made up for.
LEMMA PassedFalls ==
  ASSUME [Next]_vars PROVE passed' => passed
  BY DEF Next, Harness, Done, vars, Gateway, Start, NoWorkbook, Upload, Qualify, Poll,
     RequestFails, PreStatus, PreResults, PreArchive, PreArtifacts, Recreate, RecreateFails,
     Healthy, Observe, PostStatus, PostResults, SkipArtifact, FetchReport, EvidenceExists,
     ReportsFetched, SessionJobs, ListDrafts, ApproveDraft, Approve, Refused, ApprovalFails,
     NothingApproved, Assessment, Rows, Retry, RetryPoll, Lineage, GiveVerdict, Check

\* A job that has completed stays as it is, and never comes back to life.
LEMMA JobKept ==
  ASSUME TypeOK, [Next]_vars, pc \in Settled, jobState = "COMPLETED"
  PROVE  /\ UNCHANGED <<jobState, rows, archive>>
         /\ live' => live
  <1>1. CASE UNCHANGED gateway
    BY <1>1 DEF gateway
  <1>2. CASE Gateway
    BY <1>2 DEF Gateway, JobEnds, GatewayRestarts, ReviewerDecides
  <1>3. CASE Qualify \/ RequestFails
    <2>1. pc # "qualify"
      BY DEF Settled, PastStatus, PastResults, PastReports, PastDrafts, PastApproval, PastRows
    <2>2. UNCHANGED gateway
      BY <1>3, <2>1 DEF Qualify, RequestFails
    <2>3. QED
      BY <2>2 DEF gateway
  <1>4. CASE Recreate \/ RecreateFails
    BY <1>4 DEF Recreate, RecreateFails
  <1>5. CASE ApproveDraft
    BY <1>5, ApproveDraftSteps
  <1>6. QED
    BY <1>1, <1>2, <1>3, <1>4, <1>5, GatewaySteps

\* A run passes by its verdict, all checks passed, and nothing comes after.
LEMMA FinalStep ==
  ASSUME RunInv, [Next]_vars, exit' = 0
  PROVE  \/ /\ pc = "verdict" /\ passed
            /\ UNCHANGED <<gateway, pre, todo, review>>
         \/ exit = 0 /\ UNCHANGED vars
  <1>1. CASE pc = "done"
    <2>1. UNCHANGED vars
      BY <1>1 DEF Next, Harness, Done, Gateway, Start, NoWorkbook, Upload, Qualify, Poll,
         RequestFails, PreStatus, PreResults, PreArchive, PreArtifacts, Recreate,
         RecreateFails, Healthy, Observe, PostStatus, PostResults, SkipArtifact, FetchReport,
         EvidenceExists, ReportsFetched, SessionJobs, ListDrafts, ApproveDraft, Approve,
         Refused, ApprovalFails, NothingApproved, Assessment, Rows, Retry, RetryPoll, Lineage,
         GiveVerdict
    <2>2. QED
      BY <2>1 DEF vars
  <1>2. CASE pc # "done"
    <2>1. exit = -1
      BY <1>2 DEF RunInv, Running
    <2>2. \A label : ~Continue(label)
      BY <2>1 DEF Continue
    <2>3. \A code \in {1, 3} : \A files : ~Abort(code, files)
      BY DEF Abort
    <2>4. ~NoWorkbook
      BY DEF NoWorkbook
    <2>5. ~(RequestFails \/ RecreateFails \/ EvidenceExists \/ ApproveDraft)
      BY <2>2, <2>3, ApproveDraftSteps DEF RequestFails, RecreateFails, EvidenceExists
    <2>6. ~(Gateway \/ Done \/ UNCHANGED vars)
      BY <2>1 DEF Gateway, Done, vars
    <2>7. GiveVerdict
      BY <2>2, <2>4, <2>5, <2>6 DEF Next, Harness, Start, Upload, Qualify, Poll, PreStatus,
         PreResults, PreArchive, PreArtifacts, Recreate, Healthy, Observe, PostStatus,
         PostResults, SkipArtifact, FetchReport, ReportsFetched, SessionJobs, ListDrafts,
         NothingApproved, Assessment, Rows, Retry, RetryPoll, Lineage
    <2>8. QED
      BY <2>7 DEF GiveVerdict
  <1>3. QED
    BY <1>1, <1>2

OutlivedInv ==
  /\ RunInv
  /\ pc \in Settled => jobState = "COMPLETED"
  /\ pc \in PastStatus /\ passed => ~live
  /\ pc \in PastRows /\ passed => rows = 1
  /\ PassMeansOutlived

LEMMA OutlivedInit == Init => OutlivedInv
  <1> SUFFICES ASSUME Init PROVE OutlivedInv
    OBVIOUS
  <1>1. pc = "start" /\ exit = -1
    BY DEF Init, Running
  <1>2. pc \notin Settled /\ pc \notin PastStatus /\ pc \notin PastRows
    BY <1>1 DEF Settled, PastStatus, PastResults, PastReports, PastDrafts, PastApproval, PastRows
  <1>3. QED
    BY <1>1, <1>2, RunInit DEF OutlivedInv, PassMeansOutlived

LEMMA OutlivedStep == OutlivedInv /\ [Next]_vars => OutlivedInv'
  <1> SUFFICES ASSUME OutlivedInv, [Next]_vars PROVE OutlivedInv'
    OBVIOUS
  <1>1. RunInv /\ TypeOK /\ RunInv'
    BY RunInvStep DEF OutlivedInv, RunInv
  <1>2. ASSUME pc' \in Settled PROVE jobState' = "COMPLETED"
    <2>1. CASE PreStatus
      BY <2>1 DEF PreStatus, gateway
    <2>2. CASE pc \in Settled
      BY <1>1, <2>2, JobKept DEF OutlivedInv
    <2>3. QED
      BY <1>2, <2>1, <2>2, Entries
  <1>3. ASSUME pc' \in PastStatus, passed' PROVE ~live'
    <2>1. CASE PostStatus
      BY <1>3, <2>1 DEF PostStatus, Check, IsArchived, gateway
    <2>2. CASE pc \in PastStatus
      <3>1. pc \in Settled
        BY <2>2, Pasts
      <3>2. live' => live
        BY <1>1, <3>1, JobKept DEF OutlivedInv
      <3>3. QED
        BY <1>3, <2>2, <3>2, PassedFalls DEF OutlivedInv
    <2>3. QED
      BY <1>3, <2>1, <2>2, Entries
  <1>4. ASSUME pc' \in PastRows, passed' PROVE rows' = 1
    <2>1. CASE Rows
      BY <1>4, <2>1 DEF Rows, Check, gateway
    <2>2. CASE pc \in PastRows
      <3>1. pc \in Settled
        BY <2>2, Pasts
      <3>2. rows' = rows
        BY <1>1, <3>1, JobKept DEF OutlivedInv
      <3>3. QED
        BY <1>4, <2>2, <3>2, PassedFalls DEF OutlivedInv
    <2>3. QED
      BY <1>4, <2>1, <2>2, Entries
  <1>5. ASSUME exit' = 0 PROVE jobState' = "COMPLETED" /\ ~live' /\ rows' = 1
    <2>1. CASE pc = "verdict" /\ passed /\ UNCHANGED <<gateway, pre, todo, review>>
      BY <2>1, Pasts DEF OutlivedInv, gateway
    <2>2. CASE exit = 0 /\ UNCHANGED vars
      BY <2>2 DEF OutlivedInv, PassMeansOutlived, vars, gateway
    <2>3. QED
      BY <1>1, <1>5, <2>1, <2>2, FinalStep
  <1>6. QED
    BY <1>1, <1>2, <1>3, <1>4, <1>5 DEF OutlivedInv, PassMeansOutlived

\* A run passes only if the process that held the job is gone and the job is
\* answered from one row of the archive, whatever restarts come in between.
THEOREM PassOutlives == Spec => []PassMeansOutlived
  <1>1. OutlivedInv => PassMeansOutlived
    BY DEF OutlivedInv
  <1>2. QED
    BY <1>1, OutlivedInit, OutlivedStep, PTL DEF Spec
-----------------------------------------------------------------------------
(* What is compared.                                                       *)

Noted == {"recreate", "healthy", "observe", "post_status"} \cup PastStatus

LEMMA NotedEntry ==
  ASSUME [Next]_vars
  PROVE  pc' \in Noted => pc \in Noted \/ PreArtifacts
  <1>1. CASE pc' \in PastStatus
    <2>1. pc \in PastStatus \/ PostStatus
      BY <1>1, Entries
    <2>2. QED
      BY <2>1 DEF PostStatus, Noted
  <1>2. CASE pc' \in {"recreate", "healthy", "observe", "post_status"}
    BY <1>2 DEF Next, Harness, Done, vars, Gateway, Start, NoWorkbook, Upload, Qualify, Poll,
       RequestFails, PreStatus, PreResults, PreArchive, PreArtifacts, Recreate, RecreateFails,
       Healthy, Observe, PostStatus, PostResults, SkipArtifact, FetchReport, EvidenceExists,
       ReportsFetched, SessionJobs, ListDrafts, ApproveDraft, Approve, Refused, ApprovalFails,
       NothingApproved, Assessment, Rows, Retry, RetryPoll, Lineage, GiveVerdict, Continue,
       Abort, Noted
  <1>3. QED
    BY <1>1, <1>2 DEF Noted

LEMMA SnapshotSteps ==
  ASSUME [Next]_vars
  PROVE  /\ UNCHANGED pre \/ PreResults
         /\ UNCHANGED todo \/ PreArtifacts \/ SkipArtifact \/ FetchReport
  BY DEF Next, Harness, Done, vars, Gateway, Start, NoWorkbook, Upload, Qualify, Poll,
     RequestFails, PreStatus, PreResults, PreArchive, PreArtifacts, Recreate, RecreateFails,
     Healthy, Observe, PostStatus, PostResults, SkipArtifact, FetchReport, EvidenceExists,
     ReportsFetched, SessionJobs, ListDrafts, ApproveDraft, Approve, Refused, ApprovalFails,
     NothingApproved, Assessment, Rows, Retry, RetryPoll, Lineage, GiveVerdict

\* The loop over the artifacts leaves a report behind only if it is intact.
Compared ==
  \A a \in Range(archive.artifacts) :
    IsReport(a) => a.served = "intact" \/ a \in Range(todo)

FaithfulInv ==
  /\ OutlivedInv
  /\ pre.live => pre.results = "original"
  /\ pc \in PastResults /\ passed /\ pre.live => archive.same
  /\ pc \in Noted /\ passed => Compared
  /\ pc \in PastReports => todo = <<>>
  /\ PassMeansFaithful

LEMMA FaithfulInit == Init => FaithfulInv
  <1> SUFFICES ASSUME Init PROVE FaithfulInv
    OBVIOUS
  <1>1. pc = "start" /\ exit = -1 /\ pre = NoSnapshot
    BY DEF Init, Running
  <1>2. pc \notin PastResults /\ pc \notin Noted /\ pc \notin PastReports
    BY <1>1 DEF Noted, PastStatus, PastResults, PastReports, PastDrafts, PastApproval, PastRows
  <1>3. ~pre.live
    BY <1>1 DEF NoSnapshot
  <1>4. QED
    BY <1>1, <1>2, <1>3, OutlivedInit DEF FaithfulInv, PassMeansFaithful

LEMMA FaithfulStep == FaithfulInv /\ [Next]_vars => FaithfulInv'
  <1> SUFFICES ASSUME FaithfulInv, [Next]_vars PROVE FaithfulInv'
    OBVIOUS
  <1>1. OutlivedInv /\ RunInv /\ TypeOK /\ OutlivedInv'
    BY OutlivedStep DEF FaithfulInv, OutlivedInv, RunInv
  <1>t. todo \in Seq(Artifacts)
    BY <1>1, TypeParts DEF HarnessType
  <1>2. ASSUME pre'.live PROVE pre'.results = "original"
    <2>1. CASE PreResults
      BY <1>2, <2>1 DEF PreResults, Results
    <2>2. CASE UNCHANGED pre
      BY <1>2, <2>2 DEF FaithfulInv
    <2>3. QED
      BY <2>1, <2>2, SnapshotSteps
  <1>3. ASSUME pc' \in PastResults, passed', pre'.live PROVE archive'.same
    <2>1. CASE PostResults
      <3>1. pre' = pre /\ archive' = archive /\ ~live /\ Results = pre.results
        BY <1>3, <2>1 DEF PostResults, Check, IsArchived, gateway
      <3>2. pre.results = "original"
        BY <1>3, <3>1 DEF FaithfulInv
      <3>3. QED
        BY <3>1, <3>2 DEF Results
    <2>2. CASE pc \in PastResults
      <3>1. pc \in Settled /\ pc # "pre_results"
        BY <2>2 DEF Settled, PastStatus, PastResults, PastReports, PastDrafts, PastApproval,
           PastRows
      <3>2. pre' = pre
        BY <3>1, SnapshotSteps DEF PreResults
      <3>3. archive' = archive
        BY <1>1, <3>1, JobKept DEF OutlivedInv
      <3>4. QED
        BY <1>3, <2>2, <3>2, <3>3, PassedFalls DEF FaithfulInv
    <2>3. QED
      BY <1>3, <2>1, <2>2, Entries
  <1>4. ASSUME pc' \in Noted, passed' PROVE Compared'
    <2>1. CASE PreArtifacts
      BY <2>1 DEF PreArtifacts, Compared, gateway
    <2>2. CASE pc \in Noted
      <3>1. pc \in Settled /\ pc # "pre_artifacts"
        BY <2>2 DEF Noted, Settled, PastStatus, PastResults, PastReports, PastDrafts,
           PastApproval, PastRows
      <3>2. archive' = archive
        BY <1>1, <3>1, JobKept DEF OutlivedInv
      <3>3. Compared
        BY <1>4, <2>2, PassedFalls DEF FaithfulInv
      <3>4. CASE SkipArtifact \/ FetchReport
        <4>1. /\ todo # <<>> /\ todo' = Tail(todo)
              /\ IsReport(Head(todo)) => Head(todo).served = "intact"
          BY <1>4, <3>4 DEF SkipArtifact, FetchReport, Check
        <4>2. \A x \in Range(todo) : x = Head(todo) \/ x \in Range(Tail(todo))
          BY <1>t, <4>1, HeadOrTail
        <4>3. QED
          BY <3>2, <3>3, <4>1, <4>2 DEF Compared
      <3>5. CASE UNCHANGED todo
        BY <3>2, <3>3, <3>5 DEF Compared
      <3>6. QED
        BY <3>1, <3>4, <3>5, SnapshotSteps DEF PreArtifacts
    <2>3. QED
      BY <1>4, <2>1, <2>2, NotedEntry
  <1>5. ASSUME pc' \in PastReports PROVE todo' = <<>>
    <2>1. CASE ReportsFetched
      BY <2>1 DEF ReportsFetched
    <2>2. CASE pc \in PastReports
      <3>1. pc # "pre_artifacts" /\ pc # "artifacts"
        BY <2>2 DEF PastReports, PastDrafts, PastApproval, PastRows
      <3>2. todo' = todo
        BY <3>1, SnapshotSteps DEF PreArtifacts, SkipArtifact, FetchReport
      <3>3. QED
        BY <2>2, <3>2 DEF FaithfulInv
    <2>3. QED
      BY <1>5, <2>1, <2>2, Entries
  <1>6. ASSUME exit' = 0 PROVE PassMeansFaithful'
    <2>1. CASE pc = "verdict" /\ passed /\ UNCHANGED <<gateway, pre, todo, review>>
      <3>1. /\ pc \in PastResults /\ pc \in Noted /\ pc \in PastReports
            /\ archive' = archive /\ pre' = pre
        BY <2>1, Pasts DEF Noted, gateway
      <3>2. pre.live => archive.same
        BY <2>1, <3>1 DEF FaithfulInv
      <3>3. Compared /\ Range(todo) = {}
        <4>1. Compared /\ todo = <<>>
          BY <2>1, <3>1 DEF FaithfulInv
        <4>2. \A x : x \in Range(todo) <=> \E i \in 1 .. Len(todo) : x = todo[i]
          BY <1>t, RangeMembers
        <4>3. Len(todo) = 0
          BY <4>1
        <4>4. QED
          BY <4>1, <4>2, <4>3
      <3>4. \A a \in Range(archive.artifacts) : IsReport(a) => a.served = "intact"
        BY <3>3 DEF Compared
      <3>5. QED
        BY <3>1, <3>2, <3>4 DEF PassMeansFaithful
    <2>2. CASE exit = 0 /\ UNCHANGED vars
      BY <2>2 DEF FaithfulInv, PassMeansFaithful, vars, gateway
    <2>3. QED
      BY <1>1, <1>6, <2>1, <2>2, FinalStep
  <1>7. PassMeansFaithful'
    BY <1>6 DEF PassMeansFaithful
  <1>8. QED
    BY <1>1, <1>2, <1>3, <1>4, <1>5, <1>7 DEF FaithfulInv

\* A run that passes has compared what the archive serves with the hashes of its
\* listing, and its results with those of the live job.
THEOREM PassIsFaithful == Spec => []PassMeansFaithful
  <1>1. FaithfulInv => PassMeansFaithful
    BY DEF FaithfulInv
  <1>2. QED
    BY <1>1, FaithfulInit, FaithfulStep, PTL DEF Spec

-----------------------------------------------------------------------------
(* Approvals.                                                              *)

\* Decisions are for good: neither the harness nor a reviewer takes one back.
LEMMA DecisionsStay ==
  ASSUME TypeOK, [Next]_vars, pc \in Settled, jobState = "COMPLETED"
  PROVE  /\ DOMAIN drafts' = DOMAIN drafts
         /\ \A i \in DOMAIN drafts :
              drafts[i].review = "APPROVED" => drafts'[i].review = "APPROVED"
  <1>t. drafts \in Seq(Drafts)
    BY TypeParts DEF GatewayType
  <1>1. CASE UNCHANGED drafts
    BY <1>1
  <1>2. ASSUME NEW i, NEW r \in Reviews, drafts[i].review = "PENDING",
               drafts' = [drafts EXCEPT ![i].review = r]
        PROVE  /\ DOMAIN drafts' = DOMAIN drafts
               /\ \A k \in DOMAIN drafts :
                    drafts[k].review = "APPROVED" => drafts'[k].review = "APPROVED"
    <2>1. /\ DOMAIN drafts' = DOMAIN drafts
          /\ \A k \in DOMAIN drafts : k # i => drafts'[k] = drafts[k]
      BY <1>t, <1>2, DecisionKeepsList
    <2>2. QED
      BY <1>2, <2>1
  <1>3. CASE Gateway
    BY <1>1, <1>2, <1>3 DEF Gateway, JobEnds, GatewayRestarts, ReviewerDecides, Reviews
  <1>4. CASE ApproveDraft
    BY <1>1, <1>2, <1>4, ApproveDraftSteps DEF Approves, Reviews
  <1>5. CASE Qualify \/ RequestFails \/ Recreate \/ RecreateFails
    <2>1. pc # "qualify"
      BY DEF Settled, PastStatus, PastResults, PastReports, PastDrafts, PastApproval, PastRows
    <2>2. UNCHANGED drafts
      BY <1>5, <2>1 DEF Qualify, RequestFails, Recreate, RecreateFails, gateway
    <2>3. QED
      BY <1>1, <2>2
  <1>6. CASE UNCHANGED gateway
    BY <1>1, <1>6 DEF gateway
  <1>7. QED
    BY <1>3, <1>4, <1>5, <1>6, GatewaySteps

HasApproval == \E i \in DOMAIN drafts : drafts[i].review = "APPROVED"

LEMMA ApprovalStays ==
  ASSUME TypeOK, [Next]_vars, pc \in Settled, jobState = "COMPLETED", HasApproval
  PROVE  HasApproval'
  BY DecisionsStay DEF HasApproval

LEMMA ReviewSteps ==
  ASSUME [Next]_vars
  PROVE  /\ UNCHANGED listed \/ ListDrafts
         /\ UNCHANGED <<next, mine>> \/ ApproveDraft
         /\ pc' = "assessment" => pc = "assessment" \/ ApproveDraft
  <1>1. UNCHANGED listed \/ ListDrafts
    BY DEF Next, Harness, Done, vars, review, Gateway, Start, NoWorkbook, Upload, Qualify, Poll,
       RequestFails, PreStatus, PreResults, PreArchive, PreArtifacts, Recreate, RecreateFails,
       Healthy, Observe, PostStatus, PostResults, SkipArtifact, FetchReport, EvidenceExists,
       ReportsFetched, SessionJobs, ListDrafts, ApproveDraft, Approve, Refused, ApprovalFails,
       NothingApproved, Assessment, Rows, Retry, RetryPoll, Lineage, GiveVerdict
  <1>2. UNCHANGED <<next, mine>> \/ ApproveDraft
    BY DEF Next, Harness, Done, vars, review, Gateway, Start, NoWorkbook, Upload, Qualify, Poll,
       RequestFails, PreStatus, PreResults, PreArchive, PreArtifacts, Recreate, RecreateFails,
       Healthy, Observe, PostStatus, PostResults, SkipArtifact, FetchReport, EvidenceExists,
       ReportsFetched, SessionJobs, ListDrafts, NothingApproved, Assessment, Rows, Retry,
       RetryPoll, Lineage, GiveVerdict
  <1>3. pc' = "assessment" => pc = "assessment" \/ ApproveDraft
    BY DEF Next, Harness, Done, vars, Gateway, Start, NoWorkbook, Upload, Qualify, Poll,
       RequestFails, PreStatus, PreResults, PreArchive, PreArtifacts, Recreate, RecreateFails,
       Healthy, Observe, PostStatus, PostResults, SkipArtifact, FetchReport, EvidenceExists,
       ReportsFetched, SessionJobs, ListDrafts, NothingApproved, Assessment, Rows, Retry,
       RetryPoll, Lineage, GiveVerdict, Continue, Abort
  <1>4. QED
    BY <1>1, <1>2, <1>3

\* The list the harness took is that of the gateway, but for later decisions.
ListedStands ==
  /\ DOMAIN listed = DOMAIN drafts
  /\ \A i \in DOMAIN drafts :
       listed[i].review = "APPROVED" => drafts[i].review = "APPROVED"

ApprovalInv ==
  /\ OutlivedInv
  /\ next >= 1
  /\ pc \in PastDrafts => ListedStands
  /\ pc = "assessment" => HasApproval
  /\ pc \in PastApproval /\ passed => HasApproval
  /\ PassNeedsApproval

LEMMA ApprovalInit == Init => ApprovalInv
  <1> SUFFICES ASSUME Init PROVE ApprovalInv
    OBVIOUS
  <1>1. pc = "start" /\ exit = -1 /\ next = 1
    BY DEF Init, Running
  <1>2. pc \notin PastDrafts /\ pc \notin PastApproval
    BY <1>1 DEF PastDrafts, PastApproval, PastRows
  <1>3. QED
    BY <1>1, <1>2, OutlivedInit DEF ApprovalInv, PassNeedsApproval

LEMMA ApprovalStep == ApprovalInv /\ [Next]_vars => ApprovalInv'
  <1> SUFFICES ASSUME ApprovalInv, [Next]_vars PROVE ApprovalInv'
    OBVIOUS
  <1>1. OutlivedInv /\ RunInv /\ TypeOK /\ OutlivedInv'
    BY OutlivedStep DEF ApprovalInv, OutlivedInv, RunInv
  <1>t. /\ next \in Nat /\ next >= 1 /\ drafts \in Seq(Drafts)
        /\ Len(listed) \in Nat /\ DOMAIN listed = 1 .. Len(listed)
    BY <1>1, TypeParts, LenProperties DEF ApprovalInv, HarnessType, GatewayType
  <1>2. next' >= 1
    <2>1. CASE ApproveDraft
      BY <1>t, <2>1, ApproveDraftSteps
    <2>2. QED
      BY <1>t, <2>1, ReviewSteps
  <1>3. ASSUME pc' \in PastDrafts PROVE ListedStands'
    <2>1. CASE ListDrafts
      BY <2>1 DEF ListDrafts, ListedStands, gateway
    <2>2. CASE pc \in PastDrafts
      <3>1. pc \in Settled /\ pc # "drafts"
        BY <2>2 DEF Settled, PastStatus, PastResults, PastReports, PastDrafts, PastApproval,
           PastRows
      <3>2. listed' = listed
        BY <3>1, ReviewSteps DEF ListDrafts
      <3>3. /\ DOMAIN drafts' = DOMAIN drafts
            /\ \A i \in DOMAIN drafts :
                 drafts[i].review = "APPROVED" => drafts'[i].review = "APPROVED"
        BY <1>1, <3>1, DecisionsStay DEF OutlivedInv
      <3>4. QED
        BY <2>2, <3>2, <3>3 DEF ApprovalInv, ListedStands
    <2>3. QED
      BY <1>3, <2>1, <2>2, Entries
  <1>4. ASSUME pc \in Settled, HasApproval PROVE HasApproval'
    BY <1>1, <1>4, ApprovalStays DEF OutlivedInv
  <1>5. ASSUME pc' = "assessment" PROVE HasApproval'
    <2>1. CASE pc = "assessment"
      BY <1>4, <2>1 DEF ApprovalInv, Settled, PastStatus, PastResults, PastReports, PastDrafts
    <2>2. CASE ApproveDraft /\ pc # "assessment"
      <3>1. pc = "approve"
        BY <2>2 DEF ApproveDraft, Approve, Refused, ApprovalFails
      <3>2. PICK i \in next .. Len(listed) : Approves(i)
        BY <1>5, <2>2, ApproveDraftSteps DEF Continue, Abort
      <3>3. i \in DOMAIN drafts
        BY <1>t, <3>1, <3>2 DEF ApprovalInv, ListedStands, PastDrafts
      <3>4. DOMAIN drafts' = DOMAIN drafts /\ drafts'[i].review = "APPROVED"
        BY <1>t, <3>2, <3>3, DecisionKeepsList DEF Approves, Reviews
      <3>5. QED
        BY <3>3, <3>4 DEF HasApproval
    <2>3. QED
      BY <1>5, <2>1, <2>2, ReviewSteps
  <1>6. ASSUME pc' \in PastApproval, passed' PROVE HasApproval'
    <2>1. CASE NothingApproved
      <3>1. /\ pc = "approve" /\ drafts' = drafts
            /\ \E i \in DOMAIN listed : listed[i].review = "APPROVED"
        BY <1>6, <2>1 DEF NothingApproved, Check, gateway
      <3>2. ListedStands
        BY <3>1 DEF ApprovalInv, PastDrafts
      <3>3. QED
        BY <3>1, <3>2 DEF ListedStands, HasApproval
    <2>2. CASE Assessment
      <3>1. pc = "assessment" /\ pc \in Settled
        BY <2>2 DEF Assessment, Settled, PastStatus, PastResults, PastReports, PastDrafts
      <3>2. QED
        BY <1>4, <3>1 DEF ApprovalInv
    <2>3. CASE pc \in PastApproval
      <3>1. HasApproval /\ pc \in Settled
        BY <1>6, <2>3, PassedFalls, Pasts DEF ApprovalInv
      <3>2. QED
        BY <1>4, <3>1
    <2>4. QED
      BY <1>6, <2>1, <2>2, <2>3, Entries
  <1>7. ASSUME exit' = 0 PROVE HasApproval'
    <2>1. CASE pc = "verdict" /\ passed /\ UNCHANGED <<gateway, pre, todo, review>>
      <3>1. pc \in PastApproval /\ pc \in Settled
        BY <2>1, Pasts
      <3>2. QED
        BY <1>4, <2>1, <3>1 DEF ApprovalInv
    <2>2. CASE exit = 0 /\ UNCHANGED vars
      <3>1. HasApproval /\ drafts' = drafts
        BY <2>2 DEF ApprovalInv, PassNeedsApproval, HasApproval, vars, gateway
      <3>2. QED
        BY <3>1 DEF HasApproval
    <2>3. QED
      BY <1>1, <1>7, <2>1, <2>2, FinalStep
  <1>8. PassNeedsApproval'
    BY <1>7 DEF PassNeedsApproval, HasApproval
  <1>9. QED
    BY <1>1, <1>2, <1>3, <1>5, <1>6, <1>8 DEF ApprovalInv

\* A run passes only if a draft is approved, whoever decided about it.
THEOREM PassIsApproved == Spec => []PassNeedsApproval
  <1>1. ApprovalInv => PassNeedsApproval
    BY DEF ApprovalInv
  <1>2. QED
    BY <1>1, ApprovalInit, ApprovalStep, PTL DEF Spec

\* Until an approval can have reached the archive, the run has made none.
Decisive == PastApproval \cup {"assessment", "done"}

OneInv ==
  /\ ApprovalInv
  /\ pc \notin Decisive => mine = {}
  /\ mine = {} \/ \E i \in DOMAIN listed : mine = {i} /\ Open(i)

LEMMA OneInit == Init => OneInv
  <1> SUFFICES ASSUME Init PROVE OneInv
    OBVIOUS
  <1>1. mine = {}
    BY DEF Init
  <1>2. QED
    BY <1>1, ApprovalInit DEF OneInv

LEMMA OneStep == OneInv /\ [Next]_vars => OneInv'
  <1> SUFFICES ASSUME OneInv, [Next]_vars PROVE OneInv'
    OBVIOUS
  <1>1. ApprovalInv /\ TypeOK /\ ApprovalInv'
    BY ApprovalStep DEF OneInv, ApprovalInv, OutlivedInv, RunInv
  <1>t. next \in Nat /\ next >= 1 /\ Len(listed) \in Nat /\ DOMAIN listed = 1 .. Len(listed)
    BY <1>1, TypeParts, LenProperties DEF ApprovalInv, HarnessType
  <1>2. CASE ApproveDraft
    <2>1. pc = "approve" /\ listed' = listed
      BY <1>2, ApproveDraftSteps DEF ApproveDraft, Approve, Refused, ApprovalFails
    <2>2. mine = {}
      BY <2>1 DEF OneInv, Decisive, PastApproval, PastRows
    <2>3. CASE UNCHANGED mine
      BY <1>1, <2>2, <2>3 DEF OneInv
    <2>4. ASSUME NEW i \in next .. Len(listed), Candidate(i), Approves(i),
                 pc' \in {"assessment", "done"}
          PROVE  OneInv'
      <3>1. mine' = {i} /\ i \in DOMAIN listed'
        BY <1>t, <2>1, <2>2, <2>4 DEF Approves
      <3>2. Open(i)'
        BY <2>1, <2>4 DEF Candidate, Open
      <3>3. (pc \in Decisive)'
        BY <2>4 DEF Decisive
      <3>4. QED
        BY <1>1, <3>1, <3>2, <3>3 DEF OneInv
    <2>5. \/ UNCHANGED mine
          \/ \E i \in next .. Len(listed) :
               Candidate(i) /\ Approves(i) /\ pc' \in {"assessment", "done"}
      BY <1>2, ApproveDraftSteps DEF Continue, Abort
    <2>6. QED
      BY <2>3, <2>4, <2>5
  <1>3. CASE UNCHANGED mine
    <2>1. CASE ListDrafts
      <3>1. mine' = {}
        BY <1>3, <2>1 DEF ListDrafts, OneInv, Decisive, PastApproval, PastRows
      <3>2. QED
        BY <1>1, <3>1 DEF OneInv
    <2>2. CASE UNCHANGED listed
      <3>1. mine' = {} \/ \E i \in DOMAIN listed' : mine' = {i} /\ Open(i)'
        BY <1>3, <2>2 DEF OneInv, Open
      <3>2. pc \in Decisive => pc' \in Decisive
        BY DEF Next, Harness, Done, vars, Gateway, Start, NoWorkbook, Upload, Qualify, Poll,
           RequestFails, PreStatus, PreResults, PreArchive, PreArtifacts, Recreate,
           RecreateFails, Healthy, Observe, PostStatus, PostResults, SkipArtifact, FetchReport,
           EvidenceExists, ReportsFetched, SessionJobs, ListDrafts, ApproveDraft, Approve,
           Refused, ApprovalFails, NothingApproved, Assessment, Rows, Retry, RetryPoll, Lineage,
           GiveVerdict, Continue, Abort, Decisive, PastApproval, PastRows
      <3>3. QED
        BY <1>1, <1>3, <3>1, <3>2 DEF OneInv
    <2>3. QED
      BY <2>1, <2>2, ReviewSteps
  <1>4. QED
    BY <1>2, <1>3, ReviewSteps

\* A run approves one draft at the most, one it saw eligible and undecided.
THEOREM OneApproval == Spec => []ApprovesOneEligible
  <1>1. OneInv => ApprovesOneEligible
    <2> SUFFICES ASSUME OneInv PROVE ApprovesOneEligible
      OBVIOUS
    <2>1. CASE mine = {}
      BY <2>1, FS_EmptySet DEF ApprovesOneEligible
    <2>2. ASSUME NEW i \in DOMAIN listed, mine = {i}, Open(i) PROVE ApprovesOneEligible
      <3>1. Cardinality(mine) = 1
        BY <2>2, FS_Singleton
      <3>2. QED
        BY <2>2, <3>1 DEF ApprovesOneEligible
    <2>3. QED
      BY <2>1, <2>2 DEF OneInv
  <1>2. QED
    BY <1>1, OneInit, OneStep, PTL DEF Spec
=============================================================================
