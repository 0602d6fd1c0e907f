\* An agent that may call the tool twice, and a direct job. Deadlock is checked.
CONSTANTS
  MaxJobs = 3
  ArtifactLists <- SomeLists
  MaxAgentJobs = 2
  MaxPollErrors = 3
SPECIFICATION FairSpec
INVARIANTS
  TypeOK
  SuccessMeansAccepted
  VerdictAgrees
  WrittenOnce
PROPERTIES
  ImplementsEvidenceRun
  Terminates
