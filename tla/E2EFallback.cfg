\* One direct job after a chat in which the agent did not call the tool.
CONSTANTS
  MaxJobs = 2
  ArtifactLists <- SomeLists
  MaxAgentJobs = 1
  MaxPollErrors = 3
SPECIFICATION Spec
INVARIANTS
  FallbackReported
