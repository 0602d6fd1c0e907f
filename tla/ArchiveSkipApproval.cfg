\* The finding: --skip-approval is parsed and never read.
CONSTANTS
  CommandLines <- ReadOnly
  ArtifactLists <- SomeArtifacts
  DraftLists <- SomeDrafts
SPECIFICATION Spec
INVARIANTS
  SkipApprovalIsReadOnly
