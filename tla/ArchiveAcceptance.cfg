\* A job with up to two drafts and two reports. Deadlock is checked.
CONSTANTS
  CommandLines <- Approving
  ArtifactLists <- SomeArtifacts
  DraftLists <- SomeDrafts
SPECIFICATION FairSpec
INVARIANTS
  TypeOK
  PassMeansOutlived
  PassMeansFaithful
  PassNeedsApproval
  ApprovesOneEligible
PROPERTIES
  ImplementsEvidenceRun
  Terminates
