SPECIFICATION Spec
CONSTANTS
  None = None
  Applications <- SomeApplications
  Deployables <- SomeDeployables
  BuildRuns = 2
  MaxRewrites = 1
  Flaws = {"broken", "package"}
  Areas = {"all", "package"}
  CommandRuns = 2
  MaxEdits = 1
  Builds <- SomeBuilds
  MaxBuilds = 1
  Hidden = {"current"}
INVARIANTS
  BoundariesAreFound
  ManifestsAgree
  VerifiedIsWhole
  EvidenceIsOfTheBuild
CHECK_DEADLOCK FALSE
