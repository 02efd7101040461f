CONSTANTS
  SemanticNeeds <- MCNeeds
  WorkerResults <- MCResults
  DeclaredPlans <- MCDeclared
  FirstTree <- MCTree
  Edits <- MCEdits
  MaxSourceEdits = 1
  MaxCalls = 2
  MaxAuthority = 2
  MaxDerivation = 3
  MaxArtifacts = 2
  MaxSelectedClaims = 16
  MaxClaimCandidates = 64
  MaxClaimOrigins = 8
  TestSources = {"t"}
  MaxClaims = 32
  MaxEvidencePaths = 8
  MaxPatchFiles = 2
  MaxDiffBytes = 5
  MaxFinalBytes = 3
  MaxAllowedPaths = 2
  MaxVerifierPlans = 2
  PatchTasks <- MCPatchTasks
  VerdictTasks <- MCVerdictTasks
  PlanTasks <- MCPlanTasks
  ManifestTasks <- MCManifestTasks
  ClaimTasks <- MCClaimTasks
  LedgerTasks <- MCLedgerTasks
  AgentNeeds = {{"o1"}}
  MaxNeedsPerTask = 2
  MaxWorkersPerTask = 1
  MaxPendingNeeds = 1
  MaxEmissions = 3
  MaxWire = 1
INIT EvidenceInit
NEXT EvidenceNext
INVARIANTS
  NeedsAnsweredInOrder
  ClosedTurnsAreOver
  ReusedEvidenceHolds
  FragmentAndReuseCoverTheNeed
  ChangeDecisionsHold
  EvidenceDecisionsHold
CHECK_DEADLOCK FALSE
