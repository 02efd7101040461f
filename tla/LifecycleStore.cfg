SPECIFICATION MCSpec
CONSTANTS
  None = None
  p1 = p1
  p2 = p2
  patchA = patchA
  patchB = patchB
  Parents = {p1, p2}
  PatchIds = {patchA, patchB}
  VerificationIds = {v1}
  ApplyIds = {a1, a2}
  Profiles = {"Explore", "Implement", "Test", "Review", "Verify"}
  FrozenProfile <- MCFrozenProfile
  TestPlanCount = 2
  MaxWorkerTurns = 10
  TurnChoices = {1, 2}
  ArtifactLists <- MCArtifactLists
  Files <- MCFiles
  Operation <- MCOperation
  OtherPaths = {"other"}
  InDoubt = InDoubt
  MaxFaults = 2
  MaxEdits = 2
INVARIANTS
  GenerationCountsProgress
  LegalTransitionNeverRefused
  ReplayMatchesProjection
  TestEvidenceOfCurrentPatch
  JournalIsTrue
PROPERTIES
  TerminalIsFinal
  AppliesAtomically
  RecoverySettles
