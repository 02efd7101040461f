SPECIFICATION KSpec
CONSTANTS
  None = None
  PatchIds = {patchA, patchB}
  VerificationIds = {1, 2}
  ApplyIds = {a1}
  Profiles = {"Explore", "Implement", "Test", "Review", "Verify"}
  FrozenProfile <- MCFrozenProfile
  TestPlanCount = 1
  MaxWorkerTurns = 7
  Times = {1}
  Kernels = {"k1"}
  TurnChoices = {1}
  Verdicts = {"Verified", "Rejected", "Repairable", "Inconclusive"}
  MaxCrashes = 0
CHECK_DEADLOCK FALSE
PROPERTIES
  KernelStopsAtApproval
