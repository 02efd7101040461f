SPECIFICATION KSpec
CONSTANTS
  None = None
  PatchIds = {patchA, patchB}
  VerificationIds = {1, 2}
  ApplyIds = {a1}
  Profiles = {"Explore", "Implement", "Test", "Review", "Verify"}
  FrozenProfile <- MCFrozenProfile
  TestPlanCount = 1
  MaxWorkerTurns = 6
  Times = {1}
  Kernels = {"k1", "k2"}
  TurnChoices = {1, 2}
  Verdicts = {"Verified", "Rejected", "Repairable", "Inconclusive"}
  MaxCrashes = 1
CHECK_DEADLOCK FALSE
INVARIANTS
  ReservationConsumable
  WorkDoneOnce
PROPERTIES
  ReachesSecondRevision
