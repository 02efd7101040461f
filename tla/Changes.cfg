INIT ChangesInit
NEXT ChangesNext
CONSTANTS
  None = None
  patchA = patchA
  patchB = patchB
  PatchIds = {patchA, patchB}
  VerificationIds = {1, 2, 3}
  ApplyIds = {a1, a2}
  Profiles = {"Explore", "Implement", "Test", "Review", "Verify"}
  FrozenProfile <- MCFrozenProfile
  TestPlanCount = 1
  MaxWorkerTurns = 10
  Times = {1, 2}
  a1 = a1
  a2 = a2
  s1 = s1
  s2 = s2
  Sessions = {s1, s2}
  MaxEdits = 1
  MaxCalls = 3
  p1 = p1
  p2 = p2
  Hooks = {p1, p2}
  HookSessions = {"session"}
  Turns = {"t1", "t2"}
  HookNeeds = {"need"}
  DigestRank <- MCDigestRank
  MaxStateEntries = 1
  LastRevision = 2
  LastRoutes = 2
  MaxStops = 3
  MaxSessionStarts = 2
SYMMETRY MCSymmetry
CHECK_DEADLOCK FALSE
INVARIANTS
  RepairOnce
  AppliesAreLicensed
  BoundAgreement
  VerdictOfTheBase
  RepairingHasARepairer
  HookContinuations
PROPERTIES
  BoundFailureIsFinal
