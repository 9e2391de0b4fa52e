SPECIFICATION LegacySpec
CONSTANTS
  P = 7
  Q = 3
  G = 2
  Texts <- MCTexts
  ValueOf <- MCValueOf
  DigestValue <- MCDigestValue
  NotHex = NotHex
  FakeY = "0000"
  Blank = ""
  None = None
  r1 = r1
  r2 = r2
  c1 = c1
  v1 = v1
  v2 = v2
  Registers = {r1, r2}
  Challenges = {c1}
  Verifies = {v1, v2}
  Usernames = {"alice"}
  RegisterBodies <- ReplayRegisters
  ChallengeBodies <- RaceChallenges
  VerifyBodies <- RaceVerifies
  ChallengeTTL = 120
  DevProofs = {r2}
  DevBodies <- MCDevBodies
  Routes <- MCRoutes
  LimitOf <- MCLimitOf
  Repeats = 2
  MaxFailures = 1
SYMMETRY ReplaySymmetry
INVARIANTS
  LoginIsAuthentic
  NoSequentialReplay
  SecondRowHasACause
  
