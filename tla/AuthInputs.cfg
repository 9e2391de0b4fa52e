SPECIFICATION RouteSpec
CONSTANTS
  P = 7
  Q = 3
  G = 2
  Texts <- MCTexts
  ValueOf <- MCValueOf
  DigestValue <- MCDigestValue
  NotHex = NotHex
  FakeY = "0000"
  Blank = ""
  None = None
  r1 = r1
  r2 = r2
  c1 = c1
  v1 = v1
  v2 = v2
  Registers = {r1}
  Challenges = {c1}
  Verifies = {v1}
  Usernames = {"alice", "bob"}
  RegisterBodies <- MixRegisters
  ChallengeBodies <- MixChallenges
  VerifyBodies <- MixVerifies
  ChallengeTTL = 120
  m1 = m1
  Visits = {m1}
  ExpireSeconds = 2
  Second = 2
  Horizon = 6
INVARIANTS
  TypeOK
  GrantIsAuthentic
  FakeChallengeNeverGranted
  AuditTellsTheTruth
  ServerErrorNeedsAFault
  OnlyRecentLoginsAreAuthorized
  TokenLivesItsTime
