SPECIFICATION Spec
CONSTANTS
  P = 23
  Q = 11
  G = 2
  Texts <- NoTexts
  ValueOf <- NoValues
  NotHex = NotHex
  DigestValue <- NoDigest
  Digests <- SomeDigests
  Guesses <- SomeGuesses
INVARIANTS
  HonestProofAccepted
  OnlyTheAnswerIsAccepted
