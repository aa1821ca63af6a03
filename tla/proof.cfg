SPECIFICATION Spec
CONSTANTS
  a = a
  b = b
  Stations <- Two
  Passphrase <- GuestAndWrong
  Security <- MixedRev
  GuestPSK = TRUE
  GKRekeyTime = TRUE
  MaxResendNum = 1
  SkbMayFail = TRUE
  Budget <- EventsProof
CHECK_DEADLOCK FALSE
INVARIANT TypeOK
INVARIANT PortImpliesProof
