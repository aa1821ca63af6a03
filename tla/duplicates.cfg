SPECIFICATION Spec
CONSTANTS
  a = a
  b = b
  Stations <- Two
  Passphrase <- MainAndGuest
  Security <- MixedRev
  GuestPSK = TRUE
  GKRekeyTime = TRUE
  MaxResendNum = 1
  SkbMayFail = FALSE
  Budget <- EventsDup
CHECK_DEADLOCK FALSE
INVARIANT KeyConfirmed
PROPERTY Agreement
