SPECIFICATION Spec
CONSTANTS
  a = a
  b = b
  Stations <- One
  Passphrase <- AllMain
  Security <- AllWPA2
  GuestPSK = FALSE
  GKRekeyTime = TRUE
  MaxResendNum = 1
  SkbMayFail = FALSE
  Budget <- EventsResent
CHECK_DEADLOCK FALSE
PROPERTY DuplicateIsNotMsg4
