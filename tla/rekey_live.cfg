SPECIFICATION LiveSpec
CONSTANTS
  a = a
  b = b
  Stations <- Two
  Passphrase <- AllMain
  Security <- Mixed
  GuestPSK = FALSE
  GKRekeyTime = TRUE
  MaxResendNum = 1
  SkbMayFail = FALSE
  Budget <- EventsRekey
CHECK_DEADLOCK FALSE
PROPERTY RekeyCompletes
