SPECIFICATION FairSpec
CONSTANTS
  a = a
  b = b
  Stations <- One
  Passphrase <- AllMain
  Security <- Mixed
  GuestPSK = FALSE
  GKRekeyTime = TRUE
  MaxResendNum = 2
  SkbMayFail = FALSE
  Budget <- EventsEnd
CHECK_DEADLOCK FALSE
PROPERTY HandshakeEnds
