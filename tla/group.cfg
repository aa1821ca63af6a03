SPECIFICATION Spec
CONSTANTS
  a = a
  b = b
  Stations <- Two
  Passphrase <- AllMain
  Security <- Mixed
  GuestPSK = FALSE
  GKRekeyTime = TRUE
  MaxResendNum = 1
  SkbMayFail = FALSE
  Budget <- EventsGroup
CHECK_DEADLOCK FALSE
INVARIANT GTKReady
INVARIANT ReplayCountersAccepted
INVARIANT GroupKeyHeld
INVARIANT HandshakeSupervised
