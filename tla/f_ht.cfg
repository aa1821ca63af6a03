SPECIFICATION Spec
CONSTANTS
  Slots = {s1}
  NoSlot = NoSlot
  Addrs = {a}
  NoAddr = NoAddr
  CamEntries = {c1}
  ExpireTo = 1
  AuthTo = 1
  AssocTo = 1
  Algorithms = {"open"}
  AuthSeqs = {1}
  HTAddrs = {a}
  Dot118021x = TRUE
  HTModulus = 4
PROPERTY HtNeverUnderflows
