SPECIFICATION Spec
CONSTANTS
  Slots = {s1, s2}
  NoSlot = NoSlot
  Addrs = {a, b, c}
  NoAddr = NoAddr
  CamEntries = {c1}
  ExpireTo = 1
  AuthTo = 1
  AssocTo = 1
  Algorithms = {"shared"}
  AuthSeqs = {1, 3}
  HTAddrs = {}
  Dot118021x = TRUE
  HTModulus = 4
SYMMETRY Symmetry
CONSTRAINT Explored
ACTION_CONSTRAINT Undisturbed
INVARIANTS TypeOK TableConsistent AssocCounted AuthListTimed CamCounted PeriodEnforced
