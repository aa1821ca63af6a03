SPECIFICATION Spec
CONSTANTS
  assoc = assoc
  eap = eap
  none = none
  Events <- AssocAndEap
  NoEvent = none
  MaxItem = 4
CONSTRAINT Bounded
INVARIANT TypeOK
PROPERTY FifoImplemented
