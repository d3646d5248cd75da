SPECIFICATION FairSpec
CONSTANTS
  a1 = a1
  a2 = a2
  Actions = {a1, a2}
  Enforce = TRUE
  MaxFail = 2
  MaxCrash = 1
INVARIANTS AdmittedOnly ObservedKept NoneLeftOpen
PROPERTIES NoUnknownAfter SavedDelivered
