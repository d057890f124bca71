SPECIFICATION Spec
CONSTANTS
  Drivers <- DriverNames
  Keys <- TwoKeys
  Bare <- OneBareKey
INVARIANTS
  TypeOK
  EnvOutlivesDb
  ClosedHoldsNoHandle
  CloseSaves
PROPERTIES
  SelectAgrees
  CheckedReplaceStores
