SPECIFICATION Spec
CONSTANTS
  Drivers <- DriverNames
  Keys <- TwoKeys
  Bare <- OneBareKey
PROPERTIES
  SuccessIsTrue
