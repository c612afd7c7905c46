SPECIFICATION Spec
CONSTANTS
  Regulators <- MCRegulators
  MaxCalls = 2
INVARIANTS
  ScreenRuns
  BacklightNeedsPicture
PROPERTY
  PictureShown
CHECK_DEADLOCK FALSE
