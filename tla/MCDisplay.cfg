SPECIFICATION Spec
CONSTANTS
  Chns = {0, 1}
  ViChns = {0}
  VepChns = {0}
  Lays = {0, 1}
  MaxCalls = 2
INVARIANTS
  NoTornFrame
  AppliedIsInRegisters
