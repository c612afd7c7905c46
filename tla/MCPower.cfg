CONSTANTS
  Chips = {"Axp81X", "Axp22x", "Axp809", "Axp806", "Axp808"}
  MaxCalls <- MCCalls
  Sequel = {"dc5ldo", "gpio0ldo", "vbusen"}
  InitRegs <- MCRegs
  Devices = {"Axp81X", "Axp22x", "Axp809", "Axp806", "Axp808"}
  Versions <- MCVersions
  Masks <- MCMasks
  MaxEvents = 2
  Garbage <- MCGarbage
SPECIFICATION MCSpec
INVARIANTS
  ReadsBack
  RequestsKept
  InterruptsKept
PROPERTIES
  VoltageBeforeOn
  FirstReported
CHECK_DEADLOCK FALSE
