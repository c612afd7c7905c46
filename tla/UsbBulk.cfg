\* No bus reset; the hardware stands still while sunxi_usb_irq runs.
SPECIFICATION FairSpec
CONSTANTS
  MaxCmds = 2
  MaxPackets = 2
  Shapes = {"full", "short", "odd"}
  MaxBusEvents = 2
  BusEvents = {"suspend", "resume", "disconnect"}
  QueueMax = 4
  IsrWindow = FALSE
INVARIANTS
  CommandIntact
  TxExact
  RxEventComplete
PROPERTIES
  Answered
CHECK_DEADLOCK FALSE
