\* Any bus event, and hardware that moves while sunxi_usb_irq runs.
SPECIFICATION Spec
CONSTANTS
  MaxCmds = 2
  MaxPackets = 2
  Shapes = {"full", "short", "odd"}
  MaxBusEvents = 2
  BusEvents = {"reset", "suspend", "resume", "disconnect"}
  QueueMax = 4
  IsrWindow = TRUE
INVARIANTS
  CompletionNotLost
CHECK_DEADLOCK FALSE
