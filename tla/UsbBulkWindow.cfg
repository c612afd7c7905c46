\* The hardware moves while sunxi_usb_irq runs: a completion raised between
\* usb_dma_int_query and usb_dma_int_clear is cleared unread.
SPECIFICATION Spec
CONSTANTS
  MaxCmds = 1
  MaxPackets = 2
  Shapes = {"full", "short", "odd"}
  MaxBusEvents = 0
  BusEvents = {}
  QueueMax = 4
  IsrWindow = TRUE
INVARIANTS
  CompletionDelivered
CHECK_DEADLOCK FALSE
