CONSTANTS
  Eps = {0, 1, 2}
  Groups = {"dev", "host", "otg"}
  MaxUsbCalls = 2
  MaxRaised = 1
  MaxPacketsSent = 3
  MaxResets = 1
  MaxReplies = 1
  SUNXI_USB_DMA_A50_MAX = 8
  Buf = {b1, b2}
  NoBuf = null
  TBuf = {t1, t2}
  Pages = {1, 2}
  StopsFirst = TRUE
SPECIFICATION MCSpec
INVARIANTS
  EndpointKept
  ChangeKept
  SetupServed
  Ep0Follows
  IsrSafe
  ResourcesReturned
  DmaIntoOwned
PROPERTIES
  HandlerReturns
CHECK_DEADLOCK FALSE
