\* Instances of SunxiDma for TLC: two channels in the first interrupt word
\* and one in the second, so that masks can hit a neighbour and the last
\* channel lies past the handler's loop as channel 15 does in the code.
SPECIFICATION Spec
CONSTANTS
  SUNXI_DMA_MAX = 3
  HalfChan = 2
  IsrTop = 2
INVARIANT
  AssertedIsServed
CHECK_DEADLOCK FALSE
