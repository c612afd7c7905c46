\* The instance of SunxiQueue that TLC checks: a ring of four slots, small
\* enough that every alignment of Head and Tail, the full ring and the
\* wrap-around are reached, with two distinguishable events.
SPECIFICATION Spec
CONSTANTS
  Item = {e1, e2}
  NoItem = none
  MaxItermCount = 3
INVARIANTS
  CopiedSlotStable
PROPERTIES
  ImplementsFifo
