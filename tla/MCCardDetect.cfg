SPECIFICATION MCSpec
CONSTANTS
  Pins <- MCPins
  NoPin <- MCNoPin
  Board <- MCBoard
  Patches <- MCPatches
  MaxPinCalls = 4
  MaxHandles = 2
  MaxToggles = 1
  small = small
  large = large
  bad = bad
  NoCard = NoCard
  Cards <- MCCards
  BadCards = {bad}
  Capacity <- MCCapacity
  LbaModulus = 8
  InitTicks = 4
  MaxSwaps = 3
  BlockSize = 512
  EntryNum = 8
  EntrySize = 128
  LastLba = 262143
  Images <- MCImages
  MaxFlashCalls = 3
INVARIANTS
  InstalledIsLive
  AssertExplained
  GptSurvives
  TablesTrue
  ConfigKept
PROPERTIES
  SlotFollowed
CHECK_DEADLOCK FALSE
