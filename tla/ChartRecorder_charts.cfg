CONSTANTS
  Handlers = {h1, h2}
  Directions = {xy}
  None = None
  MaxFrames = 2
  MaxRequests = 2
SPECIFICATION FairSpec
INVARIANTS
  TypeOK
  ChartsDoNotMix
  EveryMoveIsRecordedOnce
PROPERTIES
  MessagesAreServed
CHECK_DEADLOCK FALSE
