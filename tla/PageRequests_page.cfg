CONSTANTS
  RemaCalls = {r1, r2}
  QueuedCalls = {q1, q2, q3}
  TimedCalls = {q1, q2}
  InProgress = InProgress
  NoCall = NoCall
  MaxClock = 2
  BodiesMayBeLate = TRUE
SPECIFICATION FairSpec
INVARIANTS
  TypeOK
  CallbacksAreTheirOwn
  QueueHoldsBack
PROPERTIES
  QueueTakesTurns
  QueueDrains
CHECK_DEADLOCK FALSE
