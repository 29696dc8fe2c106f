\* A stop against a handler whose calls have several steps; the threads run
\* and the RTU answers.
CONSTANTS
  Workers = {w1, w2}
  Requests = {"determine_tubesheet_z", "axes_hard_stop_all"}
  MaxRequests = 2
  PointsNumber = 1
  SequencesQueued = TRUE
  TelemetryTimely = TRUE
  LinkMayFail = FALSE
SPECIFICATION FairSpec
INVARIANTS
  TypeOK
  OverruledCallsAreOver
  OneMoveAfterCancel
PROPERTIES
  ArbiterSpec
  StopIsSent
CHECK_DEADLOCK FALSE
