\* The move to the tubesheet fails, the retraction is still made.
CONSTANTS
  Workers = {w1}
  Requests = {"determine_tubesheet_z"}
  MaxRequests = 1
  PointsNumber = 1
  SequencesQueued = TRUE
  TelemetryTimely = TRUE
  LinkMayFail = FALSE
SPECIFICATION Spec
INVARIANT RetractIsFromTubesheet
CHECK_DEADLOCK FALSE
