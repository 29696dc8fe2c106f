\* One handler after another, no other command on the connection, which may be
\* lost at any moment.
CONSTANTS
  Workers = {w1}
  Requests = {"determine_tube_center", "determine_tubesheet_z",
              "axes_hard_stop_all", "axes_soft_stop_all", "move_joystick",
              "move_incremental", "go_to_tube", "set_home", "tools_select",
              "REMA_connect"}
  MaxRequests = 3
  PointsNumber = 3
  SequencesQueued = TRUE
  TelemetryTimely = TRUE
  LinkMayFail = TRUE
SPECIFICATION FairSpec
INVARIANTS
  StepResultsAreTheirOwn
  HomeIsSetAtRest
PROPERTIES
  OnlyExceptionsLeaveItUp
  RequestsAreAnswered
CHECK_DEADLOCK FALSE
