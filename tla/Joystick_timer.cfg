\* One press of an arrow, released where the document does not see it.
SPECIFICATION FairJoystick
CONSTANTS
  Sockets = {s1, s2}
  Commands = {"go", "SS"}
  MaxReconnectAttempts = 1
  LinkMayFail = TRUE
  Keys = {k1}
  MaxPresses = 1
PROPERTY UnseenReleasesAreForced
CHECK_DEADLOCK FALSE
