SPECIFICATION FairJoystick
CONSTANTS
  Sockets = {s1, s2}
  Commands = {"go", "SS"}
  MaxReconnectAttempts = 2
  LinkMayFail = TRUE
  Keys = {k1, k2}
  MaxPresses = 3
INVARIANTS
  TypeOK
  OneLiveSocket
PROPERTIES
  SocketIsALine
  LateMovesAreStopped
  Reconnects
  QueuedGoesOut
CHECK_DEADLOCK FALSE
