SPECIFICATION Spec
CONSTANTS
  WatchdogTicks <- WatchdogSeconds
  ConnectTicks <- ConnectionTimeout
  MaxReconnects = 1
  RtuMayFallSilent = FALSE
INVARIANTS
  ConnectWakesTheLoop
CHECK_DEADLOCK FALSE
