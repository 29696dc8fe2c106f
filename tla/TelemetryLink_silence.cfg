SPECIFICATION FairSpec
CONSTANTS
  WatchdogTicks <- WatchdogSeconds
  ConnectTicks <- ConnectionTimeout
  MaxReconnects = 2
  RtuMayFallSilent = TRUE
INVARIANTS
  TypeOK
  WatchdogIsPatient
  SilenceHasADeadline
PROPERTIES
  SilenceIsNoticed
CHECK_DEADLOCK FALSE
