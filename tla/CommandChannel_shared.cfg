CONSTANTS
  Workers = {w1, w2}
  Nobody = Nobody
  Requests = {"raw", "exec", "connect", "settings"}
  Pieces = 2
  MaxSockets = 2
  MaxCommands = 3
  LinkMayFail = TRUE
SPECIFICATION FairSpec
INVARIANTS
  TypeOK
  AnswersAreTheirOwn
PROPERTIES
  CommandsReturn
CHECK_DEADLOCK FALSE
