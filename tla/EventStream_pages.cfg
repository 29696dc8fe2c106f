CONSTANTS
  Workers = {w1}
  Names = {s1, s2}
  NoName = NoName
  Tubes = {t1, t2}
  MaxRequests = 4
  Pages = {p1}
  MaxInFlight = 1
SPECIFICATION FairSpec
INVARIANTS
  TypeOK
  MarksAreSavedOrFlagged
PROPERTIES
  StoreIsAtomic
  MarksReachTheFile
  DialogCloses
CHECK_DEADLOCK FALSE
