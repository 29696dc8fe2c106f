SPECIFICATION Spec
CONSTANTS
  Tools = {t1, t2, t3}
  Picks = {p1}
  Torn = Torn
  EditsInUse = FALSE
SYMMETRY ToolSymmetry
INVARIANTS
  TypeOK
  ProbeFollowsTool
  SelectionIsSaved
CHECK_DEADLOCK FALSE
