CONSTANTS
  Call = {c1}
  MaxChunks = 2
SPECIFICATION Spec
INVARIANTS StatusMeansWholeBody
CHECK_DEADLOCK FALSE
