CONSTANTS
  Call = {c1, c2}
  MaxChunks = 2
SPECIFICATION FairSpec
INVARIANTS TypeOK HandlesNested
PROPERTIES ImplementsExchange CallsReturn
CHECK_DEADLOCK FALSE
