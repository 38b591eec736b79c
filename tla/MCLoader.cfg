CONSTANTS
  Loader = {l1, l2}
  MaxPolls = 2
SPECIFICATION FairSpec
INVARIANTS TypeOK NoCopyLeft PathOutlivesReader ZeroMeansLoaded
PROPERTIES MyoinkEnds
CHECK_DEADLOCK FALSE
