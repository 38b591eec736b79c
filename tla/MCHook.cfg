CONSTANTS
  send = send
  post = post
  quit = quit
  check = check
  ping = ping
  kick = kick
  void = void
  bsend = bsend
  bpost = bpost
  bcheck = bcheck
  bping = bping
  bkick = bkick
  pre_send = pre_send
  post_prefix = post_prefix
  ret_void = ret_void
  ret_bool = ret_bool
  Null = Null
  NoPatch = NoPatch
  Torn = Torn
  Thread = {t1}
  Method <- mcMethod
  Body <- mcBody
  Stub <- mcStub
  WrapStub <- mcWrapStub
  BodyOf <- mcBodyOf
  Ends <- mcEnds
  Bounds <- mcBounds
  PosDep <- mcPosDep
  Near = {bsend}
  Plan <- mcPlan
  PageSize = 70
  Depth = 3
SPECIFICATION FairSpec
INVARIANTS TypeOK TrampolinesPacked OriginalReachable ReentryOnlyInWindow OriginalResumesBody
PROPERTIES ImplementsIntercept SettledCallsReturn
CHECK_DEADLOCK FALSE
