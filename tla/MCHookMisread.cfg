CONSTANTS
  send = send
  post = post
  quit = quit
  check = check
  ping = ping
  kick = kick
  void = void
  bsend = bsend
  bpost = bpost
  bcheck = bcheck
  bping = bping
  bkick = bkick
  pre_send = pre_send
  post_prefix = post_prefix
  ret_void = ret_void
  ret_bool = ret_bool
  Null = Null
  NoPatch = NoPatch
  Torn = Torn
  Thread = {t1}
  Method <- mcMethod
  Body <- mcBody
  Stub <- mcStub
  WrapStub <- mcWrapStub
  BodyOf <- mcUnfolded
  Ends <- mcShortEnds
  Bounds <- mcShortBounds
  PosDep <- mcPosDep
  Near = {bsend}
  Plan <- mcHttpPlan
  PageSize = 60
  Depth = 3
SPECIFICATION Spec
INVARIANTS TrampolineRunsPrologue
CHECK_DEADLOCK FALSE
