\* Cancel of running and paused operations and at shutdown; nothing minimized by the user
SPECIFICATION Spec
CONSTANTS
  Dlgs = {d1, d2}
  d1 = d1
  d2 = d2
  IdleFlags = {FALSE}
  MaxClicks = 3
  MayCancel = TRUE
  MayOpenMenu = FALSE
  MayMinimize = FALSE
  MayShutDown = TRUE
PROPERTIES
  CancelGetsThrough
\* every operation may end
CHECK_DEADLOCK FALSE
