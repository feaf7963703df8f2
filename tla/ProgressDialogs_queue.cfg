\* three operations, started idle or not; pause, cancel, minimize and the drop-down menu
SPECIFICATION Spec
CONSTANTS
  Dlgs = {d1, d2, d3}
  d1 = d1
  d2 = d2
  d3 = d3
  IdleFlags = {TRUE, FALSE}
  MaxClicks = 3
  MayCancel = TRUE
  MayOpenMenu = TRUE
  MayMinimize = TRUE
  MayShutDown = FALSE
INVARIANTS
  PausedWorkerIsSuspended
  SomebodyWillResume
\* every operation may end
CHECK_DEADLOCK FALSE
