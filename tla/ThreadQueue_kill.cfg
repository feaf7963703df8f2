\* three threads that start and wait for each other while the plug-in stops them
SPECIFICATION FairSpec
CONSTANTS
  Main = Main
  Threads = {t1, t2, t3}
  t1 = t1
  t2 = t2
  t3 = t3
  Handles = {h1, h2, h3}
  h1 = h1
  h2 = h2
  h3 = h3
  Waiters = {t1, t2}
  Killers = {t2}
  Sleeps = 1
  None = None
INVARIANTS
  LockedHandleIsKept
PROPERTIES
  UnloadingIsSafe
  KillAllReturns
\* every thread may have ended, or wait for itself
CHECK_DEADLOCK FALSE
