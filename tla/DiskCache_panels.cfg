\* both panels edit the one copy, a viewer shows it; the watching thread runs
SPECIFICATION WatchedSpec
CONSTANTS
  n1 = n1
  main = main
  left = left
  right = right
  v1 = v1
  None = None
  Name = {n1}
  PluginName = {}
  Client = {main}
  MainThread = main
  Panel = {left, right}
  Viewer = {v1}
  MaxSize = 1
  MaxWait = 3
  LowMemory = TRUE
PROPERTIES
  EditedCopyIsKept
  FlushedCopyIsNotServed
  ClosedViewersLetGo
  WaitForIdleReturns
\* when every client is out, nothing has to happen
CHECK_DEADLOCK FALSE
