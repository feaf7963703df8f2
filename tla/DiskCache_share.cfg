\* two threads share one copy, which a panel may edit and a plug-in deletes
SPECIFICATION Spec
CONSTANTS
  n1 = n1
  main = main
  plug = plug
  left = left
  v1 = v1
  None = None
  Name = {n1}
  PluginName = {n1}
  Client = {main, plug}
  MainThread = main
  Panel = {left}
  Viewer = {v1}
  MaxSize = 1
  MaxWait = 3
  LowMemory = TRUE
INVARIANTS
  IdleMeansUnlocked
  RequestsAreCounted
  LocksAreWatched
  PreparerIsAlone
  EditPinInvariant
  FlushedCopyIsNotCached
\* when every client is out, nothing has to happen
CHECK_DEADLOCK FALSE
