\* two errors of reading or writing with every answer, Cancel at any time
SPECIFICATION Spec
CONSTANTS
  N = 3
  MaxLen = 5
  Sizes = {5}
  Limits = {2}
  AllocModes = {"test"}
  SkipAlls = {{}}
  TailMin = 1
  Answers = {"retry", "skip", "skipall", "cancel"}
  MaxErrors = 2
  MaxResizes = 0
  MayCancel = TRUE
  ReadErrors = TRUE
  WriteErrors = TRUE
INVARIANTS
  IdleBuffersAreIdle
  EverythingReadIsWritten
  EndIsOrderly
PROPERTIES
  CopyEnds
