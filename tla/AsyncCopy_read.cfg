\* a read error with every answer; the source is resized twice, the buffer size changes
SPECIFICATION Spec
CONSTANTS
  N = 3
  MaxLen = 4
  Sizes = {2, 3}
  Limits = {1, 2}
  AllocModes = {"test"}
  SkipAlls = {{}, {"read"}}
  TailMin = 1
  Answers = {"retry", "skip", "skipall", "cancel"}
  MaxErrors = 1
  MaxResizes = 2
  MayCancel = FALSE
  ReadErrors = TRUE
  WriteErrors = FALSE
INVARIANTS
  BlocksInOrder
  NoMisplacedData
  ReportedCopyIsComplete
