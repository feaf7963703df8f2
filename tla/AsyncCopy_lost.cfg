\* a write error that is retried after the whole source was read
SPECIFICATION Spec
CONSTANTS
  N = 3
  MaxLen = 3
  Sizes = {3}
  Limits = {1}
  AllocModes = {"yes"}
  SkipAlls = {{}}
  TailMin = 1
  Answers = {"retry", "skip", "skipall", "cancel"}
  MaxErrors = 1
  MaxResizes = 0
  MayCancel = FALSE
  ReadErrors = FALSE
  WriteErrors = TRUE
INVARIANTS
  NoSilentlyPartialTarget
