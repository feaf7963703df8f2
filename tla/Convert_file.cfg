\* files of up to five characters in blocks of two, and exports, with two steps of others
SPECIFICATION Spec
CONSTANTS
  MaxMeddling = 2
  Letters = {"cr", "lf", "x"}
  MaxLength = 5
  BlockSize = 2
  Callers = {"convert", "export"}
INVARIANTS
  TargetIsWhole
  NothingLost
  ResultIsTrue
PROPERTIES
  UnseenFileIsKept
\* the program ends
CHECK_DEADLOCK FALSE
