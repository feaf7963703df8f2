\* two panels with one network directory, which changes while they are refreshed
SPECIFICATION FairSpec
CONSTANTS
  Panels = {left, right}
  left = left
  right = right
  SamePath = TRUE
  Handles = {h1, h2}
  h1 = h1
  h2 = h2
  MaxEvents = 3
  None = None
INVARIANTS
  DataHandedOver
  NoChangeIsLost
PROPERTIES
  RefreshesAsPromised
  MainThreadGoesOn
\* nothing need change
CHECK_DEADLOCK FALSE
