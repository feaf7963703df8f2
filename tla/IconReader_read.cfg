\* an icon, a thumbnail and an overlay, and two changes or commands
SPECIFICATION FairSpec
CONSTANTS
  Icons = {icon}
  icon = icon
  Thumbnails = {thumb}
  thumb = thumb
  Overlays = {overlay}
  overlay = overlay
  MaxEvents = 2
INVARIANTS
  ReaderKeepsOff
  LoaderIsLoaded
PROPERTIES
  SleepReturns
  IconsAreRead
  DelayedRefreshIsMade
\* everything read
CHECK_DEADLOCK FALSE
