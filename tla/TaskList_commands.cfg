\* three instances, a list with room for two, one open list of tasks
SPECIFICATION FairSpec
CONSTANTS
  Processes = {p1, p2, p3}
  p1 = p1
  p2 = p2
  p3 = p3
  First = p1
  Leaving = {p2}
  Failing = {p3}
  Watchers = {p1}
  MaxItems = 2
  MaxRequests = 2
  None = None
INVARIANTS
  OnlyAddresseeOnce
PROPERTIES
  AnsweredMeansTaken
  RefusedMeansNotTaken
  EndedInstanceDisappears
\* all instances may have ended
CHECK_DEADLOCK FALSE
