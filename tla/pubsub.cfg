SPECIFICATION Spec
CONSTANTS
  Sessions = {s1, s2}
  Channels = {c1, c2}
  MaxNamed = 2
  MaxEmitters = 3
  MaxMessages = 2
\* An exception ends the process, and so do the bounds.
CHECK_DEADLOCK FALSE
SYMMETRY Symmetry
INVARIANT SubscriptionsAreAttached
PROPERTIES SubscribersHearOnce PublishCountsEveryCopy
