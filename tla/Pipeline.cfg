\* Five packets, two of which may raise: a list of several packets, one that follows
\* a lost list, and packets captured after the stop.
CONSTANTS
  MaxPackets = 5
  MaxRaises = 2
SPECIFICATION FairSpec
INVARIANTS TypeOK InOrderOnce AtMostTwoLate
PROPERTIES ImplementsChannel EverythingHandled
\* The Inspector stops.
CHECK_DEADLOCK FALSE
