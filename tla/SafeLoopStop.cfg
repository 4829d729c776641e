CONSTANTS
  Threads = {networking}
  Sleepy = {networking}
  Waiters = {}
  PauseAfterStop = TRUE
SPECIFICATION FairSpec
PROPERTY StopEnds
