CONSTANTS
  Threads = {networking, processor}
  Sleepy = {networking}
  Waiters = {processor}
  PauseAfterStop = FALSE
SPECIFICATION FairSpec
INVARIANTS TypeOK PauseTakesEffect
  SleepsBetweenIterations
PROPERTIES StopEnds LoopSurvives ImplementsIterations
