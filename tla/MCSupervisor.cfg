SPECIFICATION FairSpec
CONSTANTS
  Operations = {"start", "stop", "restart", "configure"}
  MaxRequests = 2
  Events = {"store", "stop", "unready", "exit", "park", "crash", "shutdown"}
  MaxEvents = 2
INVARIANTS TypeOK StopHolds StoppedStaysDown RestartReplaces 
PROPERTIES ReceiptsStay StopTakesEffect RestartEnds HoldIsLifted
CHECK_DEADLOCK FALSE
