SPECIFICATION FairSpec
CONSTANTS
  Buttons = {"start", "stop"}
  MaxEpoch = 3
  MaxAttempts = 2
  Events = {"disconnect", "crash", "launch", "missing", "turn"}
  MaxEvents = 1
INVARIANT SessionsAgree
PROPERTIES SessionCarriedOver OperationEnds
CHECK_DEADLOCK FALSE
