SPECIFICATION Spec
CONSTANTS
  Buttons = {"start", "stop", "full-reset"}
  MaxEpoch = 2
  MaxAttempts = 2
  Events = {"disconnect", "crash", "exit", "launch", "missing", "stop", "unconfirmed", "publish"}
  MaxEvents = 1
INVARIANTS StoppedStaysDown LaunchAttemptsBounded
PROPERTY ImplementsOperation
CHECK_DEADLOCK FALSE
