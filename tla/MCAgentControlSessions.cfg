SPECIFICATION Spec
CONSTANTS
  Buttons = {"start", "restart"}
  MaxEpoch = 2
  MaxAttempts = 2
  Events = {"crash", "missing", "launch", "turn", "disconnect"}
  MaxEvents = 2
INVARIANT SessionsAgree
CHECK_DEADLOCK FALSE
