SPECIFICATION Spec
CONSTANTS
  Deliveries = {d1}
  MaxLaunch = 2
  MaxSession = 1
  ReportsFirst = TRUE
  Events = {"start"}
  MaxEvents = 1
  MaxInFlight = 4
INVARIANT PendingUntilTurnEnd
CONSTRAINT FewInFlight
CHECK_DEADLOCK FALSE
