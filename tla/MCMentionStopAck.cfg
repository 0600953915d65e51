SPECIFICATION Spec
CONSTANTS
  Deliveries = {d1}
  MaxLaunch = 2
  MaxSession = 1
  ReportsFirst = TRUE
  Events = {"start", "stop"}
  MaxEvents = 2
  MaxInFlight = 3
INVARIANT StopYieldsToAck
CONSTRAINT FewInFlight
CHECK_DEADLOCK FALSE
