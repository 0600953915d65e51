SPECIFICATION Spec
CONSTANTS
  Deliveries = {d1, d2}
  MaxLaunch = 2
  MaxSession = 2
  ReportsFirst = FALSE
  Events = {"exit", "start"}
  MaxEvents = 2
  MaxInFlight = 3
INVARIANTS PendingUnderWay DeliveredMeansShown
SYMMETRY DeliverySymmetry
CONSTRAINTS FewInFlight AloneInLaterEvents FewerForTwo
CHECK_DEADLOCK FALSE
