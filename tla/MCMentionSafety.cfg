SPECIFICATION Spec
CONSTANTS
  Deliveries = {d1}
  MaxLaunch = 2
  MaxSession = 1
  ReportsFirst = TRUE
  Events = {"failed_turn", "read", "hold", "undelivered", "evict", "exit", "refusal", "replay", "failure",
            "stop", "start", "restart", "recovery", "reconnect", "report_again", "crash", "loss"}
  MaxEvents = 2
  MaxInFlight = 3
INVARIANTS DeliveredMeansAccepted DeliveredMeansShown LostMeansRefused PendingUnderWay
PROPERTY FinalOutcome
CONSTRAINTS FewInFlight FewerAfterEvents
CHECK_DEADLOCK FALSE
