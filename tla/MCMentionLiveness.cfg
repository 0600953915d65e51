SPECIFICATION FairSpec
CONSTANTS
  Deliveries = {d1}
  MaxLaunch = 1
  MaxSession = 1
  ReportsFirst = FALSE
  Events = {"failed_turn", "read", "hold", "undelivered", "refusal", "replay", "stop",
            "reconnect", "report_again"}
  MaxEvents = 1
  MaxInFlight = 99
PROPERTY MentionsSettle

CHECK_DEADLOCK FALSE
