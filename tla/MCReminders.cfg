SPECIFICATION FairSpec
CONSTANTS
  MaxVersion = 2
  MaxDue = 1
  MaxRequests = 2
  MaxAttempts = 2
  MaxEvents = 1
  Events = {"store", "inbox", "refused", "lost", "retention", "reconnect", "crash"}
INVARIANTS FiredIsNotLost DroppedNotShown EffectsBounded
PROPERTIES AckedStaysAcked ConsumedStays PushedJobStays FiredReachesAgent DueIsFired
CHECK_DEADLOCK FALSE
