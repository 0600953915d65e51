SPECIFICATION FairSpec
CONSTANTS
  Calls = {c1, c2}
  NoCall = none
  MaxArrivals = 1
  Events = {"read", "draft", "daemon", "lost", "claim", "failure", "crash"}
  MaxEvents = 1
INVARIANTS OneMessagePerKey SentMeansPersisted
PROPERTIES DraftSurvives ClaimsEnd CallsEnd
CHECK_DEADLOCK FALSE
