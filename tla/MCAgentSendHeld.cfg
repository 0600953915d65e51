SPECIFICATION Spec
CONSTANTS
  Calls = {c1}
  NoCall = none
  MaxArrivals = 1
  Events = {"lost"}
  MaxEvents = 1
PROPERTY CommittedIsNotHeld
CHECK_DEADLOCK FALSE
