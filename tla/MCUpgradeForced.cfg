SPECIFICATION Spec
CONSTANTS
  Kinds = {"cli"}
  MaxUpgrades = 2
  Events = {"job", "operator"}
  MaxEvents = 2
INVARIANT StoppedUntilCommitted
CHECK_DEADLOCK FALSE
