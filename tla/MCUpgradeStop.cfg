SPECIFICATION Spec
CONSTANTS
  Kinds = {"cli"}
  MaxUpgrades = 1
  Events = {"stop"}
  MaxEvents = 2
INVARIANT RunnersHeldByUpgrade
CHECK_DEADLOCK FALSE
