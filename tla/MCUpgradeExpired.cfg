SPECIFICATION FairSpec
CONSTANTS
  Kinds = {"remote"}
  MaxUpgrades = 1
  Events = {"expire"}
  MaxEvents = 1
PROPERTY CommittedSelfCompletes
CHECK_DEADLOCK FALSE
