SPECIFICATION FairSpec
CONSTANTS
  Kinds = {"remote", "cli", "rollback"}
  MaxUpgrades = 2
  Events = {"prepare", "launch", "stop", "store", "start", "probe", "workspace", "lost", "job", "crash", "reboot", "expire", "operator"}
  MaxEvents = 3
INVARIANTS TypeOK LaunchedIsCommitted ServingRunsInstalled
PROPERTIES CommittedStays HoldEnds
CHECK_DEADLOCK FALSE
