SPECIFICATION FairSpec
CONSTANTS
  Pids = {1, 2, 3, 4, 5}
  NoPid = 0
  Policies <- AllPolicies
  Commands = {"up", "start", "down", "restart", "signal"}
  Settling = TRUE
  MaxFaults = 1
INVARIANTS OneSupervisor RestartWaits StatusHonest LateStarts
PROPERTIES DownStops Implements
