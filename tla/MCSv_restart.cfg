SPECIFICATION Spec
CONSTANTS
  Pids = {1, 2, 3, 4, 5}
  NoPid = 0
  Policies <- AllPolicies
  Commands = {"up", "start", "down", "restart", "signal"}
  Settling = FALSE
  MaxFaults = 0
INVARIANTS RestartWaits
