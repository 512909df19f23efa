SPECIFICATION Spec
CONSTANTS
  Attempts = {a1}
  NoDir = nodir
  Events = {"timeout"}
INVARIANTS SuccessMeansStarted
