SPECIFICATION FairSpec
CONSTANTS
  Attempts = {a1, a2}
  NoDir = nodir
  Events = {"setup", "spawn", "timeout", "crash", "kill", "signal", "stop", "operator"}
INVARIANTS SessionSafe
PROPERTIES StartSettles LostCreatorCancels
