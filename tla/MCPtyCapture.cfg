SPECIFICATION FairSpec
CONSTANTS
  History = 3
  Chunk = 2
  Clients = {r1, r2}
  MaxOutput = 6
  MaxSessions = 2
INVARIANTS CaptureCorrect
PROPERTIES Snapshot CaptureEnds
