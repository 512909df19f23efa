SPECIFICATION Spec
CONSTANTS
  seed = seed
  m1 = m1
  m2 = m2
  Seed = seed
  Dirs = {seed, m1, m2}
  Ports = {1, 2, 3}
  PortsOf <- UsedPorts
  Leavers = {m1}
  SeedPort = 1
  BcMax = 3
  Room = 2
  MaxStarts = 3
  MaxFaults = 1
CHECK_DEADLOCK FALSE
INVARIANTS SeedRoster OneCluster FilesOwned StopsOwn
PROPERTIES FreshRoster GoneExpires Disconnects Converges
