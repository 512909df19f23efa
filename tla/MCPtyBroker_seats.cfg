SPECIFICATION Spec
CONSTANTS
  NSlots = 2
  MaxObservers = 1
  QueueLimit = 6
  InputLimit = 2
  History = 2
  Chunk = 2
  Header = 1
  StatusSize = 1
  FlushQuota = 2
  ReadQuota = 2
  AcceptQuota = 2
  Conns = {c1, c2, c3}
  Requests <- SeatRequests
  MaxSends = 1
  Procs = {shell}
  Shell = shell
  Stubborn = {}
  MaxOutput = 0
  Events = {"hangup", "ioctl"}
  Broker = broker
  NoProc = noproc
  NoConn = noconn
SYMMETRY Interchangeable
INVARIANTS Seats Consistent
