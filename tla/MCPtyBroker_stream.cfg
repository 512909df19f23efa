SPECIFICATION Spec
CONSTANTS
  NSlots = 2
  MaxObservers = 1
  QueueLimit = 7
  InputLimit = 2
  History = 2
  Chunk = 2
  Header = 1
  StatusSize = 1
  FlushQuota = 2
  ReadQuota = 2
  AcceptQuota = 2
  Conns = {c1, c2}
  Requests <- StreamRequests
  MaxSends = 1
  Procs = {shell}
  Shell = shell
  Stubborn = {}
  MaxOutput = 3
  Events = {"exit", "write"}
  Broker = broker
  NoProc = noproc
  NoConn = noconn
SYMMETRY Interchangeable
INVARIANTS StreamContiguous ExitLast BytesExact InputFifo
