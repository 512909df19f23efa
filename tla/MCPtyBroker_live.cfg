SPECIFICATION FairSpec
CONSTANTS
  NSlots = 1
  MaxObservers = 1
  QueueLimit = 7
  InputLimit = 2
  History = 2
  Chunk = 2
  Header = 1
  StatusSize = 1
  FlushQuota = 2
  ReadQuota = 2
  AcceptQuota = 2
  Conns = {c1}
  Requests <- LiveRequests
  MaxSends = 1
  Procs = {shell, daemon}
  Shell = shell
  Stubborn = {daemon}
  MaxOutput = 1
  Events = {"hangup", "signal", "sigfail", "idle", "exit"}
  Broker = broker
  NoProc = noproc
  NoConn = noconn
PROPERTIES RequestSettles StopEnds SlotsComeBack ExitReachesSubscribers
