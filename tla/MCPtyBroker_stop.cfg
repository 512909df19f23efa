SPECIFICATION Spec
CONSTANTS
  NSlots = 1
  MaxObservers = 1
  QueueLimit = 7
  InputLimit = 2
  History = 2
  Chunk = 2
  Header = 1
  StatusSize = 1
  FlushQuota = 2
  ReadQuota = 2
  AcceptQuota = 2
  Conns = {c1}
  Requests <- StopRequests
  MaxSends = 2
  Procs = {shell, job, daemon}
  Shell = shell
  Stubborn = {daemon}
  MaxOutput = 0
  Events = {"signal", "hangup", "sigfail", "pollfail", "daemon", "exit"}
  Broker = broker
  NoProc = noproc
  NoConn = noconn
INVARIANTS AckMeansGone OneReply
