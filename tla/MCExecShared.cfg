(* Two connection slots contend for one pool slot; their clients come and go. *)
SPECIFICATION FairSpec
CONSTANTS
  Conn = {c1, c2}
  NoConn = noconn
  NoWorker = noworker
  Worker = {1, 2}
  TimedJob = {1}
  RequestId = {1}
  PoolSize = 1
  MaxOutput = 0
  WaitExpires = FALSE
INVARIANT SlotExclusive
PROPERTIES JobsEnd AcceptedAnswered ConnectionsEnd
