(* An accepted job with a timeout, of a client that stays, under a teardown whose
   wait of 5 s may be in vain. *)
SPECIFICATION FairSpec
CONSTANTS
  Conn = {c1, c2}
  NoConn = noconn
  NoWorker = noworker
  Worker = {1, 2}
  TimedJob = {1}
  RequestId = {1}
  PoolSize = 1
  MaxOutput = 0
  WaitExpires = TRUE
PROPERTY AcceptedAnswered
