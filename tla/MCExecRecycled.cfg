(* The comment on V9xConnection: no worker can send into a recycled slot. *)
SPECIFICATION Spec
CONSTANTS
  Conn = {c1, c2}
  NoConn = noconn
  NoWorker = noworker
  Worker = {1, 2}
  TimedJob = {1}
  RequestId = {1}
  PoolSize = 1
  MaxOutput = 1
  WaitExpires = FALSE
INVARIANT NoFrameToRecycledSlot
