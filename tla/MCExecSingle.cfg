(* One connection slot, so one client after the other, on a pool of two.  A
   worker may outlast the wait of a disconnect and be terminated. *)
SPECIFICATION Spec
CONSTANTS
  Conn = {c1}
  NoConn = noconn
  NoWorker = noworker
  Worker = {1, 2, 3}
  TimedJob = {1}
  RequestId = {1,2}
  PoolSize = 2
  MaxOutput = 1
  WaitExpires = TRUE
INVARIANTS SlotExclusive JobStream NoFrameToRecycledSlot
