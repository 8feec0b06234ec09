(* Two long lines that wait for the same check-in: it has no room for the second, which
   leaves the queue all the same. *)
SPECIFICATION Spec
CONSTANTS
  MaxLines = 2
  LongLine = {1, 2}
  Room = 3
  Capacity = 2
  MaxSessions = 0
  MaxFaults = 0
  RefusalIsText = TRUE
INVARIANT NoLineLost
