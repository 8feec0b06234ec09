(* Three lines for a queue of two, one session, one fault.  A check-in has room for a
   long line and a short one, but not for two long ones. *)
SPECIFICATION FairSpec
CONSTANTS
  MaxLines = 3
  LongLine = {2, 3}
  Room = 3
  Capacity = 2
  MaxSessions = 1
  MaxFaults = 1
  RefusalIsText = TRUE
INVARIANTS TypeOK IdleIsCurrent
PROPERTIES ChatDelivers ChatArrives Recovers
