(* Up to two swappers at a time; one copy may fail. *)
SPECIFICATION FairSpec
CONSTANTS
  Proc = {1, 2, 3, 4, 5, 6}
  Crashes = TRUE
  CopyFaults = 1
INVARIANTS TypeOK SwapSettles
PROPERTIES AgentReturns UpdateTakes
CHECK_DEADLOCK FALSE
