(* Up to two swappers at a time, one copy may fail; two clients, one mishap. *)
SPECIFICATION RestartSpec
CONSTANTS
  Proc = {1, 2, 3, 4, 5, 6}
  Crashes = TRUE
  CopyFaults = 1
  Client = {1, 2}
  Job = {a, b}
  MaxMishaps = 1
INVARIANTS SwapSettles ProofIsSound
PROPERTIES AgentReturns UpdateTakes ProofComes
CHECK_DEADLOCK FALSE
