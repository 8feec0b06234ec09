(* One swapper, no failed copy: only the machine going down. *)
SPECIFICATION Spec
CONSTANTS
  Proc = {1, 2, 3, 4}
  Crashes = TRUE
  CopyFaults = 0
INVARIANT InterruptedSwapRecovers
CHECK_DEADLOCK FALSE
