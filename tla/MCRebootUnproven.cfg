(* Two clients and one mishap.  A restart of the agent alone, after the token was stored
   and before or instead of the reboot, passes for the reboot. *)
SPECIFICATION Spec
CONSTANTS
  Client = {1, 2}
  Job = {a, b}
  MaxMishaps = 1
INVARIANT WentDown
CHECK_DEADLOCK FALSE
