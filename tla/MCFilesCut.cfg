(* An HTTP server that closes before it has sent the whole body. *)
SPECIFICATION Spec
CONSTANTS
  Conn = {c1, c2}
  Blocks = 2
  MaxTransfers = 2
  NoFile = nofile
  ClientResends = FALSE
  ServerCuts = TRUE
INVARIANT NeverCorrupt
CHECK_DEADLOCK FALSE
