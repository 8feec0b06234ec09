(* README.md on "Pause remote help": blocks all commands at once. *)
SPECIFICATION Spec
CONSTANTS
  Session = {1, 2}
  MaxUnits = 1
  PostMax = 1
  MaxTries = 2
  FaultyPath = FALSE
PROPERTY PauseBlocks
