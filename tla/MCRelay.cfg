(* One session of three units, posted two records at a time, or two sessions,
   one after the other, of one unit each. *)
SPECIFICATION FairSpec
CONSTANTS
  Session = {1, 2}
  MaxUnits = 3
  PostMax = 2
  MaxTries = 2
  FaultyPath = TRUE
PROPERTIES IsTunnel SessionEnds Answered
