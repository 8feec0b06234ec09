(* Two tiles of two rows.  The viewers: one that only takes tiles, one that
   lets the server draw the cursor, one that takes everything. *)
SPECIFICATION VncSpec
CONSTANTS
  MaxWidth = 2
  Rows = 2
  Encodings = {{}, {"copyrect", "size"}, {"rich", "copyrect", "size"}}
  MaxEvents = 3
  Text = {a, b}
  MaxVisits = 2
  MaxClips = 3
  Ink = {1, 2, 3}
  TileArea = 6
  PixelBytes = {1, 4}
  MaxPalette = 3
  MaxPacked = 2
  LongRun = 2
INVARIANTS WorkerOwnsFrame ViewerMirrorsPrev NothingStuck WholeTexts OnlyNews TilesArrive
PROPERTIES CatchesUp Stops CopyReachesViewer
CHECK_DEADLOCK FALSE
