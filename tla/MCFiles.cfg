(* Three transfers by two connections that leave after a failed write; two
   files, three uploads and executions of the DOS agent; two runs of SETUP.EXE. *)
SPECIFICATION FilesSpec
CONSTANTS
  Conn = {c1, c2}
  Blocks = 2
  MaxTransfers = 3
  NoFile = nofile
  ClientResends = FALSE
  ServerCuts = FALSE
  Dest = {p, q}
  Block = {a, b}
  MaxSize = 1
  MaxWorks = 3
  MaxRelease = 3
  MaxRuns = 2
  MaxMishaps = 2
  Extra = {0, 4}
  Wrong = {0, 1, 5, 30, 46, 60, 95, 65535}
  Byte = {0, 150}
  MaxData = 4
  Gap = {300}
  MaxDamaged = 1
INVARIANTS TypesOK NeverCorrupt Kept Tidy AnswersAreTrue LastGoodKept StagedIsNewer CanBoot PromiseKept Unpacks Inflates
CHECK_DEADLOCK FALSE
