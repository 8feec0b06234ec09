CONSTANTS
  Client = {1, 2}
  Job = {a, b}
  MaxMishaps = 2
SPECIFICATION FairSpec
INVARIANTS TypeOK ProofIsSound
PROPERTIES ProofComes
CHECK_DEADLOCK FALSE
