CONSTANTS
  Dest = {p, q}
  Block = {a, b}
  MaxSize = 1
  MaxWorks = 3
  MaxMishaps = 2
SPECIFICATION Spec
INVARIANTS TypeOK AnswersAreTrue LastGoodKept
CHECK_DEADLOCK FALSE
