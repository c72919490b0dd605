\* Two messages and their resumes, deletes at any time, one request dies.
SPECIFICATION Spec
CONSTANTS
  r1 = r1  r2 = r2
  Requests = {r1, r2}
  Batches <- TwiceOrRead
  SpoilerSafe = TRUE
  Patient = TRUE
  LastPage = 2
  MaxRounds = 1
  MaxTurns = 2
  MaxFaults = 1
SYMMETRY Symmetry
INVARIANTS     DeletedIsForgotten
CHECK_DEADLOCK FALSE
