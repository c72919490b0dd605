\* One run, executed by a worker and by the CLI: overlaps, two faults, liveness.
SPECIFICATION FairSpec
CONSTANTS
  e1 = e1  w1 = w1  cli = cli
  Evals = {e1}
  Workers = {w1}
  Clis = {cli}
  Cases <- TwoCases
  Whole = Whole
  NoEval = NoEval
  MaxCopies = 1
  MaxFaults = 2
INVARIANTS OutcomeIsConsistent ScoredInPlace FailsForAReason
PROPERTIES EndedStaysEnded EveryRunEnds
CHECK_DEADLOCK FALSE
