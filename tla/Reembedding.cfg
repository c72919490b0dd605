\* Two documents that are uploaded, fail and are retried by requests that race, while a task re-embeds.
SPECIFICATION ReembedSpec
CONSTANTS
  d1 = d1  d2 = d2  q1 = q1  q2 = q2  w1 = w1  k1 = k1
  Docs = {d1, d2}
  Contents = {d1, d2}
  Content <- OwnContent
  Blank = {}
  Malformed = {}
  MaxRuns = 3
  Workers = {w1}
  Requests = {q1, q2}
  Operations = {"upload", "retry"}
  Relays = {k1}
  MaxEvents = 2
  NoDoc = NoDoc
  MaxRetries = 0
  BatchSize = 2
  PatientSweep = TRUE
  MaxCopies = 1
  MaxFaults = 1
SYMMETRY Symmetry
INVARIANTS RebuiltIsSearchable
CHECK_DEADLOCK FALSE
