\* Two requests that race on the same textless content, one worker.
SPECIFICATION Spec
CONSTANTS
  d1 = d1  d2 = d2  c1 = c1  c2 = c2
  q1 = q1  q2 = q2  w1 = w1  w2 = w2
  k1 = k1  k2 = k2
  Docs = {d1, d2}
  Contents = {c1}
  Content <- SameContent
  Blank = {c1}
  Malformed = {}
  MaxRuns = 1
  Workers = {w1}
  Requests = {q1, q2}
  Operations = {"upload", "retry", "delete"}
  Relays = {k1, k2}
  MaxEvents = 2
  NoDoc = NoDoc
  MaxRetries = 0
  BatchSize = 2
  PatientSweep = FALSE
  MaxCopies = 1
  MaxFaults = 0
SYMMETRY Symmetry
INVARIANT OneDocumentPerContent
CHECK_DEADLOCK FALSE
