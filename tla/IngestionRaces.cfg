\* One document, two workers that race on it, one request at a time.
SPECIFICATION Spec
CONSTANTS
  d1 = d1  d2 = d2  c1 = c1  c2 = c2
  q1 = q1  q2 = q2  w1 = w1  w2 = w2
  k1 = k1  k2 = k2
  Docs = {d1}
  Contents = {c1}
  Content <- OneContent
  Blank = {}
  Malformed = {}
  MaxRuns = 5
  Workers = {w1, w2}
  Requests = {q1}
  Operations = {"upload", "retry", "delete", "patch"}
  Relays = {k1}
  MaxEvents = 2
  NoDoc = NoDoc
  MaxRetries = 1
  BatchSize = 2
  PatientSweep = FALSE
  MaxCopies = 1
  MaxFaults = 1
SYMMETRY Symmetry
INVARIANTS ChunksHaveDocument IndexedHasChunks IndexedIsSearchable UnfinishedHasWork
CHECK_DEADLOCK FALSE
