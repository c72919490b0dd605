\* One worker, one request: liveness, and the lifecycle users are promised.
SPECIFICATION FairSpec
CONSTANTS
  d1 = d1  d2 = d2  c1 = c1  c2 = c2
  q1 = q1  q2 = q2  w1 = w1  w2 = w2
  k1 = k1  k2 = k2
  Docs = {d1, d2}
  Contents = {c1, c2}
  Content <- TwoContents
  Blank = {}
  Malformed = {c2}
  MaxRuns = 2
  Workers = {w1}
  Requests = {q1}
  Operations = {"upload", "retry", "delete"}
  Relays = {k1}
  MaxEvents = 4
  NoDoc = NoDoc
  MaxRetries = 0
  BatchSize = 4
  PatientSweep = TRUE
  MaxCopies = 1
  MaxFaults = 1
 
PROPERTIES EveryDocumentSettles ImplementsLifecycle
CHECK_DEADLOCK FALSE
