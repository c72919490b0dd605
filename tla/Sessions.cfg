\* One tab with two calls at a time and two visitors, a limit of one, one failure.
SPECIFICATION FairSpec
CONSTANTS
  c1 = c1  c2 = c2  v1 = v1  v2 = v2  renew = renew
  Calls = {c1, c2}
  Visitors = {v1, v2}
  Renewal = renew
  Hitters <- AllHitters
  Emails = {e1, e2}
  Subs = {s1}
  NoOne = NoOne
  Limit = 1
  MaxFaults = 1
INVARIANTS AtMostLimit AccountsHold TabShowsSession
PROPERTIES WindowsEnd
CHECK_DEADLOCK FALSE
