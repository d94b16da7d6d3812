\* Two transfers meet under one object key; each request may wait for the other.
SPECIFICATION FairSpec
CONSTANTS
  Transfers = {t1, t2}
  ObjectKeys = {k1}
  Requests = {r1, r2}
  IdemKeys = {i1}
  NoRequest = NoRequest
  NoKey = NoKey
  Free = Free
  Uploaded = Uploaded
CHECK_DEADLOCK FALSE
PROPERTIES DecisionsAreFinal ImplementsLifecycle RequestsEnd
