\* Two requests for one transfer.
SPECIFICATION Spec
CONSTANTS
  Transfers = {t1}
  ObjectKeys = {k1}
  Requests = {r1, r2}
  IdemKeys = {i1, i2}
  NoRequest = NoRequest
  NoKey = NoKey
  Free = Free
  Uploaded = Uploaded
CHECK_DEADLOCK FALSE
PROPERTIES InProgressMeansRunning
