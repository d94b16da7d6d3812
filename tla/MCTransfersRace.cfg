\* Three requests race for one transfer.
SPECIFICATION Spec
CONSTANTS
  Transfers = {t1}
  ObjectKeys = {k1, k2}
  Requests = {r1, r2, r3}
  IdemKeys = {i1, i2}
  NoRequest = NoRequest
  NoKey = NoKey
  Free = Free
  Uploaded = Uploaded
SYMMETRY Symmetry
CHECK_DEADLOCK FALSE
INVARIANTS TypeOK AcceptedOnce PayloadsStored AnswersAreTrue AuditsAreTrue KeyAdmitsOne
