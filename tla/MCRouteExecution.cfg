\* Two requests: sends with one key or two, and pulls; any call may fail.
SPECIFICATION Spec
CONSTANTS
  Requests = {r1, r2}
  Asks <- SendsAndPulls
  Keys = {"key.1", "key.2"}
  Bodies = {"q1", "q2"}
  Scopes <- TwoFiles
  Hops = 1
  MaxPayload = 2
  NoExecution = NoExecution
  NoRecord = NoRecord
  None = None
SYMMETRY AnyOrder
CHECK_DEADLOCK FALSE
INVARIANTS TypeOK DeliveryIsComplete KeyTransfersOnce ExecutionsTellTheOutcome OnlyALostInsertOrphans
PROPERTY FinalStatesStay
