\* Three requests of two users on one server.
SPECIFICATION Spec
CONSTANTS
  Requests = {1, 2, 3}
  Users = {"maya", "atlas"}
  Mixes <- AllMixes
  InitialSessions <- StoredSessions
  SessionLife = 1
  InitialNodes <- StoredNodes
  DefaultOff = {"service.pii-scan"}
  Catalog <- AppList
  HistoryLimit = 3
  InitialMessages <- StoredMessages
  Ceiling = 3
  DefaultLimits <- BuiltInLimits
CHECK_DEADLOCK FALSE
INVARIANTS TypeOK PairsAreWhole EventsAreTrue OnlyAnEarlierNameHides ReadsAreWhole
PROPERTIES SessionsAdvance ChoicesStand PromptsAreInOrder
