\* Routes, grants, destinations and hop limits; assets of every format and state.
SPECIFICATION Spec
CONSTANTS
  Brains = {"brain.maya", "brain.atlas", "brain.noor", "brain.ghost"}
  Services = {"service.notion", "service.obsidian"}
  Assets = {"asset.a", "asset.b"}
  NoBrain = NoBrain
  NoRoute = NoRoute
  MaxRouteHops = 2
  Trials <- PolicyTrials
CHECK_DEADLOCK FALSE
INVARIANTS TypeOK DeliversOnlyWhatIsPermitted AcceptedPathsServe ScopeIsOwned
