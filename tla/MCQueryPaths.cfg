\* Two writers, or a reader and a writer, with deletions and uploads of what they refer to.
SPECIFICATION Spec
CONSTANTS
  Brains = {"brain.maya", "brain.atlas"}
  Services = {"service.notion"}
  Assets = {"asset.a", "asset.b"}
  NoBrain = NoBrain
  NoRoute = NoRoute
  MaxRouteHops = 2
  Source = "brain.maya"
  Requests = {r1, r2}
  Mixes <- Pairs
  AssetChoices <- UploadedFiles
  HopSetting = 0
  NoPath = NoPath
  NoRequest = NoRequest
SYMMETRY AnyOrder
CHECK_DEADLOCK FALSE
INVARIANTS TypeOK StoredPathIsComplete ServesWhatWasScoped UndisturbedRequestsAreExact
PROPERTY PatchesCompose
