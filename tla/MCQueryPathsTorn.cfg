\* A pull whose path is replaced while it reads it.
SPECIFICATION Spec
CONSTANTS
  Brains = {"brain.maya", "brain.atlas"}
  Services = {"service.notion"}
  Assets = {"asset.a", "asset.b"}
  NoBrain = NoBrain
  NoRoute = NoRoute
  MaxRouteHops = 2
  Source = "brain.maya"
  Requests = {r1, r2}
  Mixes <- Torn
  AssetChoices <- ReadyFiles
  HopSetting = 0
  NoPath = NoPath
  NoRequest = NoRequest
CHECK_DEADLOCK FALSE
INVARIANT ServedUnderOneConfiguration
