\* A file is uploaded again, and the row's update fails.
SPECIFICATION Spec
CONSTANTS
  Keys = {"notes", "inbox"}
  Sums = {"s1", "s2"}
  Malformed = {"s2"}
  Requests = {r1}
  Asks <- SameFile
  OldAssets = {"asset.a", "asset.b"}
  Accepted = {"asset.b"}
  InitialRows <- Old
  NoPath = NoPath
  NoAsset = NoAsset
CHECK_DEADLOCK FALSE
INVARIANT AvailableMeansStored
