\* Two requests of any kind on two old assets and a new key.
SPECIFICATION Spec
CONSTANTS
  Keys = {"notes", "inbox", "draft"}
  Sums = {"s1", "s2"}
  Malformed = {"s2"}
  Requests = {r1, r2}
  Asks <- AllAsks
  OldAssets = {"asset.a", "asset.b"}
  Accepted = {"asset.b"}
  InitialRows <- Old
  NoPath = NoPath
  NoAsset = NoAsset
SYMMETRY AnyOrder
CHECK_DEADLOCK FALSE
INVARIANTS TypeOK OneAssetPerKey QuietAssetsAreExact OnlyAFailedUpdateLoses
