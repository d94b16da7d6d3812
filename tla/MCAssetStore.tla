---------------------------- MODULE MCAssetStore ----------------------------
(* Instances of AssetStore: one asset that was uploaded, one that came from *)
(* a transfer, and requests on their keys and on a new one.                 *)
EXTENDS AssetStore, TLC

AnyOrder == Permutations(Requests)

RowOf(a, key) ==
  [key |-> key, state |-> "ready",
   path |-> [of |-> a, via |-> IF a \in Accepted THEN "transfer" ELSE "upload", sum |-> "s1"]]

Old == {[a \in OldAssets |-> RowOf(a, IF a \in Accepted THEN "inbox" ELSE "notes")]}

UploadOf(key, sum, overwrite) ==
  [op |-> "upload", key |-> key, sum |-> sum, overwrite |-> overwrite]

AllAsks  == Ask

SameFile == {UploadOf("notes", "s1", TRUE)}
=============================================================================
