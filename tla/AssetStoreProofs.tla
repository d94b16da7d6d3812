--------------------------- MODULE AssetStoreProofs ---------------------------
(* Theorems about AssetStore, for every number of keys, contents, assets    *)
(* and requests.                                                            *)
EXTENDS AssetStore, TLAPS

LEMMA Asked ==
  ASSUME TypeOK, NEW r \in Requests
  PROVE  /\ ask[r].key \in Keys
         /\ ask[r].op = "upload" => ask[r].sum \in Sums
<1>1. ask[r] \in Ask
  BY InputsAreTyped DEF TypeOK
<1> QED
  BY <1>1 DEF Ask

LEMMA InHand ==
  ASSUME TypeOK, HandsOwnAsset, NEW r \in Requests, Active(r)
  PROVE  /\ mine[r].id \in Ids
         /\ pc[r] \in Uploading => mine[r].path \in Path /\ mine[r].path.of = mine[r].id
         /\ pc[r] \in Deleting \cup {"cleanup"} \/ ~Fresh(r) => mine[r].old.of = mine[r].id
<1>1. ASSUME pc[r] \in Uploading
      PROVE  mine[r].path \in Path /\ mine[r].path.of = mine[r].id
  <2>1. mine[r].id \in Ids /\ ask[r].sum \in Sums
    BY <1>1, Asked DEF HandsOwnAsset
  <2>2. mine[r].path = [of |-> mine[r].id, via |-> "upload", sum |-> ask[r].sum]
    BY <1>1 DEF HandsOwnAsset
  <2>3. [of |-> mine[r].id, via |-> "upload", sum |-> ask[r].sum] \in Path
    BY <2>1 DEF Path
  <2> QED
    BY <2>2, <2>3
<1> QED
  BY <1>1 DEF HandsOwnAsset

LEMMA Written ==
  ASSUME TypeOK, NEW r \in Requests,
         NEW state \in {"ready", "parse_failed", "upload_failed"}, Write(r, state),
         mine[r].path \in Path, mine[r].path.of = mine[r].id
  PROVE  /\ DOMAIN rows' = DOMAIN rows
         /\ \A a \in DOMAIN rows :
              /\ rows'[a] \in Row /\ rows'[a].key = rows[a].key /\ rows'[a].path.of = a
              /\ a # mine[r].id => rows'[a] = rows[a]
              /\ a = mine[r].id => rows'[a].path = mine[r].path /\ rows'[a].state = state
<1>1. DOMAIN rows' = DOMAIN rows /\ \A a \in DOMAIN rows : a # mine[r].id => rows'[a] = rows[a]
  BY DEF Write
<1>2. ASSUME NEW a \in DOMAIN rows, a = mine[r].id
      PROVE  rows'[a] = [key |-> rows[a].key, path |-> mine[r].path, state |-> state]
  <2>1. rows'[a] = [rows[a] EXCEPT !.path = mine[r].path, !.state = state]
    BY <1>2 DEF Write
  <2>2. rows[a] \in Row
    BY DEF TypeOK
  <2> QED
    BY <2>1, <2>2 DEF Row
<1>3. \A a \in DOMAIN rows : rows[a] \in Row /\ rows[a].path.of = a
  BY DEF TypeOK
<1> QED
  BY <1>1, <1>2, <1>3 DEF Row

LEMMA InitInv == Init => IInv
<1> SUFFICES ASSUME Init PROVE IInv
  OBVIOUS
<1> USE DEF Init, Nothing
<1>1. TypeOK
  BY InputsAreTyped DEF TypeOK, Ids, Row, Available
<1>2. OneAssetPerKey
  BY InputsAreTyped DEF OneAssetPerKey
<1>3. OnlyAFailedUpdateLoses
  BY DEF OnlyAFailedUpdateLoses
<1>4. HandsOwnAsset /\ OverlapsAreMarked /\ StepsRelyOnTheLast
  BY DEF HandsOwnAsset, OverlapsAreMarked, StepsRelyOnTheLast, Active, Uploading, Deleting
<1> QED
  BY <1>1, <1>2, <1>3, <1>4 DEF IInv

-----------------------------------------------------------------------------
(* The inductive invariant, action by action and conjunct by conjunct.      *)

LEMMA LookupInv ==
  ASSUME IInv, NEW r \in Requests, Lookup(r)
  PROVE  IInv'
<1> USE DEF IInv, TypeOK, Lookup, Take, Called, Fresh, Goto, Answer, Active,
    Uploading, Deleting, stored, history
<1>0. \A a \in Ids : [of |-> a, via |-> "upload", sum |-> ask[r].sum] \in Path
  BY Asked DEF Path
<1>1. TypeOK'
  <2>1. mine' \in [Requests -> [id: Ids \cup {NoAsset}, path: Path \cup {NoPath},
                                old: Path \cup {NoPath}]]
    BY <1>0 DEF Row, Ids
  <2>2. contended' \subseteq Ids
    BY DEF Ids
  <2>3. pc' \in [Requests -> {"start", "done"} \cup Uploading \cup Deleting]
    OBVIOUS
  <2>4. answer' \in [Requests -> {"none", "ok", "failed", "name_exists", "object_exists",
                                  "storage_error", "refused", "not_found"}]
    OBVIOUS
  <2> QED
    BY <2>1, <2>2, <2>3, <2>4
<1>2. OneAssetPerKey'
  BY DEF OneAssetPerKey
<1>3. OnlyAFailedUpdateLoses'
  BY DEF OnlyAFailedUpdateLoses, HandsOwnAsset, StepsRelyOnTheLast, Available
<1>4. HandsOwnAsset'
  BY DEF HandsOwnAsset, Row, Ids
<1>5. OverlapsAreMarked'
  BY DEF OverlapsAreMarked
<1>6. StepsRelyOnTheLast'
  BY DEF StepsRelyOnTheLast, HandsOwnAsset, OverlapsAreMarked
<1> QED
  BY <1>1, <1>2, <1>3, <1>4, <1>5, <1>6

LEMMA InsertInv ==
  ASSUME IInv, NEW r \in Requests, Insert(r)
  PROVE  IInv'
<1> USE DEF IInv, TypeOK, Insert, Called, Fresh, Goto, Answer, Active,
    Uploading, Deleting, stored, history
<1>0. mine[r].id = r /\ mine[r].path \in Path /\ mine[r].path.of = r /\ ask[r].key \in Keys
  BY Asked, InHand DEF HandsOwnAsset
<1>1. TypeOK'
  <2>1. DOMAIN rows' \subseteq Ids /\ DOMAIN rows \subseteq DOMAIN rows'
    BY DEF Ids
  <2>2. ASSUME NEW a \in DOMAIN rows' PROVE rows'[a] \in Row /\ rows'[a].path.of = a
    BY <1>0 DEF Row
  <2>3. pc' \in [Requests -> {"start", "done"} \cup Uploading \cup Deleting]
    OBVIOUS
  <2>4. answer' \in [Requests -> {"none", "ok", "failed", "name_exists", "object_exists",
                                  "storage_error", "refused", "not_found"}]
    OBVIOUS
  <2> QED
    BY <2>1, <2>2, <2>3, <2>4
<1>2. OneAssetPerKey'
  BY DEF OneAssetPerKey
<1>3. OnlyAFailedUpdateLoses'
  BY DEF OnlyAFailedUpdateLoses, HandsOwnAsset, StepsRelyOnTheLast, Available
<1>4. HandsOwnAsset'
  BY DEF HandsOwnAsset, Row, Ids
<1>5. OverlapsAreMarked'
  BY DEF OverlapsAreMarked
<1>6. StepsRelyOnTheLast'
  <2>1. ASSUME NEW q \in Requests, q # r, Active(q), mine[q].id = r
        PROVE  r \in contended
    BY <1>0, <2>1 DEF OverlapsAreMarked
  <2>2. \A a \in DOMAIN rows : a # r => a \in DOMAIN rows' /\ rows'[a] = rows[a]
    OBVIOUS
  <2>3. \A a \in DOMAIN rows' : a # r => a \in DOMAIN rows
    OBVIOUS
  <2> QED
    BY <1>0, <2>1, <2>2, <2>3 DEF StepsRelyOnTheLast
<1> QED
  BY <1>1, <1>2, <1>3, <1>4, <1>5, <1>6

LEMMA PutInv ==
  ASSUME IInv, NEW r \in Requests, Put(r)
  PROVE  IInv'
<1> USE DEF IInv, TypeOK, Put, Fresh, Goto, Answer, Active,
    Uploading, Deleting, stored, history
<1>0. mine[r].path \in Path
  BY InHand
<1>1. TypeOK'
  BY <1>0
<1>2. OneAssetPerKey'
  BY DEF OneAssetPerKey
<1>3. OnlyAFailedUpdateLoses'
  BY DEF OnlyAFailedUpdateLoses, HandsOwnAsset, StepsRelyOnTheLast, Available
<1>4. HandsOwnAsset'
  BY DEF HandsOwnAsset, Row, Ids
<1>5. OverlapsAreMarked'
  BY DEF OverlapsAreMarked
<1>6. StepsRelyOnTheLast'
  BY DEF StepsRelyOnTheLast, HandsOwnAsset, OverlapsAreMarked
<1> QED
  BY <1>1, <1>2, <1>3, <1>4, <1>5, <1>6

LEMMA PutFailsInv ==
  ASSUME IInv, NEW r \in Requests, PutFails(r)
  PROVE  IInv'
<1> USE DEF IInv, TypeOK, PutFails, Trouble, Fresh, Goto, Answer, Active,
    Uploading, Deleting, stored, history
<1>1. TypeOK'
  BY InHand DEF Row, Ids
<1>2. OneAssetPerKey'
  BY DEF OneAssetPerKey
<1>3. OnlyAFailedUpdateLoses'
  BY DEF OnlyAFailedUpdateLoses, HandsOwnAsset, StepsRelyOnTheLast, Available
<1>4. HandsOwnAsset'
  BY DEF HandsOwnAsset, Row, Ids
<1>5. OverlapsAreMarked'
  BY DEF OverlapsAreMarked
<1>6. StepsRelyOnTheLast'
  BY DEF StepsRelyOnTheLast, HandsOwnAsset, OverlapsAreMarked
<1> QED
  BY <1>1, <1>2, <1>3, <1>4, <1>5, <1>6

LEMMA MarkFailedInv ==
  ASSUME IInv, NEW r \in Requests, MarkFailed(r)
  PROVE  IInv'
<1>0. TypeOK /\ HandsOwnAsset /\ Active(r)
  BY DEF IInv, MarkFailed, Active, Uploading, Deleting
<1>1. mine[r].id \in Ids /\ mine[r].path \in Path /\ mine[r].path.of = mine[r].id
  BY <1>0, InHand DEF MarkFailed, Uploading
<1>2. \/ UNCHANGED rows
      \/ /\ DOMAIN rows' = DOMAIN rows
         /\ \A a \in DOMAIN rows :
              /\ rows'[a].key = rows[a].key /\ rows'[a] \in Row /\ rows'[a].path.of = a
              /\ a # mine[r].id => rows'[a] = rows[a]
              /\ a = mine[r].id => rows'[a].path = mine[r].path /\ rows'[a].state = "upload_failed"
  BY <1>0, <1>1, Written DEF MarkFailed
<1> USE DEF IInv, TypeOK, MarkFailed, Fresh, Goto, Answer, Active,
    Uploading, Deleting, stored, history
<1>3. TypeOK'
  BY <1>1, <1>2 DEF Row, Ids
<1>4. OneAssetPerKey'
  BY <1>1, <1>2 DEF OneAssetPerKey
<1>5. OnlyAFailedUpdateLoses'
  BY <1>1, <1>2 DEF OnlyAFailedUpdateLoses, StepsRelyOnTheLast, Available
<1>6. HandsOwnAsset'
  BY <1>1, <1>2 DEF HandsOwnAsset
<1>7. OverlapsAreMarked'
  BY <1>1, <1>2 DEF OverlapsAreMarked
<1>8. StepsRelyOnTheLast'
  BY <1>1, <1>2 DEF StepsRelyOnTheLast, HandsOwnAsset, OverlapsAreMarked
<1> QED
  BY <1>3, <1>4, <1>5, <1>6, <1>7, <1>8

LEMMA UpdateInv ==
  ASSUME IInv, NEW r \in Requests, Update(r)
  PROVE  IInv'
<1>0. TypeOK /\ HandsOwnAsset /\ Active(r)
  BY DEF IInv, Update, Active, Uploading, Deleting
<1>1. mine[r].id \in Ids /\ mine[r].path \in Path /\ mine[r].path.of = mine[r].id
  BY <1>0, InHand DEF Update, Uploading
<1>9. Classified(r) \in {"ready", "parse_failed"}
  BY DEF Classified
<1>2. \/ UNCHANGED rows
      \/ /\ DOMAIN rows' = DOMAIN rows
         /\ \A a \in DOMAIN rows :
              /\ rows'[a].key = rows[a].key /\ rows'[a] \in Row /\ rows'[a].path.of = a
              /\ a # mine[r].id => rows'[a] = rows[a]
              /\ a = mine[r].id => rows'[a].path = mine[r].path /\ rows'[a].state = Classified(r)
  BY <1>0, <1>1, <1>9, Written DEF Update
<1> USE DEF IInv, TypeOK, Update, Fresh, Upsert, Goto, Answer, Active,
    Uploading, Deleting, stored, history
<1>3. TypeOK'
  <2>1. DOMAIN rows' = DOMAIN rows
    BY <1>2
  <2>2. \A a \in DOMAIN rows' : rows'[a] \in Row /\ rows'[a].path.of = a
    BY <1>2
  <2>3. pc' \in [Requests -> {"start", "done"} \cup Uploading \cup Deleting]
    OBVIOUS
  <2>4. answer' \in [Requests -> {"none", "ok", "failed", "name_exists", "object_exists",
                                  "storage_error", "refused", "not_found"}]
    OBVIOUS
  <2> QED
    BY <1>1, <2>1, <2>2, <2>3, <2>4
<1>4. OneAssetPerKey'
  BY <1>1, <1>2, <1>9 DEF OneAssetPerKey
<1>5. OnlyAFailedUpdateLoses'
  BY <1>1, <1>2, <1>9 DEF OnlyAFailedUpdateLoses, StepsRelyOnTheLast, Available
<1>6. HandsOwnAsset'
  BY <1>1, <1>2, <1>9 DEF HandsOwnAsset
<1>7. OverlapsAreMarked'
  BY <1>1, <1>2, <1>9 DEF OverlapsAreMarked
<1>8. StepsRelyOnTheLast'
  <2>1. ASSUME NEW q \in Requests, q # r, Active(q), mine[q].id = mine[r].id
        PROVE  mine[r].id \in contended
    BY <1>0, <2>1 DEF OverlapsAreMarked
  <2>2. \A a \in DOMAIN rows : a # mine[r].id => rows'[a] = rows[a]
    BY <1>2
  <2>3. pc'[r] = "cleanup" => mine[r].path # mine[r].old
    BY <1>0
  <2>4. pc'[r] = "undo" => mine[r].path \in undone'
    BY <1>0
  <2>5. pc'[r] \in {"undo", "cleanup", "done"}
    BY <1>0
  <2>6. ASSUME NEW q \in Requests, q # r
        PROVE  /\ pc[q]' = pc[q] /\ mine'[q] = mine[q] /\ contended' = contended
               /\ objects' = objects /\ undone \subseteq undone'
    BY <2>6
  <2>7. ASSUME NEW q \in Requests, q # r
        PROVE  /\ pc'[q] = "undo" => mine'[q].path \in undone'
               /\ Active(q)' /\ mine'[q].id \notin contended' =>
                    /\ pc'[q] = "update" => mine'[q].path \in objects'
                    /\ pc'[q] = "cleanup" /\ mine'[q].id \in DOMAIN rows' =>
                         rows'[mine'[q].id].path # mine'[q].old
                    /\ pc'[q] = "erase" => mine'[q].id \notin DOMAIN rows'
    BY <1>2, <2>1, <2>2, <2>6, <2>7 DEF StepsRelyOnTheLast
  <2>8. /\ pc'[r] = "undo" => mine'[r].path \in undone'
        /\ pc'[r] = "cleanup" /\ mine'[r].id \in DOMAIN rows' =>
             rows'[mine'[r].id].path # mine'[r].old
    <3>1. pc'[r] = "cleanup" => Write(r, Classified(r))
      BY <1>0
    <3> QED
      BY <1>0, <1>1, <1>9, <3>1, <2>3, <2>4, Written
  <2> QED
    BY <2>5, <2>7, <2>8 DEF StepsRelyOnTheLast
<1> QED
  BY <1>3, <1>4, <1>5, <1>6, <1>7, <1>8

LEMMA UpdateFailsInv ==
  ASSUME IInv, NEW r \in Requests, UpdateFails(r)
  PROVE  IInv'
<1>0. TypeOK /\ HandsOwnAsset /\ Active(r)
  BY DEF IInv, UpdateFails, Active, Uploading, Deleting
<1>1. mine[r].id \in Ids /\ mine[r].path \in Path /\ mine[r].path.of = mine[r].id
  BY <1>0, InHand DEF UpdateFails, Uploading
<1>9. Classified(r) \in {"ready", "parse_failed"}
  BY DEF Classified
<1>2. \/ UNCHANGED rows
      \/ /\ DOMAIN rows' = DOMAIN rows
         /\ \A a \in DOMAIN rows :
              /\ rows'[a].key = rows[a].key /\ rows'[a] \in Row /\ rows'[a].path.of = a
              /\ a # mine[r].id => rows'[a] = rows[a]
              /\ a = mine[r].id => rows'[a].path = mine[r].path /\ rows'[a].state = Classified(r)
  BY <1>0, <1>1, <1>9, Written DEF UpdateFails
<1> USE DEF IInv, TypeOK, UpdateFails, Trouble, Fresh, Goto, Answer, Active,
    Uploading, Deleting, stored, history
<1>3. TypeOK'
  BY <1>1, <1>2, <1>9 DEF Row, Ids
<1>4. OneAssetPerKey'
  BY <1>1, <1>2, <1>9 DEF OneAssetPerKey
<1>5. OnlyAFailedUpdateLoses'
  BY <1>1, <1>2, <1>9 DEF OnlyAFailedUpdateLoses, StepsRelyOnTheLast, Available
<1>6. HandsOwnAsset'
  BY <1>1, <1>2, <1>9 DEF HandsOwnAsset
<1>7. OverlapsAreMarked'
  BY <1>1, <1>2, <1>9 DEF OverlapsAreMarked
<1>8. StepsRelyOnTheLast'
  BY <1>1, <1>2, <1>9 DEF StepsRelyOnTheLast, HandsOwnAsset, OverlapsAreMarked
<1> QED
  BY <1>3, <1>4, <1>5, <1>6, <1>7, <1>8

LEMMA UndoInv ==
  ASSUME IInv, NEW r \in Requests, Undo(r)
  PROVE  IInv'
<1> USE DEF IInv, TypeOK, Undo, Remove, Trouble, Fresh, Goto, Answer, Active,
    Uploading, Deleting, stored, history
<1>1. TypeOK'
  BY InHand DEF Row, Ids
<1>2. OneAssetPerKey'
  BY DEF OneAssetPerKey
<1>3. OnlyAFailedUpdateLoses'
  BY DEF OnlyAFailedUpdateLoses, HandsOwnAsset, StepsRelyOnTheLast, Available
<1>4. HandsOwnAsset'
  BY DEF HandsOwnAsset, Row, Ids
<1>5. OverlapsAreMarked'
  BY DEF OverlapsAreMarked
<1>6. StepsRelyOnTheLast'
  BY InHand DEF StepsRelyOnTheLast, HandsOwnAsset, OverlapsAreMarked
<1> QED
  BY <1>1, <1>2, <1>3, <1>4, <1>5, <1>6

LEMMA CleanUpInv ==
  ASSUME IInv, NEW r \in Requests, CleanUp(r)
  PROVE  IInv'
<1> USE DEF IInv, TypeOK, CleanUp, Remove, Trouble, Fresh, Goto, Answer, Active,
    Uploading, Deleting, stored, history
<1>1. TypeOK'
  BY InHand DEF Row, Ids
<1>2. OneAssetPerKey'
  BY DEF OneAssetPerKey
<1>3. OnlyAFailedUpdateLoses'
  BY InHand DEF OnlyAFailedUpdateLoses, HandsOwnAsset, StepsRelyOnTheLast, Available
<1>4. HandsOwnAsset'
  BY DEF HandsOwnAsset, Row, Ids
<1>5. OverlapsAreMarked'
  BY DEF OverlapsAreMarked
<1>6. StepsRelyOnTheLast'
  BY InHand DEF StepsRelyOnTheLast, HandsOwnAsset, OverlapsAreMarked
<1> QED
  BY <1>1, <1>2, <1>3, <1>4, <1>5, <1>6

LEMMA FindInv ==
  ASSUME IInv, NEW r \in Requests, Find(r)
  PROVE  IInv'
<1> USE DEF IInv, TypeOK, Find, Take, Called, Fresh, Goto, Answer, Active,
    Uploading, Deleting, stored, history
<1>1. TypeOK'
  BY DEF Row, Ids
<1>2. OneAssetPerKey'
  BY DEF OneAssetPerKey
<1>3. OnlyAFailedUpdateLoses'
  BY DEF OnlyAFailedUpdateLoses, HandsOwnAsset, StepsRelyOnTheLast, Available
<1>4. HandsOwnAsset'
  BY DEF HandsOwnAsset, Row, Ids
<1>5. OverlapsAreMarked'
  BY DEF OverlapsAreMarked
<1>6. StepsRelyOnTheLast'
  BY DEF StepsRelyOnTheLast, HandsOwnAsset, OverlapsAreMarked
<1> QED
  BY <1>1, <1>2, <1>3, <1>4, <1>5, <1>6

LEMMA CheckInv ==
  ASSUME IInv, NEW r \in Requests, Check(r)
  PROVE  IInv'
<1> USE DEF IInv, TypeOK, Check, Fresh, Goto, Answer, Active,
    Uploading, Deleting, stored, history
<1>1. TypeOK'
  OBVIOUS
<1>2. OneAssetPerKey'
  BY DEF OneAssetPerKey
<1>3. OnlyAFailedUpdateLoses'
  BY DEF OnlyAFailedUpdateLoses, HandsOwnAsset, StepsRelyOnTheLast, Available
<1>4. HandsOwnAsset'
  BY DEF HandsOwnAsset, Row, Ids
<1>5. OverlapsAreMarked'
  BY DEF OverlapsAreMarked
<1>6. StepsRelyOnTheLast'
  BY DEF StepsRelyOnTheLast, HandsOwnAsset, OverlapsAreMarked
<1> QED
  BY <1>1, <1>2, <1>3, <1>4, <1>5, <1>6

LEMMA DropInv ==
  ASSUME IInv, NEW r \in Requests, Drop(r)
  PROVE  IInv'
<1> USE DEF IInv, TypeOK, Drop, Restrict, Fresh, Goto, Answer, Active,
    Uploading, Deleting, stored, history
<1>1. TypeOK'
  <2>1. DOMAIN rows' \subseteq DOMAIN rows /\ \A a \in DOMAIN rows' : rows'[a] = rows[a]
    OBVIOUS
  <2>2. inUse \subseteq DOMAIN rows'
    OBVIOUS
  <2>5. pc' = [pc EXCEPT ![r] = "done"] \/ pc' = [pc EXCEPT ![r] = "erase"]
    OBVIOUS
  <2>3. pc' \in [Requests -> {"start", "done"} \cup Uploading \cup Deleting]
    BY <2>5
  <2>4. answer' \in [Requests -> {"none", "ok", "failed", "name_exists", "object_exists",
                                  "storage_error", "refused", "not_found"}]
    OBVIOUS
  <2> QED
    BY <2>1, <2>2, <2>3, <2>4
<1>2. OneAssetPerKey'
  BY DEF OneAssetPerKey
<1>3. OnlyAFailedUpdateLoses'
  BY DEF OnlyAFailedUpdateLoses, HandsOwnAsset, StepsRelyOnTheLast, Available
<1>4. HandsOwnAsset'
  BY DEF HandsOwnAsset, Row, Ids
<1>5. OverlapsAreMarked'
  BY DEF OverlapsAreMarked
<1>6. StepsRelyOnTheLast'
  BY DEF StepsRelyOnTheLast, HandsOwnAsset, OverlapsAreMarked
<1> QED
  BY <1>1, <1>2, <1>3, <1>4, <1>5, <1>6

LEMMA EraseInv ==
  ASSUME IInv, NEW r \in Requests, Erase(r)
  PROVE  IInv'
<1> USE DEF IInv, TypeOK, Erase, Remove, Trouble, Fresh, Goto, Answer, Active,
    Uploading, Deleting, stored, history
<1>1. TypeOK'
  BY InHand DEF Row, Ids
<1>2. OneAssetPerKey'
  BY DEF OneAssetPerKey
<1>3. OnlyAFailedUpdateLoses'
  BY InHand DEF OnlyAFailedUpdateLoses, HandsOwnAsset, StepsRelyOnTheLast, Available
<1>4. HandsOwnAsset'
  BY DEF HandsOwnAsset, Row, Ids
<1>5. OverlapsAreMarked'
  BY DEF OverlapsAreMarked
<1>6. StepsRelyOnTheLast'
  BY InHand DEF StepsRelyOnTheLast, HandsOwnAsset, OverlapsAreMarked
<1> QED
  BY <1>1, <1>2, <1>3, <1>4, <1>5, <1>6

LEMMA StopsInv ==
  ASSUME IInv, NEW r \in Requests, Stops(r)
  PROVE  IInv'
<1> USE DEF IInv, TypeOK, Stops, Trouble, Fresh, Goto, Answer, Active,
    Uploading, Deleting, stored, history
<1>1. TypeOK'
  BY InHand DEF Row, Ids
<1>2. OneAssetPerKey'
  BY DEF OneAssetPerKey
<1>3. OnlyAFailedUpdateLoses'
  BY DEF OnlyAFailedUpdateLoses, HandsOwnAsset, StepsRelyOnTheLast, Available
<1>4. HandsOwnAsset'
  BY DEF HandsOwnAsset, Row, Ids
<1>5. OverlapsAreMarked'
  BY DEF OverlapsAreMarked
<1>6. StepsRelyOnTheLast'
  BY DEF StepsRelyOnTheLast, HandsOwnAsset, OverlapsAreMarked
<1> QED
  BY <1>1, <1>2, <1>3, <1>4, <1>5, <1>6

LEMMA UsePathInv ==
  ASSUME IInv, NEW a \in Ids, UsePath(a)
  PROVE  IInv'
<1> USE DEF IInv, UsePath, stored, history
<1>1. TypeOK'
  BY DEF TypeOK, Ids
<1>2. OneAssetPerKey' /\ OnlyAFailedUpdateLoses'
  BY DEF OneAssetPerKey, OnlyAFailedUpdateLoses, Available
<1>3. HandsOwnAsset' /\ OverlapsAreMarked' /\ StepsRelyOnTheLast'
  BY DEF HandsOwnAsset, OverlapsAreMarked, StepsRelyOnTheLast, Active, Fresh
<1> QED
  BY <1>1, <1>2, <1>3

LEMMA StutterInv == IInv /\ UNCHANGED vars => IInv'
BY DEF vars, stored, history, IInv, TypeOK, OneAssetPerKey, OnlyAFailedUpdateLoses,
       HandsOwnAsset, OverlapsAreMarked, StepsRelyOnTheLast, Active, Fresh, Available

LEMMA NextInv == IInv /\ [Next]_vars => IInv'
<1> SUFFICES ASSUME IInv, Next PROVE IInv'
  BY StutterInv
<1>1. ASSUME NEW r \in Requests, Upload(r) PROVE IInv'
  BY <1>1, LookupInv, InsertInv, PutInv, PutFailsInv, MarkFailedInv, UpdateInv,
     UpdateFailsInv, UndoInv, CleanUpInv
  DEF Upload
<1>2. ASSUME NEW r \in Requests, Delete(r) PROVE IInv'
  BY <1>2, FindInv, CheckInv, DropInv, EraseInv DEF Delete
<1> QED
  BY <1>1, <1>2, StopsInv, UsePathInv DEF Next

-----------------------------------------------------------------------------
(* The strengthened invariant from which the others follow.                 *)
THEOREM Invariance == Spec => []IInv
<1> QED
  BY InitInv, NextInv, PTL DEF Spec

(* Every variable of a reachable state has its type.                        *)
THEOREM TypeCorrect == Spec => []TypeOK
<1>1. IInv => TypeOK
  BY DEF IInv
<1> QED
  BY <1>1, Invariance, PTL

(* However uploads interleave, one object key names at most one asset.      *)
THEOREM OneAssetPerKeyAlways == Spec => []OneAssetPerKey
<1>1. IInv => OneAssetPerKey
  BY DEF IInv
<1> QED
  BY <1>1, Invariance, PTL

(* Where requests do not overlap, a failure or a stop at any step of        *)
(* uploadAsset or deleteAsset loses no readable asset's object, but for the *)
(* object that uploadAsset itself removes after a failed update.            *)
THEOREM OnlyAFailedUpdateLosesAlways == Spec => []OnlyAFailedUpdateLoses
<1>1. IInv => OnlyAFailedUpdateLoses
  BY DEF IInv
<1> QED
  BY <1>1, Invariance, PTL

-----------------------------------------------------------------------------
(* QuietAssetsAreExact needs to know what is exact while a request works.   *)

(* A step of a request at work disturbs nothing but its own asset: it is    *)
(* enough to know what it leaves of that one.                               *)
LEMMA OwnAssetOnly ==
  ASSUME IInv, ExactInv, NEW r \in Requests, Active(r),
         UNCHANGED <<mine, contended>>, troubled \subseteq troubled',
         NEW step \in {"put", "mark", "update", "undo", "cleanup", "drop", "erase", "done"},
         pc' = [pc EXCEPT ![r] = step],
         \A a \in Ids \ {mine[r].id} :
           /\ a \in DOMAIN rows' <=> a \in DOMAIN rows
           /\ a \in DOMAIN rows => rows'[a] = rows[a]
           /\ Objects(a)' = Objects(a),
         mine[r].id \notin contended \cup troubled' =>
           IF step # "done" THEN ExactWork(r)'
           ELSE Objects(mine[r].id)' =
                  IF mine[r].id \in DOMAIN rows' THEN {rows'[mine[r].id].path} ELSE {}
  PROVE  ExactInv'
<1>1. /\ pc'[r] = step
      /\ \A q \in Requests \ {r} : pc'[q] = pc[q]
      /\ \A q \in Requests \ {r} : Active(q)' = Active(q)
      /\ Active(r)' <=> step # "done"
  BY DEF IInv, TypeOK, Active, Uploading, Deleting
<1>2. \A q \in Requests \ {r} :
        Active(q) /\ mine[q].id = mine[r].id => mine[r].id \in contended
  BY DEF IInv, OverlapsAreMarked
<1>3. \A q \in Requests : Active(q) => mine[q].id \in Ids
  BY DEF IInv, HandsOwnAsset
<1>4. NamesAreNew'
  <2>1. ASSUME NEW q \in Requests, pc'[q] \in {"start", "insert"}
        PROVE  /\ q # r /\ pc[q] \in {"start", "insert"}
               /\ q # mine[r].id /\ q \in Ids
    BY <1>1, <2>1 DEF ExactInv, NamesAreNew, Ids
  <2> QED
    BY <1>1, <2>1 DEF ExactInv, NamesAreNew
<1>5. WorkIsExact'
  <2>1. ASSUME NEW q \in Requests \ {r}, Active(q)', mine[q].id \notin contended \cup troubled'
        PROVE  ExactWork(q)'
    <3>1. ExactWork(q) /\ mine[q].id \in Ids \ {mine[r].id}
      BY <1>1, <1>2, <1>3, <2>1 DEF ExactInv, WorkIsExact
    <3> QED
      BY <1>1, <3>1 DEF ExactWork, Creates, Fresh
  <2> QED
    BY <1>1, <2>1 DEF WorkIsExact
<1>6. QuietAssetsAreExact'
  <2>1. ASSUME NEW a \in Ids, a \notin contended \cup troubled',
               \A q \in Requests : ~(Active(q)' /\ mine[q].id = a)
        PROVE  Objects(a)' = IF a \in DOMAIN rows' THEN {rows'[a].path} ELSE {}
    <3>1. CASE a = mine[r].id
      BY <1>1, <2>1, <3>1
    <3>2. CASE a # mine[r].id
      BY <1>1, <2>1, <3>2 DEF ExactInv, QuietAssetsAreExact
    <3> QED
      BY <3>1, <3>2
  <2> QED
    BY <2>1 DEF QuietAssetsAreExact
<1> QED
  BY <1>4, <1>5, <1>6 DEF ExactInv

LEMMA PutFailsExact ==
  ASSUME IInv, ExactInv, NEW r \in Requests, PutFails(r)
  PROVE  ExactInv'
<1>1. /\ Active(r) /\ mine[r].id \in Ids
      /\ pc[r] \in Uploading => mine[r].path.of = mine[r].id
      /\ pc[r] \in Deleting \cup {"cleanup"} \/ ~Fresh(r) => mine[r].old.of = mine[r].id
  BY InHand DEF IInv, PutFails, Active, Uploading, Deleting
<1>2. mine[r].id \notin contended \cup troubled => ExactWork(r)
  BY <1>1 DEF ExactInv, WorkIsExact
<1>3. \A a \in Ids \ {mine[r].id} :
        /\ a \in DOMAIN rows' <=> a \in DOMAIN rows
        /\ a \in DOMAIN rows => rows'[a] = rows[a]
        /\ Objects(a)' = Objects(a)
  BY <1>1 DEF PutFails, Trouble, Goto, Answer, history, Objects, IInv, TypeOK, Uploading,
     Deleting, stored
<1>4. mine[r].id \in contended \cup troubled'
  BY <1>1, <1>2 DEF PutFails, Trouble, Goto, Answer, history, ExactWork
<1> QED
  BY <1>1, <1>3, <1>4, OwnAssetOnly DEF PutFails, Trouble, Goto, Answer, history

LEMMA UpdateFailsExact ==
  ASSUME IInv, ExactInv, NEW r \in Requests, UpdateFails(r)
  PROVE  ExactInv'
<1>1. /\ Active(r) /\ mine[r].id \in Ids
      /\ pc[r] \in Uploading => mine[r].path.of = mine[r].id
      /\ pc[r] \in Deleting \cup {"cleanup"} \/ ~Fresh(r) => mine[r].old.of = mine[r].id
  BY InHand DEF IInv, UpdateFails, Active, Uploading, Deleting
<1>2. mine[r].id \notin contended \cup troubled => ExactWork(r)
  BY <1>1 DEF ExactInv, WorkIsExact
<1>3. \A a \in Ids \ {mine[r].id} :
        /\ a \in DOMAIN rows' <=> a \in DOMAIN rows
        /\ a \in DOMAIN rows => rows'[a] = rows[a]
        /\ Objects(a)' = Objects(a)
  BY <1>1 DEF UpdateFails, Trouble, Write, Goto, Answer, history, Objects, IInv, TypeOK,
     Uploading, Deleting, stored
<1>4. mine[r].id \in contended \cup troubled'
  BY <1>1, <1>2 DEF UpdateFails, Trouble, Write, Goto, Answer, history, ExactWork
<1> QED
  BY <1>1, <1>3, <1>4, OwnAssetOnly DEF UpdateFails, Trouble, Write, Goto, Answer, history

LEMMA StopsExact ==
  ASSUME IInv, ExactInv, NEW r \in Requests, Stops(r)
  PROVE  ExactInv'
<1>1. /\ Active(r) /\ mine[r].id \in Ids
      /\ pc[r] \in Uploading => mine[r].path.of = mine[r].id
      /\ pc[r] \in Deleting \cup {"cleanup"} \/ ~Fresh(r) => mine[r].old.of = mine[r].id
  BY InHand DEF IInv, Stops, Active, Uploading, Deleting
<1>2. mine[r].id \notin contended \cup troubled => ExactWork(r)
  BY <1>1 DEF ExactInv, WorkIsExact
<1>3. \A a \in Ids \ {mine[r].id} :
        /\ a \in DOMAIN rows' <=> a \in DOMAIN rows
        /\ a \in DOMAIN rows => rows'[a] = rows[a]
        /\ Objects(a)' = Objects(a)
  BY <1>1 DEF Stops, Trouble, Goto, Answer, stored, Objects, IInv, TypeOK, Uploading,
     Deleting, stored
<1>4. mine[r].id \in contended \cup troubled'
  BY <1>1, <1>2 DEF Stops, Trouble, Goto, Answer, stored, ExactWork
<1> QED
  BY <1>1, <1>3, <1>4, OwnAssetOnly DEF Stops, Trouble, Goto, Answer, stored

LEMMA MarkFailedExact ==
  ASSUME IInv, ExactInv, NEW r \in Requests, MarkFailed(r)
  PROVE  ExactInv'
<1>1. /\ Active(r) /\ mine[r].id \in Ids
      /\ pc[r] \in Uploading => mine[r].path.of = mine[r].id
      /\ pc[r] \in Deleting \cup {"cleanup"} \/ ~Fresh(r) => mine[r].old.of = mine[r].id
  BY InHand DEF IInv, MarkFailed, Active, Uploading, Deleting
<1>2. mine[r].id \notin contended \cup troubled => ExactWork(r)
  BY <1>1 DEF ExactInv, WorkIsExact
<1>3. \A a \in Ids \ {mine[r].id} :
        /\ a \in DOMAIN rows' <=> a \in DOMAIN rows
        /\ a \in DOMAIN rows => rows'[a] = rows[a]
        /\ Objects(a)' = Objects(a)
  BY <1>1 DEF MarkFailed, Write, Goto, Answer, history, Objects, IInv, TypeOK, Uploading,
     Deleting, stored
<1>4. mine[r].id \in contended \cup troubled'
  BY <1>1, <1>2 DEF MarkFailed, Write, Goto, Answer, history, ExactWork
<1> QED
  BY <1>1, <1>3, <1>4, OwnAssetOnly DEF MarkFailed, Write, Goto, Answer, history

LEMMA UndoExact ==
  ASSUME IInv, ExactInv, NEW r \in Requests, Undo(r)
  PROVE  ExactInv'
<1>1. /\ Active(r) /\ mine[r].id \in Ids
      /\ pc[r] \in Uploading => mine[r].path.of = mine[r].id
      /\ pc[r] \in Deleting \cup {"cleanup"} \/ ~Fresh(r) => mine[r].old.of = mine[r].id
  BY InHand DEF IInv, Undo, Active, Uploading, Deleting
<1>2. mine[r].id \notin contended \cup troubled => ExactWork(r)
  BY <1>1 DEF ExactInv, WorkIsExact
<1>3. \A a \in Ids \ {mine[r].id} :
        /\ a \in DOMAIN rows' <=> a \in DOMAIN rows
        /\ a \in DOMAIN rows => rows'[a] = rows[a]
        /\ Objects(a)' = Objects(a)
  BY <1>1 DEF Undo, Remove, Trouble, Goto, Answer, Objects, IInv, TypeOK, Uploading,
     Deleting, stored
<1>4. mine[r].id \in contended \cup troubled'
  BY <1>1, <1>2 DEF Undo, Remove, Trouble, Goto, Answer, ExactWork
<1> QED
  BY <1>1, <1>3, <1>4, OwnAssetOnly DEF Undo, Remove, Trouble, Goto, Answer

LEMMA CleanUpExact ==
  ASSUME IInv, ExactInv, NEW r \in Requests, CleanUp(r)
  PROVE  ExactInv'
<1>1. /\ Active(r) /\ mine[r].id \in Ids
      /\ pc[r] \in Uploading => mine[r].path.of = mine[r].id
      /\ pc[r] \in Deleting \cup {"cleanup"} \/ ~Fresh(r) => mine[r].old.of = mine[r].id
  BY InHand DEF IInv, CleanUp, Active, Uploading, Deleting
<1>2. mine[r].id \notin contended \cup troubled => ExactWork(r)
  BY <1>1 DEF ExactInv, WorkIsExact
<1>3. \A a \in Ids \ {mine[r].id} :
        /\ a \in DOMAIN rows' <=> a \in DOMAIN rows
        /\ a \in DOMAIN rows => rows'[a] = rows[a]
        /\ Objects(a)' = Objects(a)
  BY <1>1 DEF CleanUp, Remove, Trouble, Goto, Answer, Objects, IInv, TypeOK, Uploading,
     Deleting, stored
<1>4. ASSUME mine[r].id \notin contended \cup troubled', ExactWork(r)
      PROVE  Objects(mine[r].id)' =
               IF mine[r].id \in DOMAIN rows' THEN {rows'[mine[r].id].path} ELSE {}
  BY <1>1, <1>4 DEF CleanUp, Remove, Trouble, Goto, Answer, ExactWork, Objects, Creates,
     Uploading
<1> QED
  BY <1>1, <1>2, <1>3, <1>4, OwnAssetOnly DEF CleanUp, Remove, Trouble, Goto, Answer

LEMMA EraseExact ==
  ASSUME IInv, ExactInv, NEW r \in Requests, Erase(r)
  PROVE  ExactInv'
<1>1. /\ Active(r) /\ mine[r].id \in Ids
      /\ pc[r] \in Uploading => mine[r].path.of = mine[r].id
      /\ pc[r] \in Deleting \cup {"cleanup"} \/ ~Fresh(r) => mine[r].old.of = mine[r].id
  BY InHand DEF IInv, Erase, Active, Uploading, Deleting
<1>2. mine[r].id \notin contended \cup troubled => ExactWork(r)
  BY <1>1 DEF ExactInv, WorkIsExact
<1>3. \A a \in Ids \ {mine[r].id} :
        /\ a \in DOMAIN rows' <=> a \in DOMAIN rows
        /\ a \in DOMAIN rows => rows'[a] = rows[a]
        /\ Objects(a)' = Objects(a)
  BY <1>1 DEF Erase, Remove, Trouble, Goto, Answer, Objects, IInv, TypeOK, Uploading,
     Deleting, stored
<1>4. ASSUME mine[r].id \notin contended \cup troubled', ExactWork(r)
      PROVE  Objects(mine[r].id)' =
               IF mine[r].id \in DOMAIN rows' THEN {rows'[mine[r].id].path} ELSE {}
  BY <1>1, <1>4 DEF Erase, Remove, Trouble, Goto, Answer, ExactWork, Objects, Creates, Uploading
<1> QED
  BY <1>1, <1>2, <1>3, <1>4, OwnAssetOnly DEF Erase, Remove, Trouble, Goto, Answer

LEMMA InsertExact ==
  ASSUME IInv, ExactInv, NEW r \in Requests, Insert(r)
  PROVE  ExactInv'
<1>1. /\ Active(r) /\ mine[r].id \in Ids
      /\ pc[r] \in Uploading => mine[r].path.of = mine[r].id
      /\ pc[r] \in Deleting \cup {"cleanup"} \/ ~Fresh(r) => mine[r].old.of = mine[r].id
  BY InHand DEF IInv, Insert, Active, Uploading, Deleting
<1>0. mine[r].id = r /\ Fresh(r)
  BY DEF IInv, HandsOwnAsset, Insert, Active, Uploading, Fresh
<1>2. mine[r].id \notin contended \cup troubled => ExactWork(r)
  BY <1>1 DEF ExactInv, WorkIsExact
<1>3. \A a \in Ids \ {mine[r].id} :
        /\ a \in DOMAIN rows' <=> a \in DOMAIN rows
        /\ a \in DOMAIN rows => rows'[a] = rows[a]
        /\ Objects(a)' = Objects(a)
  BY <1>0 DEF Insert, Objects
<1>4. ASSUME mine[r].id \notin contended \cup troubled', ExactWork(r)
      PROVE  IF pc'[r] # "done" THEN ExactWork(r)'
             ELSE Objects(mine[r].id)' =
                    IF mine[r].id \in DOMAIN rows' THEN {rows'[mine[r].id].path} ELSE {}
  BY <1>0, <1>1, <1>4 DEF Insert, Goto, Answer, history, ExactWork, Objects, Creates, Fresh,
     Uploading, IInv, TypeOK
<1> QED
  BY <1>1, <1>2, <1>3, <1>4, OwnAssetOnly DEF Insert, Goto, Answer, history, IInv, TypeOK,
     Uploading, Deleting

LEMMA PutExact ==
  ASSUME IInv, ExactInv, NEW r \in Requests, Put(r)
  PROVE  ExactInv'
<1>1. /\ Active(r) /\ mine[r].id \in Ids
      /\ pc[r] \in Uploading => mine[r].path.of = mine[r].id
      /\ pc[r] \in Deleting \cup {"cleanup"} \/ ~Fresh(r) => mine[r].old.of = mine[r].id
  BY InHand DEF IInv, Put, Active, Uploading, Deleting
<1>2. mine[r].id \notin contended \cup troubled => ExactWork(r)
  BY <1>1 DEF ExactInv, WorkIsExact
<1>3. \A a \in Ids \ {mine[r].id} :
        /\ a \in DOMAIN rows' <=> a \in DOMAIN rows
        /\ a \in DOMAIN rows => rows'[a] = rows[a]
        /\ Objects(a)' = Objects(a)
  BY <1>1 DEF Put, Upsert, Goto, Answer, history, Objects, IInv, TypeOK, Uploading,
     Deleting, stored
<1>4. ASSUME mine[r].id \notin contended \cup troubled', ExactWork(r)
      PROVE  IF pc'[r] # "done" THEN ExactWork(r)'
             ELSE Objects(mine[r].id)' =
                    IF mine[r].id \in DOMAIN rows' THEN {rows'[mine[r].id].path} ELSE {}
  BY <1>1, <1>4 DEF Put, Upsert, Goto, Answer, history, ExactWork, Objects, Creates, Fresh,
     Uploading, Deleting, IInv, TypeOK
<1> QED
  BY <1>1, <1>2, <1>3, <1>4, OwnAssetOnly DEF Put, Upsert, Goto, Answer, history, IInv,
     TypeOK, Uploading, Deleting

LEMMA CheckExact ==
  ASSUME IInv, ExactInv, NEW r \in Requests, Check(r)
  PROVE  ExactInv'
<1>1. /\ Active(r) /\ mine[r].id \in Ids
      /\ pc[r] \in Uploading => mine[r].path.of = mine[r].id
      /\ pc[r] \in Deleting \cup {"cleanup"} \/ ~Fresh(r) => mine[r].old.of = mine[r].id
  BY InHand DEF IInv, Check, Active, Uploading, Deleting
<1>2. mine[r].id \notin contended \cup troubled => ExactWork(r)
  BY <1>1 DEF ExactInv, WorkIsExact
<1>3. \A a \in Ids \ {mine[r].id} :
        /\ a \in DOMAIN rows' <=> a \in DOMAIN rows
        /\ a \in DOMAIN rows => rows'[a] = rows[a]
        /\ Objects(a)' = Objects(a)
  BY <1>1 DEF Check, Goto, Answer, stored, history, Objects, IInv, TypeOK, Uploading,
     Deleting, stored
<1>4. ASSUME mine[r].id \notin contended \cup troubled', ExactWork(r)
      PROVE  IF pc'[r] # "done" THEN ExactWork(r)'
             ELSE Objects(mine[r].id)' =
                    IF mine[r].id \in DOMAIN rows' THEN {rows'[mine[r].id].path} ELSE {}
  BY <1>1, <1>4 DEF Check, Goto, Answer, stored, history, ExactWork, Objects, Creates,
     Fresh, Uploading, Deleting, IInv, TypeOK
<1> QED
  BY <1>1, <1>2, <1>3, <1>4, OwnAssetOnly DEF Check, Goto, Answer, stored, history, IInv,
     TypeOK, Uploading, Deleting

LEMMA DropExact ==
  ASSUME IInv, ExactInv, NEW r \in Requests, Drop(r)
  PROVE  ExactInv'
<1>1. /\ Active(r) /\ mine[r].id \in Ids
      /\ pc[r] \in Uploading => mine[r].path.of = mine[r].id
      /\ pc[r] \in Deleting \cup {"cleanup"} \/ ~Fresh(r) => mine[r].old.of = mine[r].id
  BY InHand DEF IInv, Drop, Active, Uploading, Deleting
<1>2. mine[r].id \notin contended \cup troubled => ExactWork(r)
  BY <1>1 DEF ExactInv, WorkIsExact
<1>3. \A a \in Ids \ {mine[r].id} :
        /\ a \in DOMAIN rows' <=> a \in DOMAIN rows
        /\ a \in DOMAIN rows => rows'[a] = rows[a]
        /\ Objects(a)' = Objects(a)
  BY <1>1 DEF Drop, Restrict, Goto, Answer, history, Objects, IInv, TypeOK, Uploading,
     Deleting, stored
<1>4. ASSUME mine[r].id \notin contended \cup troubled', ExactWork(r)
      PROVE  IF pc'[r] # "done" THEN ExactWork(r)'
             ELSE Objects(mine[r].id)' =
                    IF mine[r].id \in DOMAIN rows' THEN {rows'[mine[r].id].path} ELSE {}
  BY <1>1, <1>4 DEF Drop, Restrict, Goto, Answer, history, ExactWork, Objects, Creates,
     Fresh, Uploading, Deleting, IInv, TypeOK
<1> QED
  BY <1>1, <1>2, <1>3, <1>4, OwnAssetOnly DEF Drop, Restrict, Goto, Answer, history, IInv,
     TypeOK, Uploading, Deleting

LEMMA UpdateExact ==
  ASSUME IInv, ExactInv, NEW r \in Requests, Update(r)
  PROVE  ExactInv'
<1>1. /\ Active(r) /\ mine[r].id \in Ids
      /\ pc[r] \in Uploading => mine[r].path.of = mine[r].id
      /\ pc[r] \in Deleting \cup {"cleanup"} \/ ~Fresh(r) => mine[r].old.of = mine[r].id
  BY InHand DEF IInv, Update, Active, Uploading, Deleting
<1>2. mine[r].id \notin contended \cup troubled => ExactWork(r)
  BY <1>1 DEF ExactInv, WorkIsExact
<1>3. \A a \in Ids \ {mine[r].id} :
        /\ a \in DOMAIN rows' <=> a \in DOMAIN rows
        /\ a \in DOMAIN rows => rows'[a] = rows[a]
        /\ Objects(a)' = Objects(a)
  BY <1>1 DEF Update, Write, Upsert, Goto, Answer, Objects, IInv, TypeOK, Uploading,
     Deleting, stored
<1>4. ASSUME mine[r].id \notin contended \cup troubled', ExactWork(r)
      PROVE  IF pc'[r] # "done" THEN ExactWork(r)'
             ELSE Objects(mine[r].id)' =
                    IF mine[r].id \in DOMAIN rows' THEN {rows'[mine[r].id].path} ELSE {}
  <2>1. mine[r].id \in DOMAIN rows /\ Write(r, Classified(r))
    BY <1>4 DEF Update, ExactWork
  <2>2. mine[r].id \in DOMAIN rows' /\ rows'[mine[r].id].path = mine[r].path
    <3>1. rows[mine[r].id] \in Row
      BY <2>1 DEF IInv, TypeOK
    <3>2. rows'[mine[r].id] =
            [rows[mine[r].id] EXCEPT !.path = mine[r].path, !.state = Classified(r)]
      BY <2>1 DEF Write
    <3> QED
      BY <2>1, <3>1, <3>2 DEF Write, Row
  <2>3. CASE Fresh(r) \/ Upsert(r)
    <3>1. pc'[r] = "done"
      BY <2>1, <2>3 DEF Update, Goto, Answer, IInv, TypeOK
    <3>2. Objects(mine[r].id)' = {mine[r].path}
      BY <1>4, <2>3 DEF Update, ExactWork, Objects, Creates, Upsert, Uploading
    <3> QED
      BY <2>2, <3>1, <3>2
  <2>4. CASE ~(Fresh(r) \/ Upsert(r))
    <3>1. pc'[r] = "cleanup" /\ mine' = mine
      BY <2>1, <2>4 DEF Update, Goto, IInv, TypeOK
    <3>2. Objects(mine[r].id)' = {mine[r].path, mine[r].old}
      BY <1>4, <2>4 DEF Update, ExactWork, Objects, Creates, Upsert, Uploading
    <3> QED
      BY <2>2, <2>4, <3>1, <3>2 DEF ExactWork, Upsert, Creates, Fresh, Uploading
  <2> QED
    BY <2>3, <2>4
<1> QED
  BY <1>1, <1>2, <1>3, <1>4, OwnAssetOnly DEF Update, Write, Upsert, Goto, Answer, IInv,
     TypeOK, Uploading, Deleting

-----------------------------------------------------------------------------
(* A request that begins to work on an asset finds it quiet, or overlaps.   *)
LEMMA TakeExact ==
  ASSUME IInv, ExactInv, NEW r \in Requests, pc[r] = "start",
         UNCHANGED <<rows, objects, troubled>>,
         NEW a \in Ids, NEW path, NEW old, Take(r, a, path, old),
         NEW step \in {"insert", "put", "check"}, Goto(r, step),
         \/ step = "insert" /\ a = r /\ a \notin DOMAIN rows
         \/ /\ step = "put" \/ step = "check"
            /\ a \in DOMAIN rows /\ a # r /\ old = rows[a].path
  PROVE  ExactInv'
<1>1. /\ pc'[r] = step /\ mine'[r] = [id |-> a, path |-> path, old |-> old]
      /\ ~Active(r) /\ Active(r)'
      /\ \A q \in Requests \ {r} :
           pc'[q] = pc[q] /\ mine'[q] = mine[q] /\ (Active(q)' <=> Active(q))
      /\ contended \subseteq contended'
      /\ a \notin contended' => \A q \in Requests : ~(Active(q) /\ mine[q].id = a)
  BY DEF IInv, TypeOK, Take, Goto, Active, Uploading, Deleting
<1>2. \A b : Objects(b)' = Objects(b)
  BY DEF Objects
<1>3. NamesAreNew'
  BY <1>1 DEF ExactInv, NamesAreNew
<1>4. WorkIsExact'
  <2>1. ASSUME NEW q \in Requests \ {r}, Active(q)', mine'[q].id \notin contended' \cup troubled'
        PROVE  ExactWork(q)'
    <3>1. ExactWork(q)
      BY <1>1, <2>1 DEF ExactInv, WorkIsExact
    <3> QED
      BY <1>1, <1>2, <3>1 DEF ExactWork, Creates, Fresh
  <2>2. ASSUME a \notin contended' \cup troubled' PROVE ExactWork(r)'
    <3>1. Objects(a) = IF a \in DOMAIN rows THEN {rows[a].path} ELSE {}
      BY <1>1, <2>2 DEF ExactInv, QuietAssetsAreExact
    <3> QED
      BY <1>1, <1>2, <3>1 DEF ExactWork, Creates, Fresh, Uploading
  <2> QED
    BY <1>1, <2>1, <2>2 DEF WorkIsExact
<1>5. QuietAssetsAreExact'
  BY <1>1, <1>2 DEF ExactInv, QuietAssetsAreExact
<1> QED
  BY <1>3, <1>4, <1>5 DEF ExactInv

(* A request that ends where it began leaves all as it was.                 *)
LEMMA LeaveExact ==
  ASSUME IInv, ExactInv, NEW r \in Requests, pc[r] = "start",
         UNCHANGED <<rows, objects, mine, contended, troubled>>, Goto(r, "done")
  PROVE  ExactInv'
<1>1. \A q \in Requests : (q # r => pc'[q] = pc[q]) /\ (Active(q)' <=> Active(q))
  BY DEF IInv, TypeOK, Goto, Active, Uploading, Deleting
<1>2. NamesAreNew'
  BY <1>1 DEF ExactInv, NamesAreNew, IInv, TypeOK, Goto
<1>3. WorkIsExact'
  BY <1>1 DEF ExactInv, WorkIsExact, ExactWork, Objects, Creates, Fresh, Active, Uploading,
     Deleting
<1>4. QuietAssetsAreExact'
  BY <1>1 DEF ExactInv, QuietAssetsAreExact, Objects
<1> QED
  BY <1>2, <1>3, <1>4 DEF ExactInv

LEMMA LookupExact ==
  ASSUME IInv, ExactInv, NEW r \in Requests, Lookup(r)
  PROVE  ExactInv'
<1>1. r \in Ids /\ r \notin DOMAIN rows /\ DOMAIN rows \subseteq Ids
  BY DEF ExactInv, NamesAreNew, IInv, TypeOK, Lookup, Ids
<1>2. CASE Answer(r, "name_exists") /\ UNCHANGED <<mine, contended>>
  BY <1>2, LeaveExact DEF Lookup, Answer, stored
<1>3. ASSUME NEW a \in Called(ask[r].key), Goto(r, "put"),
             Take(r, a, [of |-> a, via |-> "upload", sum |-> ask[r].sum], rows[a].path)
      PROVE  ExactInv'
  BY <1>1, <1>3, TakeExact DEF Lookup, Called, stored
<1>4. CASE /\ Goto(r, "insert")
           /\ Take(r, r, [of |-> r, via |-> "upload", sum |-> ask[r].sum], NoPath)
  BY <1>1, <1>4, TakeExact DEF Lookup, stored
<1> QED
  BY <1>2, <1>3, <1>4 DEF Lookup

LEMMA FindExact ==
  ASSUME IInv, ExactInv, NEW r \in Requests, Find(r)
  PROVE  ExactInv'
<1>1. r \in Ids /\ r \notin DOMAIN rows /\ DOMAIN rows \subseteq Ids
  BY DEF ExactInv, NamesAreNew, IInv, TypeOK, Find, Ids
<1>2. CASE Answer(r, "not_found") /\ UNCHANGED <<mine, contended>>
  BY <1>2, LeaveExact DEF Find, Answer, stored
<1>3. ASSUME NEW a \in Called(ask[r].key), Goto(r, "check"), Take(r, a, NoPath, rows[a].path)
      PROVE  ExactInv'
  BY <1>1, <1>3, TakeExact DEF Find, Called, stored
<1> QED
  BY <1>2, <1>3 DEF Find

LEMMA InitExact == Init => ExactInv
<1> SUFFICES ASSUME Init PROVE ExactInv
  OBVIOUS
<1>1. NamesAreNew /\ WorkIsExact
  BY InputsAreTyped DEF Init, NamesAreNew, WorkIsExact, Active, Uploading, Deleting
<1>2. QuietAssetsAreExact
  <2>1. ASSUME NEW a \in Ids PROVE Objects(a) = IF a \in DOMAIN rows THEN {rows[a].path} ELSE {}
    BY InputsAreTyped DEF Init, Objects
  <2> QED
    BY <2>1 DEF QuietAssetsAreExact
<1> QED
  BY <1>1, <1>2 DEF ExactInv

LEMMA NextExact == IInv /\ ExactInv /\ [Next]_vars => ExactInv'
<1>1. ASSUME IInv, ExactInv, UNCHANGED <<rows, objects, pc, mine, contended, troubled>>
      PROVE  ExactInv'
  BY <1>1 DEF ExactInv, NamesAreNew, WorkIsExact, QuietAssetsAreExact, ExactWork, Objects,
     Creates, Fresh, Active
<1>2. ASSUME IInv, ExactInv, NEW r \in Requests, Upload(r) PROVE ExactInv'
  BY <1>2, LookupExact, InsertExact, PutExact, PutFailsExact, MarkFailedExact, UpdateExact,
     UpdateFailsExact, UndoExact, CleanUpExact
  DEF Upload
<1>3. ASSUME IInv, ExactInv, NEW r \in Requests, Delete(r) PROVE ExactInv'
  BY <1>3, FindExact, CheckExact, DropExact, EraseExact DEF Delete
<1>4. ASSUME IInv, ExactInv, NEW a \in Ids, UsePath(a) PROVE ExactInv'
  BY <1>1, <1>4 DEF UsePath, stored, history
<1>5. ASSUME IInv, ExactInv, UNCHANGED vars PROVE ExactInv'
  BY <1>1, <1>5 DEF vars, stored, history
<1> QED
  BY <1>2, <1>3, <1>4, <1>5, StopsExact DEF Next

(* Where requests come one after another and no call fails, uploading,      *)
(* overwriting and deleting leave exactly the object of each row.           *)
THEOREM QuietAssetsAreExactAlways == Spec => []QuietAssetsAreExact
<1>1. ExactInv => QuietAssetsAreExact
  BY DEF ExactInv
<1> QED
  BY <1>1, InitExact, NextExact, Invariance, PTL DEF Spec
=============================================================================
