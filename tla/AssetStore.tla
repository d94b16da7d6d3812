------------------------------ MODULE AssetStore ------------------------------
(***************************************************************************)
(* A Brain's files: a row of the assets table for each, and an object of   *)
(* the storage service for its content.  uploadAsset and deleteAsset of    *)
(* httpapi/handlers_assets.go write both, in separate calls that no        *)
(* transaction joins; either may fail, or fail after it took effect.       *)
(*                                                                         *)
(* A path of the storage service names an asset and a checksum, so that    *)
(* what is stored under it can only be one content.                        *)
(***************************************************************************)
EXTENDS Naturals, FiniteSets, Functions

CONSTANTS
  Keys,         (* object keys of the Brain                                *)
  Sums,         (* the contents that are uploaded, by their checksum       *)
  Malformed,    (* those that Classify finds malformed                     *)
  Requests,     (* the requests of the run; each is handled once           *)
  Asks,         (* what a request may ask for                              *)
  OldAssets,    (* the assets that are there when the model starts         *)
  Accepted,     (* those of them that came from an accepted transfer       *)
  InitialRows,  (* the rows that there may be                              *)
  NoPath,       (* no storage path                                         *)
  NoAsset       (* no asset                                                *)

VARIABLES
  rows,         (* the rows of assets, by id                               *)
  objects,      (* the paths under which the storage service has an object *)
  inUse,        (* the assets that enabled query paths refer to            *)
  ask,          (* what each request asks for                              *)
  pc,           (* the next call of each request                           *)
  mine,         (* what each request has read or chosen                    *)
  answer,       (* what each client was answered                           *)
  contended,    (* history: assets on which two requests overlapped        *)
  troubled,     (* history: assets on which a call failed                  *)
  undone        (* history: paths whose row an upload failed to update     *)

stored  == <<rows, objects>>
history == <<contended, troubled, undone>>
vars    == <<rows, objects, inUse, ask, pc, mine, answer, contended, troubled, undone>>

(* The asset that a request creates is named for the request.               *)
Ids   == OldAssets \cup Requests
Path  == [of: Ids, via: {"upload", "transfer"}, sum: Sums]
Row   == [key: Keys, path: Path,
          state: {"uploading", "ready", "parse_failed", "upload_failed"}]

Ask == [op: {"upload"}, key: Keys, sum: Sums, overwrite: BOOLEAN]
         \cup [op: {"delete"}, key: Keys]

Uploading == {"insert", "put", "mark", "update", "undo", "cleanup"}
Deleting  == {"check", "drop", "erase"}
Active(r) == pc[r] \in Uploading \cup Deleting

Available(row) == row.state \in {"ready", "parse_failed"}

ASSUME InputsAreTyped ==
  /\ OldAssets \cap Requests = {} /\ Accepted \subseteq OldAssets
  /\ NoAsset \notin Ids /\ NoPath \notin Path
  /\ Malformed \subseteq Sums /\ Asks \subseteq Ask
  /\ \A known \in InitialRows :
       /\ DOMAIN known \subseteq OldAssets
       /\ \A a \in DOMAIN known :
            /\ known[a] \in Row /\ Available(known[a]) /\ known[a].path.of = a
            /\ known[a].path.via = IF a \in Accepted THEN "transfer" ELSE "upload"
            /\ \A b \in DOMAIN known : known[a].key = known[b].key => a = b

Nothing == [id |-> NoAsset, path |-> NoPath, old |-> NoPath]

Init ==
  /\ rows \in InitialRows
  /\ objects = {rows[a].path : a \in DOMAIN rows}
  /\ inUse = {}
  /\ ask \in [Requests -> Asks]
  /\ pc = [r \in Requests |-> "start"]
  /\ mine = [r \in Requests |-> Nothing]
  /\ answer = [r \in Requests |-> "none"]
  /\ contended = {} /\ troubled = {} /\ undone = {}

-----------------------------------------------------------------------------
Goto(r, step) == pc' = [pc EXCEPT ![r] = step]

Answer(r, a) ==
  /\ Goto(r, "done")
  /\ answer' = [answer EXCEPT ![r] = a]

Fresh(r)  == mine[r].id = r
Upsert(r) == ~Fresh(r) /\ mine[r].old = mine[r].path

Take(r, a, path, old) ==
  /\ mine' = [mine EXCEPT ![r] = [id |-> a, path |-> path, old |-> old]]
  /\ contended' = IF \E q \in Requests : Active(q) /\ mine[q].id = a
                    THEN contended \cup {a} ELSE contended

Called(key) == {a \in DOMAIN rows : rows[a].key = key}

(* A call on the request's asset fails.                                     *)
Trouble(r) == troubled' = troubled \cup {mine[r].id}

-----------------------------------------------------------------------------
(* uploadAsset: what has the key, and so which path the content goes to.    *)
Lookup(r) ==
  /\ pc[r] = "start" /\ ask[r].op = "upload"
  /\ \/ /\ Called(ask[r].key) # {} /\ ~ask[r].overwrite
        /\ Answer(r, "name_exists")
        /\ UNCHANGED <<mine, contended>>
     \/ /\ ask[r].overwrite
        /\ \E a \in Called(ask[r].key) :
             Take(r, a, [of |-> a, via |-> "upload", sum |-> ask[r].sum], rows[a].path)
        /\ Goto(r, "put")
        /\ UNCHANGED answer
     \/ /\ Called(ask[r].key) = {}
        /\ Take(r, r, [of |-> r, via |-> "upload", sum |-> ask[r].sum], NoPath)
        /\ Goto(r, "insert")
        /\ UNCHANGED answer
  /\ UNCHANGED <<stored, inUse, ask, troubled, undone>>

(* Seeded fault: the lookup alone keeps keys apart.                         *)
InsertAnyKey(r) ==
  /\ pc[r] = "insert"
  /\ rows' = [a \in DOMAIN rows \cup {r} |->
                IF a # r THEN rows[a]
                ELSE [key |-> ask[r].key, path |-> mine[r].path, state |-> "uploading"]]
  /\ Goto(r, "put")
  /\ UNCHANGED <<objects, inUse, ask, mine, answer, history>>

(* InsertAsset; the key is unique in the Brain.                             *)
Insert(r) ==
  /\ pc[r] = "insert"
  /\ IF Called(ask[r].key) # {}
       THEN /\ Answer(r, "name_exists")
            /\ UNCHANGED rows
       ELSE /\ rows' = [a \in DOMAIN rows \cup {r} |->
                          IF a # r THEN rows[a]
                          ELSE [key |-> ask[r].key, path |-> mine[r].path,
                                state |-> "uploading"]]
            /\ Goto(r, "put")
            /\ UNCHANGED answer
  /\ UNCHANGED <<objects, inUse, ask, mine, history>>

(* Seeded fault: the old content makes room before the row is updated.      *)
PutInPlace(r) ==
  /\ pc[r] = "put"
  /\ IF mine[r].path \notin objects \/ Upsert(r)
       THEN /\ objects' = (objects \ {mine[r].old}) \cup {mine[r].path}
            /\ Goto(r, "update")
            /\ UNCHANGED answer
       ELSE /\ Answer(r, "object_exists")
            /\ UNCHANGED objects
  /\ UNCHANGED <<rows, inUse, ask, mine, history>>

(* What is already stored is replaced only with x-upsert.                   *)
Put(r) ==
  /\ pc[r] = "put"
  /\ IF mine[r].path \notin objects \/ Upsert(r)
       THEN /\ objects' = objects \cup {mine[r].path}
            /\ Goto(r, "update")
            /\ UNCHANGED answer
       ELSE /\ Answer(r, "object_exists")
            /\ UNCHANGED objects
  /\ UNCHANGED <<rows, inUse, ask, mine, history>>

(* The storage service fails, perhaps after it stored the object.           *)
PutFails(r) ==
  /\ pc[r] = "put"
  /\ objects' \in {objects, objects \cup {mine[r].path}}
  /\ Trouble(r)
  /\ IF Fresh(r)
       THEN Goto(r, "mark") /\ UNCHANGED answer
       ELSE Answer(r, "storage_error")
  /\ UNCHANGED <<rows, inUse, ask, mine, contended, undone>>

Write(r, state) ==
  rows' = [a \in DOMAIN rows |->
             IF a # mine[r].id THEN rows[a]
             ELSE [rows[a] EXCEPT !.path = mine[r].path, !.state = state]]

(* The row of a new asset is left upload_failed; an error is ignored.       *)
MarkFailed(r) ==
  /\ pc[r] = "mark"
  /\ Write(r, "upload_failed") \/ UNCHANGED rows
  /\ Answer(r, "storage_error")
  /\ UNCHANGED <<objects, inUse, ask, mine, history>>

Classified(r) == IF ask[r].sum \in Malformed THEN "parse_failed" ELSE "ready"

(* Seeded fault: the old path is removed though it is the new one.          *)
UpdateAndAlwaysClean(r) ==
  /\ pc[r] = "update"
  /\ IF mine[r].id \notin DOMAIN rows
       THEN /\ Goto(r, "undo")
            /\ undone' = undone \cup {mine[r].path}
            /\ UNCHANGED <<rows, answer>>
       ELSE /\ Write(r, Classified(r))
            /\ IF Fresh(r) THEN Answer(r, "ok") ELSE Goto(r, "cleanup") /\ UNCHANGED answer
            /\ UNCHANGED undone
  /\ UNCHANGED <<objects, inUse, ask, mine, contended, troubled>>

Update(r) ==
  /\ pc[r] = "update"
  /\ IF mine[r].id \notin DOMAIN rows
       THEN /\ Goto(r, "undo")
            /\ undone' = undone \cup {mine[r].path}
            /\ UNCHANGED <<rows, answer>>
       ELSE /\ Write(r, Classified(r))
            /\ IF Fresh(r) \/ Upsert(r)
                 THEN Answer(r, "ok")
                 ELSE Goto(r, "cleanup") /\ UNCHANGED answer
            /\ UNCHANGED undone
  /\ UNCHANGED <<objects, inUse, ask, mine, contended, troubled>>

(* The database fails, perhaps after it committed the update.               *)
UpdateFails(r) ==
  /\ pc[r] = "update"
  /\ Write(r, Classified(r)) \/ UNCHANGED rows
  /\ Goto(r, "undo")
  /\ undone' = undone \cup {mine[r].path}
  /\ Trouble(r)
  /\ UNCHANGED <<objects, inUse, ask, mine, answer, contended>>

(* objects.Delete, whose error is ignored.                                  *)
Remove(r, path) ==
  \/ objects' = objects \ {path} /\ UNCHANGED troubled
  \/ UNCHANGED objects /\ Trouble(r)

Undo(r) ==
  /\ pc[r] = "undo"
  /\ Remove(r, mine[r].path)
  /\ Answer(r, "failed")
  /\ UNCHANGED <<rows, inUse, ask, mine, contended, undone>>

(* The object that the row referred to when it was looked up.               *)
CleanUp(r) ==
  /\ pc[r] = "cleanup"
  /\ Remove(r, mine[r].old)
  /\ Answer(r, "ok")
  /\ UNCHANGED <<rows, inUse, ask, mine, contended, undone>>

-----------------------------------------------------------------------------
(* deleteAsset, by the id that its client knows the asset of the key by.    *)
Find(r) ==
  /\ pc[r] = "start" /\ ask[r].op = "delete"
  /\ \/ /\ Called(ask[r].key) = {}
        /\ Answer(r, "not_found")
        /\ UNCHANGED <<mine, contended>>
     \/ \E a \in Called(ask[r].key) :
          /\ Take(r, a, NoPath, rows[a].path)
          /\ Goto(r, "check")
          /\ UNCHANGED answer
  /\ UNCHANGED <<stored, inUse, ask, troubled, undone>>

(* AssetReferencedByEnabledPath.                                            *)
Check(r) ==
  /\ pc[r] = "check"
  /\ IF mine[r].id \in inUse
       THEN Answer(r, "refused")
       ELSE Goto(r, "drop") /\ UNCHANGED answer
  /\ UNCHANGED <<stored, inUse, ask, mine, history>>

(* Seeded fault: no trigger asks the enabled paths again.                   *)
DropUnasked(r) ==
  /\ pc[r] = "drop"
  /\ IF mine[r].id \in DOMAIN rows \cap Accepted
       THEN /\ Answer(r, "refused")
            /\ UNCHANGED rows
       ELSE /\ rows' = Restrict(rows, DOMAIN rows \ {mine[r].id})
            /\ Goto(r, "erase")
            /\ UNCHANGED answer
  /\ UNCHANGED <<objects, inUse, ask, mine, history>>

(* DeleteAsset.  The trigger asks the enabled paths again; the transfer     *)
(* that the asset was accepted from would lose its accepted_asset_id, which *)
(* transfers_resolution_shape forbids; a row that is gone is no error.      *)
Drop(r) ==
  /\ pc[r] = "drop"
  /\ IF mine[r].id \in DOMAIN rows /\ mine[r].id \in inUse \cup Accepted
       THEN /\ Answer(r, "refused")
            /\ UNCHANGED rows
       ELSE /\ rows' = Restrict(rows, DOMAIN rows \ {mine[r].id})
            /\ Goto(r, "erase")
            /\ UNCHANGED answer
  /\ UNCHANGED <<objects, inUse, ask, mine, history>>

Erase(r) ==
  /\ pc[r] = "erase"
  /\ Remove(r, mine[r].old)
  /\ Answer(r, "ok")
  /\ UNCHANGED <<rows, inUse, ask, mine, contended, undone>>

-----------------------------------------------------------------------------
(* A read of the database fails, or the server stops between two calls.     *)
Stops(r) ==
  /\ Active(r)
  /\ Trouble(r)
  /\ Answer(r, "failed")
  /\ UNCHANGED <<stored, inUse, ask, mine, contended, undone>>

(* Paths that refer to the asset are enabled and disabled.                  *)
UsePath(a) ==
  /\ a \in DOMAIN rows
  /\ inUse' = IF a \in inUse THEN inUse \ {a} ELSE inUse \cup {a}
  /\ UNCHANGED <<stored, ask, pc, mine, answer, history>>

Upload(r) ==
  \/ Lookup(r) \/ Insert(r) \/ Put(r) \/ PutFails(r) \/ MarkFailed(r)
  \/ Update(r) \/ UpdateFails(r) \/ Undo(r) \/ CleanUp(r)

Delete(r) == Find(r) \/ Check(r) \/ Drop(r) \/ Erase(r)

Next ==
  \/ \E r \in Requests : Upload(r) \/ Delete(r) \/ Stops(r)
  \/ \E a \in Ids : UsePath(a)

Spec == Init /\ [][Next]_vars

-----------------------------------------------------------------------------
TypeOK ==
  /\ DOMAIN rows \subseteq Ids
  /\ \A a \in DOMAIN rows : rows[a] \in Row /\ rows[a].path.of = a
  /\ objects \subseteq Path
  /\ inUse \subseteq DOMAIN rows
  /\ ask \in [Requests -> Asks]
  /\ pc \in [Requests -> {"start", "done"} \cup Uploading \cup Deleting]
  /\ mine \in [Requests -> [id: Ids \cup {NoAsset}, path: Path \cup {NoPath},
                            old: Path \cup {NoPath}]]
  /\ answer \in [Requests -> {"none", "ok", "failed", "name_exists", "object_exists",
                              "storage_error", "refused", "not_found"}]
  /\ contended \cup troubled \subseteq Ids
  /\ undone \subseteq Path

(* A key names one asset, though uploads look it up before they insert.     *)
OneAssetPerKey ==
  \A a, b \in DOMAIN rows : rows[a].key = rows[b].key => a = b

Objects(a) == {p \in objects : p.of = a}

(* Where requests came one after another and no call failed, the storage    *)
(* service has the object of each row, and nothing else: overwriting and    *)
(* deleting leave nothing behind, and take away nothing that is referred to.*)
QuietAssetsAreExact ==
  \A a \in Ids :
    \/ a \in contended \cup troubled \/ \E r \in Requests : Active(r) /\ mine[r].id = a
    \/ Objects(a) = IF a \in DOMAIN rows THEN {rows[a].path} ELSE {}

(* Failures alone, a crash at any step included, lose no content but that   *)
(* of an upload whose own row could not be updated.                         *)
OnlyAFailedUpdateLoses ==
  \A a \in DOMAIN rows \ contended :
    Available(rows[a]) => rows[a].path \in objects \cup undone

(***************************************************************************)
(* Why the invariants hold: what each step of a request relies on.         *)
(***************************************************************************)

(* What a request has in hand is of the asset it works on.                  *)
HandsOwnAsset ==
  \A r \in Requests : Active(r) =>
    /\ mine[r].id \in Ids
    /\ pc[r] \in Uploading =>
         /\ ask[r].op = "upload"
         /\ mine[r].path = [of |-> mine[r].id, via |-> "upload", sum |-> ask[r].sum]
    /\ pc[r] = "insert" => mine[r].id = r
    /\ pc[r] \in Deleting \cup {"cleanup"} \/ ~Fresh(r) => mine[r].old.of = mine[r].id

(* Two requests never work on one asset unnoticed.                          *)
OverlapsAreMarked ==
  \A r, q \in Requests :
    Active(r) /\ Active(q) /\ mine[r].id = mine[q].id => r = q \/ mine[r].id \in contended

(* A request that nobody interferes with updates its row to what it stored, *)
(* removes only what the row no longer refers to, and after the row is gone.*)
StepsRelyOnTheLast ==
  \A r \in Requests :
    /\ pc[r] = "undo" => mine[r].path \in undone
    /\ Active(r) /\ mine[r].id \notin contended =>
         /\ pc[r] = "update" => mine[r].path \in objects
         /\ pc[r] = "cleanup" /\ mine[r].id \in DOMAIN rows =>
              rows[mine[r].id].path # mine[r].old
         /\ pc[r] = "erase" => mine[r].id \notin DOMAIN rows

(* The inductive invariant.                                                 *)
IInv ==
  /\ TypeOK /\ OneAssetPerKey /\ OnlyAFailedUpdateLoses
  /\ HandsOwnAsset /\ OverlapsAreMarked /\ StepsRelyOnTheLast

(* A request creates an asset that was never there, unknown to any other.   *)
NamesAreNew ==
  \A r \in Requests : pc[r] \in {"start", "insert"} =>
    /\ r \notin DOMAIN rows
    /\ \A q \in Requests \ {r} : Active(q) => mine[q].id # r

Creates(r) == pc[r] \in Uploading /\ Fresh(r)

(* What the row and the storage service have of the asset that a request    *)
(* works on, if it alone does and no call failed.                           *)
ExactWork(r) ==
  /\ pc[r] \notin {"mark", "undo"}
  /\ mine[r].id \in DOMAIN rows <=> pc[r] \notin {"insert", "erase"}
  /\ mine[r].id \in DOMAIN rows =>
       rows[mine[r].id].path =
         IF pc[r] = "cleanup" \/ Creates(r) THEN mine[r].path ELSE mine[r].old
  /\ pc[r] = "cleanup" => mine[r].old # mine[r].path
  /\ Objects(mine[r].id) = (IF pc[r] \in {"update", "cleanup"} THEN {mine[r].path} ELSE {})
                             \cup (IF Creates(r) THEN {} ELSE {mine[r].old})

WorkIsExact ==
  \A r \in Requests :
    Active(r) /\ mine[r].id \notin contended \cup troubled => ExactWork(r)

(* The invariant that makes QuietAssetsAreExact inductive beside IInv.      *)
ExactInv == NamesAreNew /\ WorkIsExact /\ QuietAssetsAreExact

(* README.md has "explicit processing states to make failures recoverable": *)
(* then an asset that is ready or parse_failed can be read.                 *)
AvailableMeansStored ==
  \A a \in DOMAIN rows : Available(rows[a]) => rows[a].path \in objects
=============================================================================
