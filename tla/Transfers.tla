----------------------------- MODULE Transfers -----------------------------
(***************************************************************************)
(* Accepting and rejecting transfers: the handlers of                      *)
(* httpapi/handlers_transfers.go over the statements of store/transfers.go *)
(* and the object storage they share with the upload handlers.             *)
(*                                                                         *)
(* A transfer is a database row and a payload in object storage.  Clients  *)
(* retry accept and reject requests under idempotency keys; requests run   *)
(* concurrently, one database statement or storage call per step, any of   *)
(* which may fail; a commit may fail after it took effect; and the server  *)
(* may stop between any two steps.  All transfers here go to one           *)
(* destination Brain and all requests come from its owner: other users'    *)
(* requests end at visibleTransfer, like a failed statement does.          *)
(***************************************************************************)
CONSTANTS
  Transfers,    (* transfers stored, pending, when the model starts        *)
  ObjectKeys,   (* object keys in the destination Brain                    *)
  Requests,     (* the HTTP requests of the run; each is handled once      *)
  IdemKeys,     (* values of the Idempotency-Key header                    *)
  NoRequest,    (* nobody holds the lock, or the index entry               *)
  NoKey,        (* no object key                                           *)
  Free,         (* no asset row has the object key                         *)
  Uploaded      (* the row's storage path is an upload's                   *)

ASSUME SentinelsAreDistinct ==
  /\ NoRequest \notin Requests
  /\ NoKey \notin ObjectKeys
  /\ Free \notin Transfers /\ Uploaded \notin Transfers /\ Free # Uploaded

VARIABLES
  req,          (* what each request asks for                              *)
  pc,           (* the next step of each request                           *)
  answer,       (* what each client was answered                           *)
  idem,         (* idempotency_records, by user, scope and key             *)
  status,       (* transfers.status                                        *)
  acceptedAs,   (* transfers.accepted_asset_id, named by its object key    *)
  due,          (* the transfers whose expires_at has passed               *)
  brain,        (* whether the destination Brain is there                  *)
  assets,       (* assets: the storage path of the row with an object key  *)
  lock,         (* the transaction that holds a transfer's row lock        *)
  claim,        (* the transaction with an uncommitted row for the key     *)
  source,       (* the transfers whose payload is stored                   *)
  dest,         (* the transfers whose accepted copy is stored             *)
  audited       (* the transfers with a resolution in audit_events         *)

rows == <<status, acceptedAs, brain, assets>>
vars == <<req, pc, answer, idem, rows, due, lock, claim, source, dest, audited>>

Request ==
  [op: {"accept"}, transfer: Transfers, objectKey: ObjectKeys, idemKey: IdemKeys]
    \cup
  [op: {"reject"}, transfer: Transfers, objectKey: {NoKey}, idemKey: IdemKeys]

Scopes == [op: {"accept", "reject"}, transfer: Transfers, idemKey: IdemKeys]

Decisions == {"accepted", "rejected"}
Refusals  == {"failed", "key_reused", "in_progress", "already_resolved",
              "expired", "name_exists", "not_authorized"}

(* The steps of a request; InTx are those of the InTx callback once the row *)
(* lock is held, Owning those of a request whose record is its own.         *)
InTx   == {"collision", "fetch", "store", "insert", "commit"}
After  == {"cleanup", "complete", "audit"}
Owning == {"visible", "lock"} \cup InTx \cup After
Ended  == {"answered", "crashed"}
Steps  == {"start", "lookup"} \cup Owning \cup Ended

Target(r) == req[r].transfer
Key(r)    == req[r].objectKey
Scope(r)  == [op |-> req[r].op, transfer |-> Target(r), idemKey |-> req[r].idemKey]

(* Seeded fault: the row is given the operation's name for its status.      *)
OperationForDecision(op) == op

DecisionOf(op) == IF op = "accept" THEN "accepted" ELSE "rejected"
Decision(r)    == DecisionOf(req[r].op)

Absent     == [hash |-> NoKey, response |-> "absent"]
OpenRecord(r) == [hash |-> Key(r), response |-> "open"]

Init ==
  /\ req \in [Requests -> Request]
  /\ pc = [r \in Requests |-> "start"]
  /\ answer = [r \in Requests |-> "none"]
  /\ idem = [s \in Scopes |-> Absent]
  /\ status = [t \in Transfers |-> "pending"]
  /\ acceptedAs = [t \in Transfers |-> NoKey]
  /\ due = {}
  /\ brain = TRUE
  /\ assets = [k \in ObjectKeys |-> Free]
  /\ lock = [t \in Transfers |-> NoRequest]
  /\ claim = [k \in ObjectKeys |-> NoRequest]
  /\ source = Transfers
  /\ dest = {}
  /\ audited = {}

-----------------------------------------------------------------------------
Goto(r, step) == pc' = [pc EXCEPT ![r] = step]

Answer(r, a) ==
  /\ Goto(r, "answered")
  /\ answer' = [answer EXCEPT ![r] = a]

(* Seeded fault: a transaction that is neither committed nor rolled back.   *)
TxLeaks(r) == UNCHANGED <<lock, claim>>

(* The transaction ends: its row lock and its uncommitted index entry go.  *)
EndTx(r) ==
  /\ lock' = [lock EXCEPT ![Target(r)] = NoRequest]
  /\ claim' = [k \in ObjectKeys |-> IF claim[k] = r THEN NoRequest ELSE claim[k]]

(* Seeded fault: the handler goes on after InTx returned an error.          *)
TxErrorIgnored(r, a) ==
  /\ EndTx(r)
  /\ Goto(r, "cleanup")
  /\ UNCHANGED <<req, answer, idem, rows, due, source, audited>>

(* InTx returns the callback's error after the deferred Rollback.          *)
Rollback(r, a) ==
  /\ EndTx(r)
  /\ Answer(r, a)
  /\ UNCHANGED <<req, idem, rows, due, source, audited>>

-----------------------------------------------------------------------------
(* Seeded fault: on conflict do update, whether or not the record expired.  *)
TakeoverOfLiveRecord(r) ==
  /\ pc[r] = "start"
  /\ idem' = [idem EXCEPT ![Scope(r)] = OpenRecord(r)]
  /\ Goto(r, "visible")
  /\ UNCHANGED <<req, answer, rows, due, lock, claim, source, dest, audited>>

(* startIdempotency: the insert takes a free slot and fails on a live one.  *)
CreateIdempotencyRecord(r) ==
  /\ pc[r] = "start"
  /\ \/ /\ idem[Scope(r)] = Absent
        /\ idem' = [idem EXCEPT ![Scope(r)] = OpenRecord(r)]
        /\ Goto(r, "visible")
     \/ /\ idem[Scope(r)] # Absent
        /\ Goto(r, "lookup")
        /\ UNCHANGED idem
  /\ UNCHANGED <<req, answer, rows, due, lock, claim, source, dest, audited>>

(* The insert's error reaches the handler, whether or not a row was left.   *)
CreateFails(r) ==
  /\ pc[r] = "start"
  /\ \/ UNCHANGED idem
     \/ /\ idem[Scope(r)] = Absent
        /\ idem' = [idem EXCEPT ![Scope(r)] = OpenRecord(r)]
  /\ Answer(r, "failed")
  /\ UNCHANGED <<req, rows, due, lock, claim, source, dest, audited>>

(* Seeded fault: the record is replayed without comparing request hashes.   *)
ReplayWithoutHash(r) ==
  /\ pc[r] = "lookup"
  /\ idem[Scope(r)] # Absent
  /\ Answer(r, IF idem[Scope(r)].response = "open" THEN "in_progress"
                                                  ELSE idem[Scope(r)].response)
  /\ UNCHANGED <<req, idem, rows, due, lock, claim, source, dest, audited>>

(* startIdempotency, the slot is taken: another body, still open, or done.  *)
GetIdempotencyRecord(r) ==
  /\ pc[r] = "lookup"
  /\ LET record == idem[Scope(r)] IN
       \/ record = Absent /\ Answer(r, "failed")
       \/ record # Absent /\ record.hash # Key(r) /\ Answer(r, "key_reused")
       \/ /\ record # Absent /\ record.hash = Key(r)
          /\ Answer(r, IF record.response = "open" THEN "in_progress"
                                                   ELSE record.response)
  /\ UNCHANGED <<req, idem, rows, due, lock, claim, source, dest, audited>>

(* visibleTransfer and, for an accept, the checks made before the           *)
(* transaction; the row read here may change before it is locked.           *)
VisibleTransfer(r) ==
  /\ pc[r] = "visible"
  /\ \/ ~brain /\ Answer(r, "not_authorized")
     \/ /\ brain /\ req[r].op = "accept"
        /\ status[Target(r)] # "pending"
        /\ Answer(r, "already_resolved")
     \/ /\ brain /\ req[r].op = "accept"
        /\ status[Target(r)] = "pending" /\ Target(r) \in due
        /\ Answer(r, "expired")
     \/ /\ brain
        /\ req[r].op = "accept" =>
             status[Target(r)] = "pending" /\ Target(r) \notin due
        /\ Goto(r, "lock")
        /\ UNCHANGED answer
  /\ UNCHANGED <<req, idem, rows, due, lock, claim, source, dest, audited>>

(* LockTransfer (select ... for update) and the rechecks under the lock.  A *)
(* refusal rolls back, the MarkTransferExpired of an overdue row with it.   *)
LockTransfer(r) ==
  /\ pc[r] = "lock"
  /\ lock[Target(r)] = NoRequest
  /\ \/ /\ status[Target(r)] # "pending"
        /\ Answer(r, "already_resolved")
        /\ UNCHANGED lock
     \/ /\ status[Target(r)] = "pending"
        /\ req[r].op = "accept" /\ Target(r) \in due
        /\ Answer(r, "expired")
        /\ UNCHANGED lock
     \/ /\ status[Target(r)] = "pending"
        /\ req[r].op = "accept" => Target(r) \notin due
        /\ lock' = [lock EXCEPT ![Target(r)] = r]
        /\ Goto(r, IF req[r].op = "accept" THEN "collision" ELSE "commit")
        /\ UNCHANGED answer
  /\ UNCHANGED <<req, idem, rows, due, claim, source, dest, audited>>

(* A statement before the row lock is held fails.                          *)
StatementFails(r) ==
  /\ pc[r] \in {"lookup", "visible", "lock"}
  /\ Answer(r, "failed")
  /\ UNCHANGED <<req, idem, rows, due, lock, claim, source, dest, audited>>

(* GetAssetByObjectKey sees committed rows only.  Of a Brain that has been  *)
(* deleted the locked row has no id: dereferencing it panics, which ends    *)
(* the transaction in InTx's deferred Rollback and the request in the       *)
(* middleware.                                                              *)
CheckObjectKey(r) ==
  /\ pc[r] = "collision"
  /\ \/ ~brain /\ Rollback(r, "failed")
     \/ /\ brain /\ assets[Key(r)] # Free
        /\ Rollback(r, "name_exists")
     \/ /\ brain /\ assets[Key(r)] = Free
        /\ Goto(r, "fetch")
        /\ UNCHANGED <<req, answer, idem, rows, due, lock, claim, source, audited>>
  /\ UNCHANGED dest

(* Seeded fault: the payload is moved, not copied, before the commit.       *)
MovePayload(r) ==
  /\ pc[r] = "fetch"
  /\ Target(r) \in source
  /\ source' = source \ {Target(r)}
  /\ Goto(r, "store")
  /\ UNCHANGED <<req, answer, idem, rows, due, lock, claim, dest, audited>>

(* objects.Get reads the payload and its checksum is verified.             *)
FetchPayload(r) ==
  /\ pc[r] = "fetch"
  /\ Target(r) \in source
  /\ Goto(r, "store")
  /\ UNCHANGED <<req, answer, idem, rows, due, lock, claim, source, dest, audited>>

(* objects.Put, upserting: the path is a function of transfer and checksum. *)
PutPayload(r) ==
  /\ pc[r] = "store"
  /\ dest' = dest \cup {Target(r)}
  /\ Goto(r, "insert")
  /\ UNCHANGED <<req, answer, idem, rows, due, lock, claim, source, audited>>

(* Seeded fault: the asset is inserted by a.store instead of tx.            *)
InsertOutsideTx(r) ==
  /\ pc[r] = "insert"
  /\ claim[Key(r)] = NoRequest /\ assets[Key(r)] = Free
  /\ claim' = [claim EXCEPT ![Key(r)] = r]
  /\ assets' = [assets EXCEPT ![Key(r)] = Target(r)]
  /\ Goto(r, "commit")
  /\ UNCHANGED <<req, answer, idem, status, acceptedAs, brain, due, lock, source, dest, audited>>

(* Seeded fault: the unique constraint on (brain_id, object_key) is missing. *)
InsertWithoutUnique(r) ==
  /\ pc[r] = "insert"
  /\ claim' = [claim EXCEPT ![Key(r)] = r]
  /\ Goto(r, "commit")
  /\ UNCHANGED <<req, answer, idem, rows, due, lock, source, dest, audited>>

(* InsertAsset waits for a transaction that has inserted the same key, and  *)
(* then either breaks the unique constraint or holds the key uncommitted.   *)
InsertAsset(r) ==
  /\ pc[r] = "insert"
  /\ claim[Key(r)] = NoRequest
  /\ \/ /\ assets[Key(r)] # Free
        /\ Rollback(r, "failed")
     \/ /\ assets[Key(r)] = Free
        /\ claim' = [claim EXCEPT ![Key(r)] = r]
        /\ Goto(r, "commit")
        /\ UNCHANGED <<req, answer, idem, rows, due, lock, source, audited>>
  /\ UNCHANGED dest

(* What the transaction writes: MarkTransferAccepted with the inserted      *)
(* asset, or MarkTransferRejected.                                          *)
MarkTransfer(r) ==
  /\ status[Target(r)] = "pending"
  /\ status' = [status EXCEPT ![Target(r)] = Decision(r)]
  /\ UNCHANGED brain
  /\ IF req[r].op = "accept"
       THEN /\ acceptedAs' = [acceptedAs EXCEPT ![Target(r)] = Key(r)]
            /\ assets' = [assets EXCEPT ![Key(r)] = Target(r)]
       ELSE UNCHANGED <<acceptedAs, assets>>

(* tx.Commit takes effect; its outcome may still reach InTx as an error.    *)
Commit(r) ==
  /\ pc[r] = "commit"
  /\ MarkTransfer(r)
  /\ EndTx(r)
  /\ \/ Goto(r, "cleanup") /\ UNCHANGED answer
     \/ Answer(r, "failed")
  /\ UNCHANGED <<req, idem, due, source, dest, audited>>

(* A statement, a storage call or the commit fails and the transaction is  *)
(* rolled back; a failed Put may have stored the copy all the same.         *)
TxFails(r) ==
  /\ pc[r] \in InTx
  /\ Rollback(r, "failed")
  /\ \/ UNCHANGED dest
     \/ pc[r] = "store" /\ dest' = dest \cup {Target(r)}

(* After the commit: the handler ignores every error from here on.         *)
DeleteSource(r) ==
  /\ pc[r] = "cleanup"
  /\ source' \in {source, source \ {Target(r)}}
  /\ Goto(r, "complete")
  /\ UNCHANGED <<req, answer, idem, rows, due, lock, claim, dest, audited>>

CompleteIdempotencyRecord(r) ==
  /\ pc[r] = "complete"
  /\ \/ /\ idem[Scope(r)].response = "open"
        /\ idem' = [idem EXCEPT ![Scope(r)].response = Decision(r)]
     \/ UNCHANGED idem
  /\ Goto(r, "audit")
  /\ UNCHANGED <<req, answer, rows, due, lock, claim, source, dest, audited>>

(* audit, and then the answer.                                              *)
Audit(r) ==
  /\ pc[r] = "audit"
  /\ audited' \in {audited, audited \cup {Target(r)}}
  /\ Answer(r, Decision(r))
  /\ UNCHANGED <<req, idem, rows, due, lock, claim, source, dest>>

-----------------------------------------------------------------------------
(* The server stops: its requests are lost, its transactions rolled back.  *)
Crash ==
  /\ \E r \in Requests : pc[r] \notin {"start"} \cup Ended
  /\ pc' = [r \in Requests |-> IF pc[r] \in {"start"} \cup Ended THEN pc[r] ELSE "crashed"]
  /\ lock' = [t \in Transfers |-> NoRequest]
  /\ claim' = [k \in ObjectKeys |-> NoRequest]
  /\ UNCHANGED <<req, answer, idem, rows, due, source, dest, audited>>

(* expires_at passes for a transfer.                                        *)
Elapse(t) ==
  /\ t \notin due
  /\ due' = due \cup {t}
  /\ UNCHANGED <<req, pc, answer, idem, rows, lock, claim, source, dest, audited>>

(* Seeded fault: the update lacks its "status = 'pending'".                 *)
ExpireWhateverStatus(overdue) ==
  /\ overdue # {}
  /\ \A t \in overdue : t \in due /\ lock[t] = NoRequest
  /\ status' = [t \in Transfers |-> IF t \in overdue THEN "expired" ELSE status[t]]
  /\ UNCHANGED <<req, pc, answer, idem, acceptedAs, brain, due, assets, lock, claim, source,
                 dest, audited>>

(* The statement every list or get of transfers begins with.  It waits for *)
(* the row locks of the rows it changes, and its now may be a little old.   *)
ExpirePendingTransfers(overdue) ==
  /\ overdue # {}
  /\ \A t \in overdue : t \in due /\ status[t] = "pending" /\ lock[t] = NoRequest
  /\ status' = [t \in Transfers |-> IF t \in overdue THEN "expired" ELSE status[t]]
  /\ UNCHANGED <<req, pc, answer, idem, acceptedAs, brain, due, assets, lock, claim, source,
                 dest, audited>>

(* An idempotency record outlives its TTL, a day: far longer than its       *)
(* request runs.  The next request under the key takes the row over.        *)
Lapse(s) ==
  /\ idem[s] # Absent
  /\ \A r \in Requests : Scope(r) = s => pc[r] \notin Owning
  /\ idem' = [idem EXCEPT ![s] = Absent]
  /\ UNCHANGED <<req, pc, answer, rows, due, lock, claim, source, dest, audited>>

(* uploadAsset under a new object key, one statement outside a transaction. *)
UploadAsset(k) ==
  /\ brain /\ assets[k] = Free /\ claim[k] = NoRequest
  /\ assets' = [assets EXCEPT ![k] = Uploaded]
  /\ UNCHANGED <<req, pc, answer, idem, status, acceptedAs, brain, due, lock, claim, source,
                 dest, audited>>

(* uploadAsset with overwrite=true: the row's new path, then the old object. *)
OverwriteAsset(k) ==
  /\ assets[k] \in Transfers
  /\ assets' = [assets EXCEPT ![k] = Uploaded]
  /\ dest' \in {dest, dest \ {assets[k]}}
  /\ UNCHANGED <<req, pc, answer, idem, status, acceptedAs, brain, due, lock, claim, source,
                 audited>>

(* deleteAsset.  The foreign key would set accepted_asset_id to null, which *)
(* transfers_resolution_shape forbids of an accepted transfer.              *)
DeleteAsset(k) ==
  /\ assets[k] = Uploaded
  /\ \A t \in Transfers : acceptedAs[t] # k
  /\ assets' = [assets EXCEPT ![k] = Free]
  /\ UNCHANGED <<req, pc, answer, idem, status, acceptedAs, brain, due, lock, claim, source,
                 dest, audited>>

(* deleteBrain: the assets go with it and the transfers' ids become null,   *)
(* which waits for their row locks and is refused as DeleteAsset is.  If it *)
(* waits in a circle with an accept that inserts, Postgres fails one.       *)
DeleteBrain ==
  /\ brain
  /\ \A t \in Transfers : lock[t] = NoRequest /\ status[t] # "accepted"
  /\ brain' = FALSE
  /\ assets' = [k \in ObjectKeys |-> Free]
  /\ UNCHANGED <<req, pc, answer, idem, status, acceptedAs, due, lock, claim, source,
                 dest, audited>>

-----------------------------------------------------------------------------
Progress(r) ==
  \/ CreateIdempotencyRecord(r) \/ GetIdempotencyRecord(r)
  \/ VisibleTransfer(r) \/ LockTransfer(r) \/ CheckObjectKey(r)
  \/ FetchPayload(r) \/ PutPayload(r) \/ InsertAsset(r) \/ Commit(r)
  \/ DeleteSource(r) \/ CompleteIdempotencyRecord(r) \/ Audit(r)

Fails(r) == CreateFails(r) \/ StatementFails(r) \/ TxFails(r)

Environment ==
  \/ Crash
  \/ \E t \in Transfers : Elapse(t)
  \/ \E overdue \in SUBSET Transfers : ExpirePendingTransfers(overdue)
  \/ \E s \in Scopes : Lapse(s)
  \/ \E k \in ObjectKeys : UploadAsset(k) \/ OverwriteAsset(k) \/ DeleteAsset(k)
  \/ DeleteBrain

Next ==
  \/ \E r \in Requests : Progress(r) \/ Fails(r)
  \/ Environment

Spec == Init /\ [][Next]_vars

(* A handler that can take its next step takes it or another: Go schedules *)
(* its goroutine and every statement returns once nothing blocks it.  No   *)
(* failure, crash, expiry or upload need ever happen.                      *)
FairSpec == Spec /\ \A r \in Requests : WF_vars(Progress(r))

-----------------------------------------------------------------------------
TypeOK ==
  /\ req \in [Requests -> Request]
  /\ pc \in [Requests -> Steps]
  /\ answer \in [Requests -> {"none"} \cup Decisions \cup Refusals]
  /\ idem \in [Scopes -> {Absent} \cup
                          [hash : ObjectKeys \cup {NoKey}, response : {"open"} \cup Decisions]]
  /\ status \in [Transfers -> {"pending", "expired"} \cup Decisions]
  /\ acceptedAs \in [Transfers -> ObjectKeys \cup {NoKey}]
  /\ due \subseteq Transfers
  /\ brain \in BOOLEAN
  /\ assets \in [ObjectKeys -> Transfers \cup {Free, Uploaded}]
  /\ lock \in [Transfers -> Requests \cup {NoRequest}]
  /\ claim \in [ObjectKeys -> Requests \cup {NoRequest}]
  /\ source \subseteq Transfers
  /\ dest \subseteq Transfers
  /\ audited \subseteq Transfers

(* An accepted transfer, and no other, names one asset of the destination:  *)
(* the row with that key stores its copy until the owner overwrites it, and *)
(* no row stores the copy of a transfer that was not accepted under its key *)
(* (acceptTransfer's insert and MarkTransferAccepted commit together).  None*)
(* is taken into a Brain that is deleted after the request was let through. *)
AcceptedOnce ==
  /\ \A t \in Transfers :
       /\ status[t] = "accepted" <=> acceptedAs[t] # NoKey
       /\ status[t] = "accepted" => assets[acceptedAs[t]] \in {t, Uploaded}
  /\ \A k \in ObjectKeys : assets[k] \in Transfers => acceptedAs[assets[k]] = k
  /\ ~brain => \A k \in ObjectKeys : assets[k] = Free

(* No row's bytes are lost: a transfer that can still be accepted has its   *)
(* payload, and an asset that stores an accepted copy has that copy,        *)
(* wherever the deletions of the other side and failures fall.              *)
PayloadsStored ==
  /\ \A t \in Transfers : status[t] = "pending" => t \in source
  /\ \A k \in ObjectKeys : assets[k] \in Transfers => assets[k] \in dest

(* A client that is answered 200, first-hand or from the idempotency record *)
(* of an earlier request, is answered the decision that stands; one told    *)
(* that the transfer is resolved is told so of a resolved transfer.         *)
AnswersAreTrue ==
  \A r \in Requests :
    /\ answer[r] \in Decisions =>
         /\ answer[r] = Decision(r)
         /\ status[Target(r)] = answer[r]
         /\ acceptedAs[Target(r)] = Key(r)
    /\ answer[r] = "already_resolved" => status[Target(r)] # "pending"
    /\ answer[r] = "expired" => Target(r) \in due

(* The audit trail never names a resolution that did not happen: audit runs *)
(* after the commit, outside its transaction.                               *)
AuditsAreTrue == \A t \in audited : status[t] \in Decisions

(* An idempotency key admits one request at a time: of those that share     *)
(* user, scope and key, only the one whose insert took the slot goes on.    *)
KeyAdmitsOne ==
  \A r, q \in Requests :
    r # q /\ Scope(r) = Scope(q) => ~(pc[r] \in Owning /\ pc[q] \in Owning)

(* Who holds a row lock or an uncommitted object key: only the one request  *)
(* in a transaction on that transfer, from LockTransfer to EndTx, and while *)
(* it does, the transfer stays pending, the key free and the Brain there.   *)
LockDiscipline ==
  /\ \A r \in Requests : pc[r] \in InTx =>
       lock[Target(r)] = r /\ status[Target(r)] = "pending"
  /\ \A t \in Transfers : lock[t] # NoRequest =>
       pc[lock[t]] \in InTx /\ Target(lock[t]) = t
  /\ \A r \in Requests : pc[r] = "commit" /\ req[r].op = "accept" =>
       claim[Key(r)] = r /\ assets[Key(r)] = Free
  /\ \A k \in ObjectKeys : claim[k] # NoRequest =>
       /\ pc[claim[k]] = "commit" /\ req[claim[k]].op = "accept"
       /\ Key(claim[k]) = k
  /\ \A r \in Requests :
       pc[r] \in InTx \ {"collision"} /\ req[r].op = "accept" => brain

(* A decision is final, its asset is never renamed, and none is taken of a  *)
(* transfer that the holder of its row lock is deciding.                    *)
DecisionsAreFinal ==
  [][\A t \in Transfers :
       /\ status[t] # "pending" =>
            status'[t] = status[t] /\ acceptedAs'[t] = acceptedAs[t]
       /\ status'[t] = "expired" /\ status[t] # "expired" =>
            t \in due /\ lock[t] = NoRequest]_vars

(* Every request ends: nothing that a handler waits for, a row lock or an   *)
(* uncommitted object key, is waited for in a circle or held for good.      *)
RequestsEnd ==
  \A r \in Requests : pc[r] = "start" ~> pc[r] \in Ended

(* The decisions that clients were told of.                                 *)
Told ==
  [r \in Requests |->
     IF answer[r] \in Decisions
       THEN {[transfer |-> Target(r), decision |-> answer[r], objectKey |-> Key(r)]}
       ELSE {}]

(* The detailed handlers keep the promise of TransferLifecycle.             *)
Lifecycle == INSTANCE TransferLifecycle WITH told <- Told

ImplementsLifecycle == Lifecycle!Spec

(***************************************************************************)
(* Why the invariants hold: what each step of a request relies on.         *)
(***************************************************************************)

(* A reject goes from its lock straight to its commit.                      *)
AcceptSteps ==
  \A r \in Requests : pc[r] \in InTx \ {"commit"} => req[r].op = "accept"

(* An accept inserts and commits its asset only after the copy is stored.   *)
CopiedFirst ==
  \A r \in Requests :
    pc[r] \in {"insert", "commit"} /\ req[r].op = "accept" => Target(r) \in dest

(* A request past its commit carries the decision that was taken.           *)
DecidedAfterCommit ==
  \A r \in Requests : pc[r] \in After =>
    status[Target(r)] = Decision(r) /\ acceptedAs[Target(r)] = Key(r)

(* A request is answered once, at its end.                                  *)
AnsweredOnce == \A r \in Requests : pc[r] # "answered" => answer[r] = "none"

(* A request that goes on has its own record, of its own body.              *)
OwnRecord ==
  \A r \in Requests : pc[r] \in Owning =>
    idem[Scope(r)] # Absent /\ idem[Scope(r)].hash = Key(r)

(* What is kept for replay is the decision that was taken.                  *)
RecordsAreTrue ==
  \A s \in Scopes : idem[s].response \in Decisions =>
    /\ idem[s].response = DecisionOf(s.op)
    /\ status[s.transfer] = idem[s].response
    /\ acceptedAs[s.transfer] = idem[s].hash

(* The inductive invariant.                                                 *)
IInv ==
  /\ TypeOK /\ AcceptedOnce /\ PayloadsStored /\ AnswersAreTrue /\ AuditsAreTrue
  /\ KeyAdmitsOne /\ LockDiscipline
  /\ AcceptSteps /\ CopiedFirst /\ DecidedAfterCommit /\ AnsweredOnce
  /\ OwnRecord /\ RecordsAreTrue

(* What handlers_execution.go answers under a key whose record is open:     *)
(* "The idempotent request is still in progress."                           *)
InProgressMeansRunning ==
  [][\A r \in Requests :
       answer[r] = "none" /\ answer'[r] = "in_progress" =>
         \E q \in Requests : Scope(q) = Scope(r) /\ pc[q] \in Owning]_vars
=============================================================================
