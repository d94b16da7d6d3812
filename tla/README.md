# SecureBrain backend: TLA+ models and proofs

SecureBrain (`README.md`, `internal/`) is a policy-controlled data-routing network: *Brains*
own files, *query paths* select some of them and say who may have them, identity *Services*
form the finite route the data travels, and the owner of the destination decides whether data
that was pushed is kept. It is one Go server over Postgres and an object store that cannot
share a transaction.

This directory models the parts of it where things can go wrong between two steps.

## The parts of the system

| part | where | state it keeps | operations |
|---|---|---|---|
| transfer decisions | `httpapi/handlers_transfers.go`, `store/transfers.go` | `transfers` rows: status, expiry, accepted asset; payload and copy in object storage | list, get, accept, reject, expire |
| idempotency | `httpapi/handlers_execution.go` (`startIdempotency`), `store/transfers.go` | `idempotency_records`: user, scope, key, request hash, stored response, expiry | create or take over, look up, complete |
| route policy | `routes/policy.go` | none: pure functions | `ValidateConfiguration`, `ResolveTerminal`, `Authorize` |
| query-path configuration | `httpapi/handlers_query_paths.go`, `store/query_paths.go` | `query_paths`, scope and grant tables, `routes`, `route_hops`; a `config_version` | create, patch (If-Match), delete, validate, load, resolve |
| route execution | `httpapi/handlers_execution.go`, `store/executions.go`, `domain/lifecycle.go` | `route_executions`, `execution_hops` | pull, send, get, trace |
| hop traversal | `routes/service.go` | none | `ExecuteHops` over the identity executor |
| assets | `httpapi/handlers_assets.go`, `store/assets.go`, `assets/files.go` | `assets` rows, each with the storage path of its object | upload, overwrite, delete, list, preview |
| object storage client | `storage/client.go` | none: an HTTP client of Supabase storage, bounded by the limits | `Put`, `Get`, `Delete` |
| query engine | `query/service.go` | none | `raw_read`, `text_search`, `csv_query` |
| nodes | `httpapi/router.go`, `store/nodes.go` | `brains`, `services` | create, list, delete |
| sessions | `httpapi/router.go`, `store/users_sessions.go` | `sessions` | sign in, touch, sign out |
| chat | `httpapi/handlers_network_chat_audit.go`, `openai/client.go` | `chat_messages` | post, list, clear |
| audit | `store/audit_chat_network.go` | `audit_events`, their viewers | insert, list |
| network view, search | `httpapi/handlers_network_*.go`, `store/audit_chat_network.go` | none | queries |
| canvas, app connections | `httpapi/handlers_network_nodes.go`, `handlers_app_connections.go` | per-process maps under a mutex | add, remove, connect, disconnect |
| start-up, configuration, wire formats | `cmd/`, `internal/config`, `httpapi/dto.go`, `primitives.go` | none | |

They interact through the database and the object store only: a handler runs in the goroutine of
its HTTP request, calls the store one statement at a time (each its own transaction unless it is
inside `InTx`), and calls object storage in between. `PROJECT.json` lists the hazards this leaves,
each at its line.

### What is hard about them, and what makes them correct

| part | what is hard | what makes it correct |
|---|---|---|
| transfer decisions | two requests decide one transfer; a commit whose answer is lost; a copy and a payload in a store that no transaction covers; expiry between the check and the lock; two accepts of one object key | a transfer is decided once and finally, an accepted one has its asset and its bytes, a pending one its payload, every answer tells the decision that stands, every request ends |
| idempotency | retries that race the first request; take-over of an expired record; a response that could not be stored | one request at a time owns a key, a replay tells what happened, a key makes one transfer in the life of its record |
| route policy | validation, terminal resolution and authorization are separate functions of one configuration | only what the owner permitted is delivered, and what was accepted as enabled is not refused later but for the content of an asset |
| query-path configuration | validation outside the write transaction; reads table by table; foreign keys that cascade or restrict | no lost update, no stored path that refers to what is gone, nothing served that was never in scope |
| route execution | every state change ignores its error; the payload, the transfer and the row are three writes; clients go away | what was delivered is complete, the row tells the outcome, final states stay |
| hop traversal | a Service may fail, alter or grow the payload at any hop | the destination gets what was read, or nothing |
| assets | two uploads of one key; each overwrite deletes what it believes replaced; clean-up after a failure | a key names one asset, a row has its object, nothing is left behind |
| query engine | limits shared by files, offsets that are not; comparisons by number or text; centred contexts | what is cut off is told, pages continue, order is total |
| nodes | deletion under everything that refers to a node: paths, routes, transfers, a post, an event, a choice kept by name | what refers to a node refers to one that is there, or is gone with it; nothing is accepted into a Brain that is gone |
| sessions | a row read before the clock, and written after it is read again; requests of one session that overtake each other | a session's last use advances, never past its expiry |
| chat | a clear, a deletion or another post while a post waits for the model | no question without its answer; the model is given the newest of the conversation, in order |
| canvas, app connections | what the database said is used under a mutex that the reading was outside of; both are lost on a restart | a choice stands until another is made; nobody's own node disappears for what they did to another |
| audit | each event is a statement after the one that it reports, and its error is dropped | an event may be missing, though the store's comment asks for it in the transaction, but is never false |
| object storage client | an end at the bound looks like an excess; the limits come from settings | what is handed out as whole is whole; nothing within the limits is refused for its size |

## The modules

| module | models | state | 
|---|---|---|
| `TransferLifecycle` | what a transfer promises its two owners | decisions, assets by object key, what clients were told |
| `Transfers` | `acceptTransfer`, `rejectTransfer`, `startIdempotency`, the statements of `store/transfers.go`, the deletion of the destination | rows, row locks, uncommitted keys, idempotency records, both objects of a transfer, each request's step |
| `TransfersProofs` | theorems about `Transfers` | |
| `PolicyRules` | `routes/policy.go` and its uses in the handlers, as pure operators | none |
| `PolicyRulesProofs` | lemmas about those operators | |
| `RoutePolicy` | a configuration that is saved and then called | the configuration, its context, the call and its outcome |
| `RoutePolicyProofs` | theorems about `RoutePolicy` | |
| `QueryPaths` | create, patch, delete, pull and send over the tables of one path, with deletions under them; composes `PolicyRules` | the stored path, nodes, assets, the row lock, what each request has read |
| `QueryPathsProofs` | theorems about `QueryPaths` | |
| `RouteExecution` | `executeRoute`, `ExecuteHops`, `sendQueryPath`'s key, `failExecution` | executions, traces, transfers, payloads, records, each request's hand |
| `RouteExecutionProofs` | theorems about `RouteExecution` | |
| `AssetStore` | `uploadAsset`, `deleteAsset` | rows, objects, the assets in use, each request's hand |
| `AssetStoreProofs` | theorems about `AssetStore` | |
| `QueryEngine` | `text_search`, `csv_query`, a client that pages | the files, the query, the pages answered |
| `QueryEngineProofs` | theorems about `QueryEngine` | |
| `Api` | what the handlers of the modules below share: a request's steps, the clock, the audit | the clock, the events, each request's step |
| `Sessions` | sign-in, `requireSession`, sign-out | `sessions`, what each request has read of its own |
| `Nodes` | creation, look-up and deletion of Brains and Services, `audit` | their rows, the routes that hold them |
| `Canvas` | `handlers_network_nodes.go` | the process's map, a history of removals |
| `AppConnections` | `handlers_app_connections.go`, the statements of `ListNetworkRoutes` | the process's maps, what each request has listed |
| `Chat` | `getChat`, `postChat`, `clearChat`, `Respond`, `InsertChatPair` | `chat_messages`, open transactions, prompts |
| `Objects` | `storage/client.go`, the limits of `config` and `runtime.go`, `assetContent` | the limits, rows, objects, each response read |
| `Workspace` | the seven above composed on one server, with restarts | |
| `WorkspaceProofs` | theorems about `Workspace` | |
| `MC...` | instances of the above for TLC | |

The modules share conventions. A request is handled once: `pc` is its next call, `mine` what it has
read or assembled, `answer` what its client was told. One action is one database statement or
storage call with the Go code up to the next one, because that is where requests interleave: a
handler shares nothing in memory with another. A statement that may fail has a disjunct, or an
action, for a failure before and one for a failure after it took effect. `PROJECT.json` maps each
definition to its lines. Operators whose comment begins "Seeded fault" are not used by any
specification: each is the plausible mistake that one property has to catch.

### Transfers

`acceptTransfer` is the chain of actions `CreateIdempotencyRecord` / `GetIdempotencyRecord`,
`VisibleTransfer`, `LockTransfer`, `CheckObjectKey`, `FetchPayload`, `PutPayload`, `InsertAsset`
(with `MarkTransferAccepted`), `Commit`, `DeleteSource`, `CompleteIdempotencyRecord`, `Audit`;
`rejectTransfer` takes the part of it that it shares. `lock` and `claim` are what Postgres holds for
a transaction: the row lock of `select ... for update` and the unique-index entry of an uncommitted
insert, both of which make others wait. `Crash` ends every request and rolls back; `TxFails` is a
commit that fails before or after it took effect. `Elapse` lets time pass, and
`ExpirePendingTransfers` is what the list and get handlers begin with. `Lapse` is a record whose TTL
ends, `UploadAsset`, `OverwriteAsset`, `DeleteAsset` and `DeleteBrain` are the destination's owner.
A Brain may be deleted when a request has passed `VisibleTransfer` and not yet locked the row: an
accept then dereferences a null id (`handlers_transfers.go:182`) and panics, which the deferred
rollback and the middleware turn into a failure (`CheckObjectKey`), while a reject goes through.
A Brain that a transfer was accepted into cannot be deleted: the cascade would take the asset, whose
foreign key and `transfers_resolution_shape` refuse that.

`TransferLifecycle` knows none of that. `ImplementsLifecycle` says that each step of `Transfers` is
one of its steps, or changes nothing it can see; `told` is mapped to the answers.

### PolicyRules and RoutePolicy

`ValidateConfiguration`, `ResolveTerminal` and `Authorize` are translated check by check;
`Permitted` states what an owner means by a configuration without their order. `RoutePolicy` saves
any configuration that has no errors, then runs any call under `ExecuteRoute`, the checks of the
handler in their order. An asset has a format, a state and a *content*, because three places judge it
differently: the policy goes by format and state, `Classify` calls a CSV file ready whose header repeats
a column or leaves one blank, and `queryCSVAsset` refuses both (`service.go:316-318`);
an asset that came by a transfer was never classified and may be anything. `AcceptedPathsServe` names these
as the only ways in which a path that was accepted as enabled is refused a permitted call.

### QueryPaths

One path name of one Brain, with the five tables that store it. `LoadRow` to `LoadHops` are the
statements of `LoadQueryPathConfig`; a patch goes on through `MergePatch`, `ListRegistry`,
`Validate`, `BeginWrite` (which locks the row and compares the version), `InsertRelations` and
`Commit`. `DeleteAsset`, `DeleteService`, `DeleteBrain` and `OverwriteAsset` change what the path
refers to, as the foreign keys and triggers of `db/schema.sql` let them. `seen` records what was
stored while a request read.

The If-Match version of a patch is one the client was told earlier. A path is not renamed and its
Brain is not deleted.

### RouteExecution

`Claim` or `Pull` starts a request; `Insert`, `Decide`, `BeginRead`, `Read` (once per asset),
`Query`, `BeginProcessing`, `Hop` (once per Service), `Record` (once per hop), `Put`,
`InsertTransfer`, `Undo`, `Deliver`, `FailExecution` and `Complete` are the calls of `executeRoute`
in their order. A pull of a private path that is not the caller's is `hidden`: whatever error it ends
in, its client is told `PATH_NOT_FOUND` (`Told`), while the row keeps the code. A key is `Free` without a
record or with one past its expiry, and `OpenRecord` is what an insert or a take-over leaves of it. `Lapse`
is the TTL's end. It is a day, so a record lapses only when no request that claimed its key is running;
`past` are the sends whose record has gone. What `Authorize` and `query.Execute` answer is a choice: `PolicyRules` and
`QueryEngine` say what they answer. A Service may give back anything, because the interface allows
it, though the one that ships gives back its input. `Cancel` is a client that goes away: every later
call with its context fails. `Stop` is a server that stops.

### AssetStore

A row and an object for each file. An object's path names the asset and the checksum of the
content, so that a path can hold only one content. `Put` and `Remove` are the storage client's,
without and with `x-upsert`. `UsePath` enables and disables paths that refer to an asset.
`contended`, `troubled` and `undone` are histories that the properties refer to.

### QueryEngine

The loops of `query/service.go` as folds and comprehensions over files of runes. Which runes are
equal under case folding and which texts are numbers are constants. `NextPage` is a client that asks
again, with the offset after the rows it was promised, for as long as a file says `has_more`.

### Workspace

A run of `Workspace` has a *mix*: what its requests ask for, what they find, for how many minutes
the clock runs, and whether the server is started again. A request in a session goes through
`RequireSession`, `ReadClock` and perhaps `TouchSession`, then its handler's own steps (`FirstStep`,
`SecondStep` in `Api` name them), and most end in `Audit`.

- *Sessions.* The row is read by one statement and the clock after it; `TouchSession` is the update
  that repeats the handler's test. The handler reads its clock twice; one read is enough, because
  the clock does not run back.
- *Nodes.* A node is found by its name and deleted by the record that was found. `Routed` is what
  the triggers refuse and `Held` what the foreign keys refuse; `PatchPath` is a patch of `QueryPaths` as
  far as nodes see it. `Delete` of `Workspace` takes the node's messages along, and waits for the
  transactions that inserted some.
- *Canvas* and *AppConnections* keep names, and records, in the process. The step before the
  mutex (`ResolveCanvasNode`, `ListNetworkRoutes`, `ListHops`) and the step under it (`AddToCanvas`,
  `RemoveFromCanvas`, `SeedOnce`, `Choose`) are apart; `AppCatalog` takes the mutex once for each app.
- *Chat.* `ListChatMessages` has the two orders of its query, `Respond` the provider's one retry.
  The pair's transaction is `BeginPair`, which fixes the instant of both rows, `InsertQuestion`,
  `InsertAnswer` and `CommitPair`, whose answer may be lost. Ids are random: `Ids` gives each row its own, on
  either side of those of earlier requests.
- *Objects.* `Loaded` are the limits a process may start with. `Get` has the retry and the announced
  length, `Read` is one read through the bounded reader and the handler's own, `Put` and `Drop` are the
  writes of other requests.

`Restart` ends the requests that have begun, rolls back, empties the canvas and the app
connections, and may load other limits.

## The runs

| run | shows | states |
|---|---|---|
| `transfers_race` | three requests race for one transfer, under two object keys and two idempotency keys, while the destination may be deleted: one decision, no lost payload, true answers and audits, one owner of a key, nothing in a Brain that is gone | 1,206,782 |
| `transfers_collide` | two transfers meet under one object key: decisions are final, the lifecycle is implemented, and every request ends | 300,864 |
| `transfers_in_progress` | *fails*: an open record does not mean a running request | |
| `policy` | every small policy against every call, and every small scope against every list of operations | 854,960 |
| `paths` | two writers, or a reader and a writer, with the deletions: stored paths are complete, no patch is lost, and what a torn read can still be trusted for | 4,141,110 |
| `paths_torn` | *fails*: a read is not of one point in time | |
| `executions` | two sends or pulls, any call failing, records expiring: complete deliveries, one transfer in the life of a key's record, rows that tell the outcome | 4,717,746 |
| `assets_race` | two uploads or deletions: one asset for a key, exact objects where nothing overlapped or failed | 101,114 |
| `assets_lost` | *fails*: a row that is available may have no object | |
| `queries` | searches and paged CSV queries over up to two small files: what is cut off is told, what is paged is read out, comparisons agree | 95,722 |
| `workspace` | sixteen mixes of three requests: sessions advance, choices stand, nobody's own node is hidden for nothing, pairs are whole, prompts in order, events true, objects whole | 2,260,271 |
| `workspace_unaudited` | *fails*: a sign-in, a creation or a post may have no event | |

### Bounds

They are the constants of the `.cfg` files; no counter is cut off otherwise, since every request is
handled once and no operation counts beyond what the constants bound.

- *Requests.* Interference here is between the one that acts and the one that read before it: two
  requests show it. `paths` takes them as pairs that have something to disagree on (`Pairs`): the
  requests that write against every writer, the ones that read against every writer that changes what is
  read. `transfers_race` has a third, because a retry (same key) and a rival (other key)
  have to meet one holder. In `executions` a third would be the one that is answered after a take-over; two
  show the take-over, and what a replay then tells is proved (`KeysAreOwned`). `transfers_collide` has two transfers, so that two requests can hold two
  row locks and meet at one object key, the only way to wait in a circle.
- *Keys.* Two idempotency keys, so that a request can share one or not. Two object keys in one run
  and one in the other, so that an accept has another name to take, or none.
- *Data.* Two assets of unequal size, so that a limit falls on the first or the second. One Service
  in `executions`, two in `policy`, where the hop limit is 2 and routes of 3 are submitted. Two
  contents per asset in `assets_race`, of which one is malformed, for an overwrite with the same
  content and with another.
- *Queries.* Lines of up to five runes of an alphabet of four, which leaves a match at both ends and in
  the middle of a line that is longer than the context; up to five rows against page sizes of 1 to
  3, so that a file ends inside and between pages. Larger offsets than `MaxCSVOffset` are refused.
- *Workspace.* A request can meet those that touch what it touches, so the mixes
  (`AllMixes`) put together the ones that share a session, a node, a Brain's apps, a conversation or an
  object, instead of every triple. Three are needed where a third observes or undoes (a clear, a
  listing, a deletion). Time is in minutes, and a session lives for one (`SessionLife`) or was
  stored with three left, so that it can expire between any two steps and be touched twice.
  `HistoryLimit` is 3, so that the limit falls inside a pair. `Ceiling` is 3 with a default of 2: the file
  limit can be below, at and above an object's size, and a preview's one byte more can be past the ceiling.

Deadlock is not checked, because every model ends when its requests have been answered; what
must not get stuck is said by `RequestsEnd`. Symmetry is used in runs of safety properties only
(`transfers_race`, `assets_race`, `executions`) and in `paths`, whose one action property does not tell requests apart, over sets of values that
no definition tells apart.

### Fairness

`FairSpec` adds weak fairness of each request's `Progress`: a handler that could go on goes on,
because the Go scheduler runs its goroutine and a statement that nothing blocks returns.
It assumes nothing of failures, crashes, expiry or uploads, and not that a lock is
fairly passed on: a request waits for at most one holder's transaction at a time, and that
transaction ends. Under it `RequestsEnd` holds.

## Findings

Four runs check a statement that the repository makes of itself, and find it violated.

- `transfers_in_progress`. `startIdempotency` answers "The idempotent request is still in progress."
  (`handlers_execution.go:458`) for any record without a response. A request that fails after it
  created its record leaves it so, and its retries are told this for the record's 24 hours.
- `paths_torn`. `QueryPathSnapshot` is called "a resolved, point-in-time query-path configuration"
  (`application/models.go:60`). It is read by separate statements outside a transaction, and a
  patch between them gives a configuration that was never stored.
- `assets_lost`. `README.md:124` says that paths and states make failures recoverable. If the update of
  a row fails when the same content was uploaded again, the clean-up deletes the object that the row
  names, and the row still says `ready`.
- `workspace_unaudited`. `InsertAuditEvent` is to be called on a "transaction-bound Store when it
  accompanies a business mutation" (`store/audit_chat_network.go:27-28`). Its callers call it after the
  change and drop its error: a sign-in, a creation or a post (`router.go:281`, `router.go:315`) whose event
  fails, or whose server stops before it, has none. The same goes for a decision of a transfer
  (`handlers_transfers.go:231`), also when the answer to its commit is lost. What events there are is true
  (`AuditsAreTrue`, `EventsAreTrue`).

Other things the models record. The first three also disagree with the repository's own words, and have
no run of their own:

- `db/schema.sql:219` declares `on delete set null` of the asset that a transfer was accepted as, which the
  check of `schema.sql:229` then refuses: such an asset cannot be deleted (`Drop`), whatever paths use it.
- Two uploads of one file that overlap can lose its content though both succeed. Each erases the
  object of the row that *it* read (`handlers_assets.go:196`): when the first has put the file's content
  back to what the second found stored, the second erases what the row now names. This too violates
  `AvailableMeansStored`; without an overlap only a failed update does (`OnlyAFailedUpdateLoses`).
- When the answer to a `Put` is lost, the row is left as it was and the object stays. A retry is
  put without upsert, which is for a path equal to the row's only (`handlers_assets.go:179`), and is refused
  for as long as the object is there: such a failure is not one that can be recovered from (`README.md:124`).

- An enabled path stays enabled when an overwrite makes one of its assets `parse_failed`
  (`handlers_assets.go:189`), though enabling it then would be refused (`policy.go:229`).
- An asset that exceeds the payload limit is answered `ASSET_UNAVAILABLE`; the `PAYLOAD_TOO_LARGE` of
  `handlers_execution.go:248` is out of reach behind the reader's own limit.
- An idempotency key makes one transfer in the life of its record. After the record's 24 hours the same
  request with the same key is executed again (`KeyTransfersOnce`).
- An accepted transfer's asset is `ready` though nothing classified it. It can be scoped by a path whose
  queries then fail on it, as on a CSV file whose header has a blank or a repeated column.
- When the answer to `InsertTransfer` is lost the payload is deleted, though the transfer may be there
  (`handlers_execution.go:301`): a pending transfer that cannot be accepted.
  `OnlyALostInsertOrphans` says that this is the only way to get one.
- A CSV query applies its offset to each file and shares its limit between them, so that a client
  that pages never sees the rows of a later file for which a page had no room (`FirstFileIsReadOut`).
- An accept whose destination Brain is deleted behind its checks ends in a panic that the middleware
  answers as an internal error. Nothing is registered and the lock is released (`AcceptedOnce`,
  `RequestsEnd`), but the idempotency record stays open, as in `transfers_in_progress`.
- A clear of the chat that runs while a post waits for the model does not reach the post: what was
  cleared is answered once more, and the pair appears after the clear. It is a whole pair
  (`PairsAreWhole`).
- Two pairs written in one instant are listed with both questions before both answers; otherwise
  each answer stands behind its question, but for the oldest when the limit cuts its question off.
- A node that a user removed from the canvas hides, by its name, the node that the user makes under that
  name once the first is gone (`OnlyAnEarlierNameHides` says that there is no other way).
- A preview is cut one byte behind the limit for uploads, so that an accepted asset that is larger, which
  `MaxPayloadBytes` allows, is shown in part, and nothing says so.
- The apps of a Brain are seeded from a listing of its routes that is not of one point in time; a
  patch between its statements can leave a Service out, for as long as the process runs.
- `MarkTransferExpired` is rolled back by the error that follows it, and nothing deletes the payload
  of an expired transfer.

## The proofs

The theorems hold for every value of the constants that the named assumptions allow
(`SentinelsAreDistinct` in `Transfers`; `InputsAreTyped` in `RoutePolicy`, `QueryPaths`, `AssetStore`,
`RouteExecution` and `QueryEngine`, with `KindsAreDistinct` in `QueryPaths` and `LimitsArePositive` in
`QueryEngine`; in `Workspace`'s modules `RequestsAreNumbers`, `SessionsAreTyped`, `NodesAreTyped`, `ChatIsTyped`, `ObjectsAreTyped` and
`AsksAreTyped`; TLC evaluates each in a run).
Each proof module has one lemma per action, and under it one step per part of the invariant that
the action can disturb.

- **`TransfersProofs`.** `IInv` adds to the properties what a step relies on. `OwnRecord` and
  `KeyAdmitsOne` make the stored response the one of the request that decided, `LockDiscipline` keeps
  the transfer pending, the key free and the Brain there until the commit, `CopiedFirst` puts the copy before the row,
  and `RecordsAreTrue` keeps replays true: without it `AnswersAreTrue` is not inductive, since a replay
  answers from a record written by a request that has ended. Proved: `TypeOK`, `AcceptedOnce`,
  `PayloadsStored`, `AnswersAreTrue`, `AuditsAreTrue`, `LockDiscipline`, `KeyAdmitsOne`, `DecisionsAreFinal`, and
  `ImplementsLifecycle`, the refinement of `TransferLifecycle`.
- **`PolicyRulesProofs`** and **`RoutePolicyProofs`.** The lemmas of the first relate the operators: what
  `Authorize` lets through is `Permitted` (`AuthorizeIsPermitted`), what is permitted under an accepted
  configuration is let through (`PermittedIsAuthorized`), and no errors means a sound configuration
  (`NoErrorsIsSound`). Both modules that check a policy rest on them. `DeliversOnlyWhatIsPermitted`,
  `AcceptedPathsServe` and `ScopeIsOwned` follow.
- **`QueryPathsProofs`.** Nothing protects the six reads of `LoadQueryPathConfig` from each other, so the
  question is what a request may still rely on. `IInv` answers it in four parts for each request.
  `KnowsThePast`: an id that it read was stored, and a version of that id it read is no later than the
  stored one, since both only grow; a later `If-Match` then tells whether the path has changed.
  `ReadsWhatItWatches`: each part that it has read was part of a path it has witnessed (`seen`), and
  `ReadsOneExactly`: if it has witnessed one, it has read that one.
  `KeepsWhatItDoesNotPatch`: until the version changes, a field that a patch keeps is the stored one,
  *unless* a row that the field refers to has been deleted meanwhile. That exception is needed: `DeleteAsset`
  takes an asset out of a disabled path's scope and leaves the version. It is harmless because the foreign
  keys, which `InsertRelations` meets, refuse the patch. `Vouched`: what is about to be written had
  no errors in the context it was checked in, and from `InsertRelations` on the row lock keeps the version and
  the rows it refers to. Validation (`NoErrorsIsSound`) and the foreign keys then give completeness at the
  commit, and the triggers that guard an enabled path keep it afterwards (`StoreKeeps`).
  `KeyedOnce`, the primary keys of the relation tables, is why a deletion takes no more than its own row
  out of a list. Proved: `TypeOK`, `StoredPathIsComplete`, `ServesWhatWasScoped`,
  `UndisturbedRequestsAreExact` and the action property `PatchesCompose`.
- **`AssetStoreProofs`.** `IInv` says that a request has only its own asset in hand
  (`HandsOwnAsset`), that overlaps are marked, and what `update`, `cleanup` and `erase` rely on. It gives
  `OneAssetPerKey` and `OnlyAFailedUpdateLoses`. `ExactInv` adds the objects at each step of a request
  that works alone, which gives `QuietAssetsAreExact`.
- **`RouteExecutionProofs`.** The invariant is of one request at a time (`RequestInv`: what it has in
  hand, its row, its trace, its payload), with `KeysAreOwned` for what requests share. `OthersKeep`
  shows once that a step leaves the other requests alone and `KeysKeep` that it leaves the keys alone;
  what remains of each action is its own request. `KeysAreOwned` says of a key that it is held by at most
  one send that runs or has made a transfer in the life of the record (`Owns`), that a running one finds
  the record as it opened it, and that what is stored in a record, or was replayed from one, is of a delivered
  send whose record had not expired. `LapseInv` is where `past` is needed: a record may only expire
  when its sends have ended, and then no one owns the key. Proved: all six properties of the run.
- **`QueryEngineProofs`.** The properties are of what loops compute, for every input, and no installed
  prover can use the induction theorems of the library, whose predicate is a parameter. Two lemmas
  stand in for them. `Induction` is of *sets* of numbers: a set with 0 and every successor has all of them,
  because what is missing would have a least member (`Least`, from the well-foundedness of `<`).
  `FoldExists` says that the function by which the community modules define a fold exists, so that a
  loop has a result after each step and an invariant of the loop can be carried from one to the next.
  The invariants are `FirstOf` (after a line, the matches are the first of the places up to it, and
  `truncated` says whether one is left out), `Continues` (after a row, what is on the page are the selected
  rows from the offset on, to the limit or to the last) and `IsPart` (a file has the page's whole limit unless a
  file before it has rows on the page). `MatchIsShown` adds that the context holds the match, from
  `FindsTheFirst` and `ContextHoldsMatch`. Between requests the invariant is `Answered`: page by page, what the
  client holds is what `csvQuery` makes of the offsets; `PagesJoin` puts the parts of a file together.
  Proved: `TypeOK`, `SearchesAreExact`, `PagesReadOut`, `OrderIsTotal`.
- **`WorkspaceProofs`.** Its assumptions say what a mix is: every request asks for one of the operations
  with the fields that it needs, routes refer to nodes stored at the start, stored messages are whole
  pairs, and what a `put` writes is what the row of its path says. `IInv` has a part for what each handler
  relies on between two of its steps. `RoutesStand`: a listed route is stored, and runs through nodes that
  are there (without it `ListHops` could look up a node that is gone). `DraftStands`: what a
  transaction has inserted at each of its steps, which makes the committed rows a pair. `EventStands`: what an
  event is about to say is so already. `MakersStand`: a request that has a node to name made it, and no other
  request did; a creator's event rests on it after the node is deleted and the name used again. `CanvasStands`: names are unique, and a name that is removed
  was that of a node no younger than any that has it now (`Hides`); `OnlyAnEarlierNameHides` alone does not
  say whose name is going to be reused. `ReadsStand`: a response is read under the limits it was asked
  for with, because a restart, which may change them, ends the request. `SessionsStand`: a sign-in's
  session is not there before it is inserted, and is its user's; it then stays until somebody signs out of it
  (`Opened`). `MessagesStand`: stored rows differ in their ids and in their
  post and role, because a post's pair is committed once. From it, `AreInOrder` has the sort: where an order
  is strict and total, the members of a finite set have as many others ahead of them as a number from 0 up,
  each number once (`Ranks`), and the i-th row of the list is the one of rank i - 1. `NewestAreLast` is
  the same from the other end, and `NothingBetween` that no row comes between a question and its answer
  unless of another post of their instant. Typing comes first (`TypeStep`), handler by handler, with lemmas
  that a step of one module leaves the types of the others (`Kept`); then one lemma for each part.
  Proved: `TypeOK`, `PairsAreWhole`, `EventsAreTrue`, `OnlyAnEarlierNameHides`, `ReadsAreWhole`, and
  the action properties `SessionsAdvance`, `ChoicesStand` and `PromptsAreInOrder`.

Only model-checked: `RequestsEnd`, which is liveness under fairness. Every other property of a passing run is
a theorem.

## Not modelled

- *Transfers, paths, assets, executions*: what lists, single reads, the trace and the validate endpoint
  return. They only read; `ExpirePendingTransfers`, which two of them begin with, is modelled.
- *Query paths*: renaming a path, and the deletion of its own Brain.
- *Chat*: the text of prompts and answers, and the time-outs of the provider's client.
- *Audit*: the listing by viewer; an event whose viewers could not be inserted.
- *Network view and search*: the projection of routes to a viewer. They only read.
- *Start-up and configuration*: every setting but the size limits, the message limit and the session life.
- *Wire formats* (`dto.go`, `values.go`): formatting and parsing without state; JSON, base64, the text of
  names, paths, media types and messages.
- *Storage that is never reclaimed*: nothing deletes the payload of a transfer that expires, nor the
  objects of a Brain that is deleted.
- *Deadlocks that Postgres breaks* are failures of one of the statements, which the models have anyway.

## Plan

Done, in this order, the most important first: transfers with their lifecycle and proofs, policy with
proofs, query paths, assets with proofs, executions with proofs, queries, the rest of the server with
proofs, the deletion of a destination Brain, proofs of query paths and queries.

Next, if the code grows into it:

1. `Transfers` composed with `AssetStore`, so that `UploadAsset` and `DeleteAsset` of the former are
   shown to be what the latter does, and a payload that `RouteExecution` lost is met by an accept.
2. `storage/client.go`'s requests in flight as a refinement of the `Put`, `Get` and `Delete` that the other
   modules assume.
3. The audit's listing by viewer, with events whose viewers were lost.
