------------------------------ MODULE QueryPaths ------------------------------
(***************************************************************************)
(* The configuration of a query path while it is changed, used and has its *)
(* assets, Services and Brains deleted under it: the handlers of           *)
(* httpapi/handlers_query_paths.go, and the pull and send handlers as far  *)
(* as the policy decision, over the statements of store/query_paths.go and *)
(* the foreign keys and triggers of db/schema.sql.                         *)
(*                                                                         *)
(* One path name of one source Brain.  A configuration is stored in five   *)
(* tables.  It is written by one transaction and read by one statement per *)
(* table, each of which sees what is committed when it runs.               *)
(***************************************************************************)
EXTENDS PolicyRules, SequencesExt

CONSTANTS
  Source,       (* the Brain that owns the path                            *)
  Requests,     (* the requests of the run; each is handled once           *)
  Mixes,        (* what may be stored at the start, and asked for together *)
  AssetChoices, (* what an upload may make of an asset                     *)
  HopSetting,   (* the MAX_ROUTE_HOPS setting                              *)
  NoPath,       (* the path is not stored                                  *)
  NoRequest     (* no transaction holds the path's row                     *)

VARIABLES
  path,         (* the stored path: its id, config_version and config      *)
  brains,       (* the registered Brains                                   *)
  services,     (* the registered Services                                 *)
  assets,       (* the assets' rows                                        *)
  lock,         (* the transaction that holds the path's row or name       *)
  created,      (* how many paths had the name: the last one's id          *)
  ask,          (* what each request asks for                              *)
  pc,           (* the next step of each request                           *)
  mine,         (* what each request has read or assembled                 *)
  answer,       (* what each client was answered                           *)
  seen          (* history: what the path was while each request read it   *)

store == <<path, brains, services, assets, lock, created>>
vars  == <<path, brains, services, assets, lock, created, ask, pc, mine, answer, seen>>

FieldTypes ==
  [assets |-> Seq(Assets), operations |-> Seq(Operations \cup {"unknown"}),
   visibility |-> Visibilities \cup {"unknown"}, state |-> States \cup {"unknown"},
   brainGrants |-> Seq(Brains), serviceGrants |-> Seq(Services),
   route |-> {NoRoute} \cup [hops: Seq(Services), terminal: Terminals \cup {NoBrain}]]

InitialPaths == UNION {mix.paths : mix \in Mixes}
Asks         == UNION {mix.asks : mix \in Mixes}

IsAsk(a) ==
  \/ a.op = "create" /\ a.config \in Configuration /\ a.config.path = "own"
  \/ /\ a.op = "patch" /\ DOMAIN a.patch \subseteq DOMAIN FieldTypes
     /\ \A f \in DOMAIN a.patch : a.patch[f] \in FieldTypes[f]
  \/ a.op = "delete"
  \/ a.op \in {"pull", "send"} /\ a.call \in Call

Reading == {"row", "assets", "brainGrants", "serviceGrants", "route", "hops"}
InTx    == {"relate", "commit"}
Ended   == {"done"}
Steps   == {"start", "merge", "registry", "lookup", "write", "erase", "run"}
             \cup Reading \cup InTx \cup Ended

Blank ==
  [path |-> "own", assets |-> <<>>, operations |-> <<>>, visibility |-> "private",
   state |-> "draft", brainGrants |-> <<>>, serviceGrants |-> <<>>, route |-> NoRoute]

Nothing == [id |-> 0, version |-> 0, routeOf |-> 0, config |-> Blank,
            brains |-> {}, services |-> {}, assets |-> <<>>]

(* mergeQueryPathPatch: a field that is present replaces the whole field.   *)
Merge(config, patch) ==
  [f \in DOMAIN config |-> IF f \in DOMAIN patch THEN patch[f] ELSE config[f]]

Hops(c)      == IF c.route = NoRoute THEN {} ELSE Range(c.route.hops)
Fixed(c)     == IF c.route = NoRoute THEN {} ELSE {c.route.terminal} \ {"caller"}

(* The rows that the relations of a configuration refer to.                 *)
References(c) ==
  Range(c.assets) \cup Range(c.brainGrants) \cup Range(c.serviceGrants)
    \cup Hops(c) \cup Fixed(c)

(* Each of its foreign keys finds its row.                                  *)
Refers(c, registered, running, stored) ==
  /\ Range(c.assets) \subseteq DOMAIN stored
  /\ Range(c.brainGrants) \cup Fixed(c) \subseteq registered
  /\ Range(c.serviceGrants) \cup Hops(c) \subseteq running

(* The primary keys of the scope and grant tables.                          *)
KeyedOnce(c) ==
  ~Repeats(c.assets) /\ ~Repeats(c.brainGrants) /\ ~Repeats(c.serviceGrants)

(* What an enabled path needs of the rows it refers to.                     *)
Complete(c, registered, running, stored) ==
  /\ Refers(c, registered, running, stored)
  /\ Enabled(c) =>
       /\ c.assets # <<>> /\ c.route # NoRoute
       /\ \A a \in Range(c.assets) : stored[a].brain = Source
       /\ c.visibility = "private" =>
            /\ Hops(c) \subseteq Range(c.serviceGrants)
            /\ Fixed(c) \ {Source} \subseteq Range(c.brainGrants)

(* An asset has a UUID, a node's canonical ID tells its kind.               *)
ASSUME KindsAreDistinct ==
  /\ Assets \cap (Brains \cup Services) = {}
  /\ Brains \cap Services = {}

ASSUME InputsAreTyped ==
  /\ Source \in Brains /\ HopSetting \in Int
  /\ NoRequest \notin Requests
  /\ \A a \in Asks : IsAsk(a)
  /\ \A v \in AssetChoices : v \in Asset
  /\ \A p \in InitialPaths \ {NoPath} :
       /\ p = [id |-> 1, version |-> p.version, config |-> p.config]
       /\ p.version \in Nat \ {0}
       /\ p.config \in Configuration /\ p.config.path = "own"
       /\ KeyedOnce(p.config)
       /\ \A stored \in [Assets -> {v \in AssetChoices : v.brain = Source}] :
            Complete(p.config, Brains, Services, stored)
  /\ NoPath \notin [id: Nat, version: Nat, config: Configuration]

Init ==
  /\ \E mix \in Mixes :
       /\ path \in mix.paths
       /\ ask \in {a \in [Requests -> mix.asks] : Range(a) = mix.asks}
  /\ brains = Brains /\ services = Services
  /\ assets \in [Assets -> {v \in AssetChoices : v.brain = Source /\ v.state = "ready"}]
  /\ lock = NoRequest
  /\ created = IF path = NoPath THEN 0 ELSE path.id
  /\ pc = [r \in Requests |-> "start"]
  /\ mine = [r \in Requests |-> Nothing]
  /\ answer = [r \in Requests |-> "none"]
  /\ seen = [r \in Requests |-> {}]

-----------------------------------------------------------------------------
Goto(r, step) == pc' = [pc EXCEPT ![r] = step]

Answer(r, a) ==
  /\ Goto(r, "done")
  /\ answer' = [answer EXCEPT ![r] = a]

Is(r, ops)  == ask[r].op \in ops
Current(r)  == path # NoPath /\ path.id = mine[r].id

(* Whoever is reading the path may see what it has become.                  *)
Witness ==
  seen' = [q \in Requests |->
             IF pc[q] \in Reading \cup {"run"} /\ Current(q)
               THEN seen[q] \cup {path'}
               ELSE seen[q]]

-----------------------------------------------------------------------------
(* createQueryPath: the body is the configuration.                          *)
Submit(r) ==
  /\ pc[r] = "start" /\ Is(r, {"create"})
  /\ mine' = [mine EXCEPT ![r].config = ask[r].config]
  /\ Goto(r, "registry")
  /\ UNCHANGED <<store, ask, answer, seen>>

(* patch, delete and send name the path's id, and the first two a version   *)
(* that their client was told of: the If-Match header.                      *)
Address(r) ==
  /\ pc[r] = "start" /\ Is(r, {"patch", "delete", "send"})
  /\ path # NoPath
  /\ \E v \in 1..path.version :
       mine' = [mine EXCEPT ![r].id = path.id, ![r].version = v]
  /\ seen' = [seen EXCEPT ![r] = {path}]
  /\ Goto(r, IF Is(r, {"delete"}) THEN "erase" ELSE "row")
  /\ UNCHANGED <<store, ask, answer>>

(* ResolveEnabledQueryPath, its first statement: the name of an enabled     *)
(* path gives its id; whether it is enabled is not looked at again.         *)
ResolveEnabled(r) ==
  /\ pc[r] = "start" /\ Is(r, {"pull"})
  /\ IF path # NoPath /\ Enabled(path.config)
       THEN /\ mine' = [mine EXCEPT ![r].id = path.id]
            /\ seen' = [seen EXCEPT ![r] = {path}]
            /\ Goto(r, "row")
            /\ UNCHANGED answer
       ELSE /\ Answer(r, "not_found")
            /\ UNCHANGED <<mine, seen>>
  /\ UNCHANGED <<store, ask>>

(* LoadQueryPathConfig, one statement per table.                            *)
LoadRow(r) ==
  /\ pc[r] = "row"
  /\ IF Current(r)
       THEN /\ mine' = [mine EXCEPT ![r].config =
                           [@ EXCEPT !.state = path.config.state,
                                     !.visibility = path.config.visibility,
                                     !.operations = path.config.operations]]
            /\ Goto(r, "assets")
            /\ UNCHANGED answer
       ELSE /\ Answer(r, "not_found")
            /\ UNCHANGED mine
  /\ UNCHANGED <<store, ask, seen>>

LoadAssets(r) ==
  /\ pc[r] = "assets"
  /\ LET scope == IF Current(r) THEN path.config.assets ELSE <<>> IN
       mine' = [mine EXCEPT ![r].config.assets = scope,
                            ![r].assets = Restrict(assets, Range(scope))]
  /\ Goto(r, "brainGrants")
  /\ UNCHANGED <<store, ask, answer, seen>>

LoadBrainGrants(r) ==
  /\ pc[r] = "brainGrants"
  /\ mine' = [mine EXCEPT ![r].config.brainGrants =
                IF Current(r) THEN path.config.brainGrants ELSE <<>>]
  /\ Goto(r, "serviceGrants")
  /\ UNCHANGED <<store, ask, answer, seen>>

LoadServiceGrants(r) ==
  /\ pc[r] = "serviceGrants"
  /\ mine' = [mine EXCEPT ![r].config.serviceGrants =
                IF Current(r) THEN path.config.serviceGrants ELSE <<>>]
  /\ Goto(r, "route")
  /\ UNCHANGED <<store, ask, answer, seen>>

Loaded(r) == Goto(r, IF Is(r, {"patch"}) THEN "merge" ELSE "run")

(* Every replacement deletes the route and inserts another.                 *)
LoadRoute(r) ==
  /\ pc[r] = "route"
  /\ IF Current(r) /\ path.config.route # NoRoute
       THEN /\ mine' = [mine EXCEPT ![r].routeOf = path.version,
                          ![r].config.route =
                            [hops |-> <<>>, terminal |-> path.config.route.terminal]]
            /\ Goto(r, "hops")
       ELSE /\ Loaded(r)
            /\ UNCHANGED mine
  /\ UNCHANGED <<store, ask, answer, seen>>

(* Seeded fault: a Service that occurs twice is read once.                  *)
LoadDistinctHops(r) ==
  /\ pc[r] = "hops"
  /\ mine' = [mine EXCEPT ![r].config.route.hops =
                IF Current(r) /\ path.version = mine[r].routeOf
                  THEN SubSeq(path.config.route.hops, 1,
                              Cardinality(Range(path.config.route.hops)))
                  ELSE <<>>]
  /\ Loaded(r)
  /\ UNCHANGED <<store, ask, answer, seen>>

LoadHops(r) ==
  /\ pc[r] = "hops"
  /\ mine' = [mine EXCEPT ![r].config.route.hops =
                IF Current(r) /\ path.version = mine[r].routeOf
                  THEN path.config.route.hops ELSE <<>>]
  /\ Loaded(r)
  /\ UNCHANGED <<store, ask, answer, seen>>

-----------------------------------------------------------------------------
(* patchQueryPath: requestFromConfig looks the route's nodes up again.      *)
MergePatch(r) ==
  /\ pc[r] = "merge"
  /\ IF Hops(mine[r].config) \subseteq services /\ Fixed(mine[r].config) \subseteq brains
       THEN /\ mine' = [mine EXCEPT ![r].config = Merge(mine[r].config, ask[r].patch)]
            /\ Goto(r, "registry")
            /\ UNCHANGED answer
       ELSE /\ Answer(r, "failed")
            /\ UNCHANGED mine
  /\ UNCHANGED <<store, ask, seen>>

(* prepareQueryPath: the lists of Brains, Services and paths, and then each *)
(* asset; nothing of it is in the transaction that writes.                  *)
ListRegistry(r) ==
  /\ pc[r] = "registry"
  /\ mine' = [mine EXCEPT ![r].brains = brains, ![r].services = services,
                ![r].config.path = IF path # NoPath /\ path.id # mine[r].id
                                     THEN "other" ELSE "own"]
  /\ Goto(r, "lookup")
  /\ UNCHANGED <<store, ask, answer, seen>>

ContextOf(m) ==
  [source |-> Source, owned |-> TRUE, brains |-> m.brains, services |-> m.services,
   assets |-> m.assets, maxHops |-> HopSetting]

Validate(r) ==
  /\ pc[r] = "lookup"
  /\ LET found == {a \in DOMAIN assets \cap Range(mine[r].config.assets) :
                     assets[a].brain = Source}
         read  == [mine[r] EXCEPT !.assets = Restrict(assets, found)]
     IN  /\ mine' = [mine EXCEPT ![r] = read]
         /\ IF ValidateConfiguration(read.config, ContextOf(read)) = {}
              THEN Goto(r, "write") /\ UNCHANGED answer
              ELSE Answer(r, "invalid")
  /\ UNCHANGED <<store, ask, seen>>

(* Seeded fault: the update asks for the path's id only.                    *)
BeginWriteAnyVersion(r) ==
  /\ pc[r] = "write"
  /\ LET applies == IF Is(r, {"create"}) THEN path = NoPath ELSE Current(r)
     IN \/ /\ applies /\ lock = NoRequest
           /\ lock' = r
           /\ Goto(r, "relate")
           /\ UNCHANGED answer
        \/ /\ ~applies
           /\ Answer(r, IF Is(r, {"create"}) THEN "name_exists" ELSE "conflict")
           /\ UNCHANGED lock
  /\ UNCHANGED <<path, brains, services, assets, created, ask, mine, seen>>

(* The insert of CreateQueryPath or the compare-and-set update of           *)
(* ReplaceQueryPath; both wait for a transaction that holds the row or the  *)
(* name.                                                                    *)
BeginWrite(r) ==
  /\ pc[r] = "write"
  /\ LET applies == IF Is(r, {"create"}) THEN path = NoPath
                    ELSE Current(r) /\ path.version = mine[r].version
     IN \/ /\ applies /\ lock = NoRequest
           /\ lock' = r
           /\ Goto(r, "relate")
           /\ UNCHANGED answer
        \/ /\ ~applies
           /\ Answer(r, IF Is(r, {"create"}) THEN "name_exists" ELSE "conflict")
           /\ UNCHANGED lock
  /\ UNCHANGED <<path, brains, services, assets, created, ask, mine, seen>>

(* Seeded fault: an error leaves the transaction open.                      *)
AbandonTx(r, a) ==
  /\ Answer(r, a)
  /\ UNCHANGED <<store, ask, mine, seen>>

Rollback(r, a) ==
  /\ lock' = IF lock = r THEN NoRequest ELSE lock
  /\ Answer(r, a)
  /\ UNCHANGED <<path, brains, services, assets, created, ask, mine, seen>>

(* Seeded fault: the relations have no foreign keys.                        *)
InsertUnchecked(r) ==
  /\ pc[r] = "relate"
  /\ Goto(r, "commit")
  /\ UNCHANGED <<store, ask, mine, answer, seen>>

(* insertQueryPathRelations: each row's foreign key must find, and keeps    *)
(* until the commit, the row that it refers to.                             *)
InsertRelations(r) ==
  /\ pc[r] = "relate"
  /\ IF Refers(mine[r].config, brains, services, assets)
       THEN /\ Goto(r, "commit")
            /\ UNCHANGED <<store, ask, mine, answer, seen>>
       ELSE Rollback(r, "failed")

(* The commit.  What follows, or the commit itself, may still answer an     *)
(* error: the response is built from more reads.                            *)
Commit(r) ==
  /\ pc[r] = "commit"
  /\ path' = IF Is(r, {"create"})
               THEN [id |-> created + 1, version |-> 1, config |-> mine[r].config]
               ELSE [path EXCEPT !.version = @ + 1, !.config = mine[r].config]
  /\ created' = path'.id
  /\ lock' = NoRequest
  /\ Witness
  /\ \E a \in {"ok", "failed"} : Answer(r, a)
  /\ UNCHANGED <<brains, services, assets, ask, mine>>

(* deleteQueryPath: one statement.                                          *)
Erase(r) ==
  /\ pc[r] = "erase"
  /\ \/ /\ Current(r) /\ path.version = mine[r].version /\ lock = NoRequest
        /\ path' = NoPath
        /\ Witness
        /\ Answer(r, "ok")
     \/ /\ ~(Current(r) /\ path.version = mine[r].version)
        /\ Answer(r, "conflict")
        /\ UNCHANGED <<path, seen>>
  /\ UNCHANGED <<brains, services, assets, lock, created, ask, mine>>

-----------------------------------------------------------------------------
(* pullQueryPath and sendQueryPath on the configuration they have read,     *)
(* with the nodes as they are found now.  The execution refers to the path, *)
(* so a path that is gone fails its insert.                                 *)
CallContext(r) ==
  [ContextOf(mine[r]) EXCEPT !.brains = brains, !.services = services]

(* Seeded fault: a send does not ask whether the path is enabled.           *)
RunAtAnyState(r) ==
  /\ pc[r] = "run"
  /\ LET result == ExecuteRoute(mine[r].config, CallContext(r), ask[r].call)
     IN  Answer(r, IF result.code = "ok" THEN "delivered" ELSE "refused")
  /\ UNCHANGED <<store, ask, mine, seen>>

Run(r) ==
  /\ pc[r] = "run"
  /\ LET call   == ask[r].call
         result == ExecuteRoute(mine[r].config, CallContext(r), call)
     IN  Answer(r, IF Is(r, {"send"}) /\ ~Enabled(mine[r].config) THEN "disabled"
                   ELSE IF call.initiator \notin brains THEN "refused"
                   ELSE IF ~Current(r) THEN "failed"
                   ELSE IF result.code = "ok" THEN "delivered" ELSE "refused")
  /\ UNCHANGED <<store, ask, mine, seen>>

(* A statement fails, or the server stops: a transaction is rolled back.    *)
Fails(r) ==
  /\ pc[r] \notin {"start"} \cup Ended
  /\ Rollback(r, "failed")

-----------------------------------------------------------------------------
(* Deletions wait for a transaction that refers to the row, and for one     *)
(* that has deleted the references they would cascade to.                   *)
Deletable(x) ==
  /\ \A r \in Requests : pc[r] = "commit" => x \notin References(mine[r].config)
  /\ (path # NoPath /\ x \in References(path.config)) =>
        \A r \in Requests : pc[r] # "commit"

(* The primary key admits one row for x.                                    *)
Without(list, x) == RemoveFirst(list, x)

Cascade(x) ==
  IF path = NoPath THEN UNCHANGED <<path, seen>>
  ELSE /\ path' = [path EXCEPT !.config.assets = Without(@, x),
                               !.config.brainGrants = Without(@, x),
                               !.config.serviceGrants = Without(@, x)]
       /\ Witness

(* deleteAsset and block_asset_delete_when_enabled.                         *)
DeleteAsset(a) ==
  /\ a \in DOMAIN assets /\ Deletable(a)
  /\ path # NoPath /\ Enabled(path.config) => a \notin Range(path.config.assets)
  /\ assets' = Restrict(assets, DOMAIN assets \ {a})
  /\ Cascade(a)
  /\ UNCHANGED <<brains, services, lock, created, ask, pc, mine, answer>>

(* deleteService; a hop's foreign key restricts it at every state.          *)
DeleteService(s) ==
  /\ s \in services /\ Deletable(s)
  /\ path # NoPath => s \notin Hops(path.config)
  /\ services' = services \ {s}
  /\ Cascade(s)
  /\ UNCHANGED <<brains, assets, lock, created, ask, pc, mine, answer>>

(* deleteBrain of another Brain than the source; so does a destination's.   *)
DeleteBrain(b) ==
  /\ b \in brains \ {Source} /\ Deletable(b)
  /\ path # NoPath => b \notin Fixed(path.config)
  /\ brains' = brains \ {b}
  /\ Cascade(b)
  /\ UNCHANGED <<services, assets, lock, created, ask, pc, mine, answer>>

(* uploadAsset with overwrite=true, which asks no path.                     *)
OverwriteAsset(a) ==
  /\ a \in DOMAIN assets
  /\ \E to \in AssetChoices :
       /\ to.brain = assets[a].brain /\ to # assets[a]
       /\ assets' = [assets EXCEPT ![a] = to]
  /\ UNCHANGED <<path, brains, services, lock, created, ask, pc, mine, answer, seen>>

-----------------------------------------------------------------------------
Load(r) ==
  \/ LoadRow(r) \/ LoadAssets(r) \/ LoadBrainGrants(r) \/ LoadServiceGrants(r)
  \/ LoadRoute(r) \/ LoadHops(r)

Handle(r) ==
  \/ Submit(r) \/ Address(r) \/ ResolveEnabled(r) \/ Load(r) \/ MergePatch(r)
  \/ ListRegistry(r) \/ Validate(r) \/ BeginWrite(r) \/ InsertRelations(r)
  \/ Commit(r) \/ Erase(r) \/ Run(r)

Next ==
  \/ \E r \in Requests : Handle(r) \/ Fails(r)
  \/ \E a \in Assets : DeleteAsset(a) \/ OverwriteAsset(a)
  \/ \E s \in Services : DeleteService(s)
  \/ \E b \in Brains : DeleteBrain(b)

Spec == Init /\ [][Next]_vars

-----------------------------------------------------------------------------
TypeOK ==
  /\ path = NoPath \/ /\ path.id = created /\ path.version \in Nat \ {0}
                      /\ path.config \in Configuration
  /\ brains \subseteq Brains /\ services \subseteq Services
  /\ DOMAIN assets \subseteq Assets
  /\ \A a \in DOMAIN assets : assets[a] \in AssetChoices
  /\ lock \in Requests \cup {NoRequest}
  /\ created \in Nat
  /\ ask \in [Requests -> Asks]
  /\ pc \in [Requests -> Steps]
  /\ \A r \in Requests : mine[r].config \in Configuration
  /\ answer \in [Requests -> {"none", "ok", "failed", "invalid", "conflict", "name_exists",
                              "not_found", "disabled", "refused", "delivered"}]
  /\ \A r \in Requests : \A p \in seen[r] \ {NoPath} : p.config \in Configuration
  /\ \A r \in Requests : pc[r] \in InTx <=> lock = r

(* The stored path never refers to what is gone, and while it is enabled it *)
(* has an owned asset, a route, and on a private path the grants that its   *)
(* route needs: validation, which runs before the transaction, is held up   *)
(* by its foreign keys and by the triggers that guard deletions.            *)
StoredPathIsComplete ==
  path # NoPath => Complete(path.config, brains, services, assets)

(* No update is lost: a new version is the version before it with exactly   *)
(* one request's patch applied, the one that its client saw.                *)
PatchesCompose ==
  [][path # NoPath /\ path' # NoPath /\ path'.id = path.id /\ path'.version # path.version =>
       /\ path'.version = path.version + 1
       /\ \E r \in Requests :
            /\ ask[r].op = "patch" /\ pc[r] = "commit" /\ mine[r].version = path.version
            /\ path'.config = Merge(path.config, ask[r].patch)]_vars

Served(r) == answer[r] = "delivered"

(* Nothing is served of a path that was not enabled at any time while the   *)
(* request ran, nor an asset that was in its scope at no such time.         *)
ServesWhatWasScoped ==
  \A r \in Requests : Served(r) =>
    /\ \E p \in seen[r] \ {NoPath} : Enabled(p.config)
    /\ \A a \in Range(mine[r].config.assets) :
         \E p \in seen[r] \ {NoPath} : a \in Range(p.config.assets)

(* One configuration scopes all that a request was served, has the route    *)
(* that it took, and permits it.                                            *)
ServedUnder(r, c) ==
  /\ Enabled(c)
  /\ Range(mine[r].config.assets) \subseteq Range(c.assets)
  /\ mine[r].config.route = c.route
  /\ \E d \in Brains : Permitted(c, CallContext(r), ask[r].call, d)

(* A request that no change overlapped was served exactly what was stored.  *)
UndisturbedRequestsAreExact ==
  \A r \in Requests : \A p \in seen[r] :
    Served(r) /\ seen[r] = {p} =>
      ServedUnder(r, p.config) /\ mine[r].config.assets = p.config.assets

(* application/models.go calls what LoadQueryPathConfig returns "a          *)
(* resolved, point-in-time query-path configuration": then there would be   *)
(* one stored configuration that permits all that a request is served.      *)
ServedUnderOneConfiguration ==
  \A r \in Requests :
    Served(r) => \E p \in seen[r] \ {NoPath} : ServedUnder(r, p.config)
=============================================================================
