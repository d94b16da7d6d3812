----------------------------- MODULE PolicyRules -----------------------------
(***************************************************************************)
(* Who may have a query path's data: ValidateConfiguration, which judges a *)
(* configuration when its owner saves it, ResolveTerminal and Authorize,   *)
(* which judge each request when it runs (routes/policy.go), and the rest  *)
(* of what executeRoute asks before anything is delivered.                 *)
(*                                                                         *)
(* These are pure functions.  RoutePolicy is about whether they agree, and *)
(* QueryPaths about what changes between the calls of one and another.     *)
(***************************************************************************)
EXTENDS Integers, Sequences, Functions

CONSTANTS
  Brains,          (* well-formed Brain canonical IDs                      *)
  Services,        (* well-formed Service canonical IDs                    *)
  Assets,          (* asset UUIDs                                          *)
  NoBrain,         (* the empty canonical ID                               *)
  NoRoute,         (* a configuration without a route                      *)
  MaxRouteHops     (* application.MaxRouteHops                             *)

Operations   == {"raw_read", "text_search", "csv_query"}
Visibilities == {"public", "private"}
States       == {"draft", "enabled", "disabled"}
Terminals    == Brains \cup {"caller"}

(* An asset as the policy and the query engine see it.  Classify calls a CSV*)
(* file ready though its header repeats a column or leaves one blank, and   *)
(* acceptTransfer calls ready whatever it is sent, unclassified: a text that*)
(* is no UTF-8 or a CSV file that is malformed is "unreadable".             *)
Asset ==
  [brain: Brains, format: {"text", "markdown", "csv", "binary"},
   state: {"uploading", "ready", "parse_failed", "upload_failed"},
   content: {"sound", "repeated", "blank", "unreadable"}]

(* path tells whether the path is well formed, and if so, who has it.       *)
Configuration ==
  [path: {"malformed", "free", "own", "other"},
   assets: Seq(Assets), operations: Seq(Operations \cup {"unknown"}),
   visibility: Visibilities \cup {"unknown"}, state: States \cup {"unknown"},
   brainGrants: Seq(Brains), serviceGrants: Seq(Services),
   route: {NoRoute} \cup [hops: Seq(Services), terminal: Terminals \cup {NoBrain}]]

Context ==
  [source: Brains \cup {NoBrain}, owned: BOOLEAN, brains: SUBSET Brains,
   services: SUBSET Services, assets: UNION {[A -> Asset] : A \in SUBSET Assets},
   maxHops: Int]

Call == [mode: {"pull", "push"}, initiator: Brains, owned: BOOLEAN,
         operation: Operations]

ASSUME ConstantsAreTyped ==
  /\ MaxRouteHops \in Nat \ {0}
  /\ NoBrain \notin Brains \cup Services \cup {"caller"}
  /\ "caller" \notin Brains
  /\ NoRoute \notin [hops: Seq(Services), terminal: Terminals \cup {NoBrain}]

-----------------------------------------------------------------------------
HopLimit(limit) ==
  IF limit <= 0 \/ limit > MaxRouteHops THEN MaxRouteHops ELSE limit

Repeats(list) == \E i, j \in DOMAIN list : i # j /\ list[i] = list[j]

(* Seeded fault: any text may be searched, a CSV file's too.                *)
AnyTextIsSearchable(op, asset) ==
  \/ op = "raw_read"
  \/ /\ asset.state # "parse_failed"
     /\ \/ op = "text_search" /\ asset.format # "binary"
        \/ op = "csv_query" /\ asset.format = "csv"

(* Raw reading asks nothing of the format; a draft may name an asset that   *)
(* is still uploading.                                                      *)
OperationCompatible(op, asset) ==
  \/ op = "raw_read"
  \/ /\ asset.state # "parse_failed"
     /\ \/ op = "text_search" /\ asset.format \in {"text", "markdown"}
        \/ op = "csv_query" /\ asset.format = "csv"

Enabled(c) == c.state = "enabled"

Known(c, x) == Range(c.assets) \cap DOMAIN x.assets

(* Seeded fault: whose the assets are is not asked.                         *)
ScopeErrorsOfAnyBrain(c, x) ==
  [asset_required  |-> c.assets = <<>>,
   asset_duplicate |-> Repeats(c.assets),
   asset_not_found |-> \E a \in Range(c.assets) : a \notin DOMAIN x.assets]

(* What may be wrong with a configuration, named for its field and code.    *)
ScopeErrors(c, x) ==
  [asset_required  |-> c.assets = <<>>,
   asset_duplicate |-> Repeats(c.assets),
   asset_not_found |-> \E a \in Range(c.assets) : a \notin DOMAIN x.assets,
   asset_wrong_brain |->
     x.source # NoBrain /\ \E a \in Known(c, x) : x.assets[a].brain # x.source]

AvailabilityErrors(c, x) ==
  [asset_parse_failed |->
     /\ Enabled(c) /\ c.operations # <<"raw_read">>
     /\ \E a \in Known(c, x) : x.assets[a].state = "parse_failed",
   asset_unavailable |->
     /\ Enabled(c)
     /\ \E a \in Known(c, x) : x.assets[a].state \notin {"ready", "parse_failed"}]

OperationErrors(c, x) ==
  [operation_required  |-> c.operations = <<>>,
   operation_duplicate |-> Repeats(c.operations),
   operation_unknown   |-> \E op \in Range(c.operations) : op \notin Operations,
   operation_incompatible |->
     \E op \in Range(c.operations) \cap Operations :
       \A a \in Known(c, x) : ~OperationCompatible(op, x.assets[a])]

GrantErrors(c, x) ==
  [visibility_invalid    |-> c.visibility \notin Visibilities,
   brain_grant_duplicate |-> Repeats(c.brainGrants),
   brain_grant_not_found |-> ~(Range(c.brainGrants) \subseteq x.brains),
   service_grant_duplicate |-> Repeats(c.serviceGrants),
   service_grant_not_found |-> ~(Range(c.serviceGrants) \subseteq x.services)]

RouteErrors(c, x) ==
  [hops_too_long    |-> Len(c.route.hops) > HopLimit(x.maxHops),
   hop_not_found    |-> ~(Range(c.route.hops) \subseteq x.services),
   terminal_invalid |-> c.route.terminal \notin x.brains \cup {"caller"},
   missing_route_service |->
     /\ c.visibility = "private" /\ Enabled(c)
     /\ ~(Range(c.route.hops) \subseteq Range(c.serviceGrants)),
   missing_destination |->
     /\ c.visibility = "private" /\ Enabled(c)
     /\ c.route.terminal \in x.brains \ {x.source}
     /\ c.route.terminal \notin Range(c.brainGrants)]

SourceErrors(c, x) ==
  [source_not_found |-> x.source = NoBrain,
   source_not_owned |-> x.source # NoBrain /\ ~x.owned,
   path_invalid     |-> c.path = "malformed",
   path_not_unique  |-> c.path = "other"]

StateErrors(c) ==
  [state_invalid  |-> c.state \notin States,
   route_required |-> Enabled(c) /\ c.route = NoRoute]

Raised(errors) == {e \in DOMAIN errors : errors[e]}

ValidateConfiguration(c, x) ==
  Raised(ScopeErrors(c, x)) \cup Raised(AvailabilityErrors(c, x))
    \cup Raised(OperationErrors(c, x)) \cup Raised(GrantErrors(c, x))
    \cup Raised(SourceErrors(c, x)) \cup Raised(StateErrors(c))
    \cup (IF c.route = NoRoute THEN {} ELSE Raised(RouteErrors(c, x)))

-----------------------------------------------------------------------------
Refuse(code)   == [code |-> code, destination |-> NoBrain]
Resolve(brain) == [code |-> "ok", destination |-> brain]

(* Seeded fault: a pull need not come from the fixed destination.           *)
ResolveForAnyone(mode, terminal, source, initiator) ==
  IF terminal = "caller"
    THEN IF mode = "push" THEN Refuse("ROUTE_INVALID") ELSE Resolve(initiator)
  ELSE IF mode = "push" /\ initiator # source THEN Refuse("NOT_AUTHORIZED")
  ELSE Resolve(terminal)

(* The destination of a request; its caller never supplies one.             *)
ResolveTerminal(mode, terminal, source, initiator) ==
  IF mode \notin {"pull", "push"} THEN Refuse("ROUTE_INVALID")
  ELSE IF terminal = "caller"
         THEN IF mode = "push" \/ initiator = NoBrain
                THEN Refuse("ROUTE_INVALID")
                ELSE Resolve(initiator)
  ELSE IF terminal \notin Brains THEN Refuse("ROUTE_INVALID")
  ELSE IF mode = "pull" /\ initiator # terminal THEN Refuse("DESTINATION_MISMATCH")
  ELSE IF mode = "push" /\ initiator # source THEN Refuse("NOT_AUTHORIZED")
  ELSE Resolve(terminal)

(* in: the AuthorizationInput that executeRoute makes of path and request.  *)
Authorize(in) ==
  LET resolved == ResolveTerminal(in.mode, in.terminal, in.source, in.initiator)
      principals == {in.initiator, resolved.destination} \ {in.source}
  IN
  IF ~in.initiatorOwned THEN Refuse("INITIATOR_NOT_OWNED")
  ELSE IF ~in.initiatorRegistered THEN Refuse("NODE_NOT_FOUND")
  ELSE IF Len(in.hops) > HopLimit(in.maxHops) THEN Refuse("ROUTE_TOO_LONG")
  ELSE IF resolved.code # "ok" \/ in.visibility = "public" THEN resolved
  ELSE IF in.visibility # "private" THEN Refuse("ROUTE_INVALID")
  ELSE IF principals \subseteq in.brainGrants /\ Range(in.hops) \subseteq in.serviceGrants
         THEN resolved
         ELSE Refuse("PRINCIPAL_NOT_AUTHORIZED")

AuthorizationInput(c, x, call) ==
  [mode |-> call.mode, visibility |-> c.visibility, source |-> x.source,
   initiator |-> call.initiator, initiatorOwned |-> call.owned,
   initiatorRegistered |-> TRUE, terminal |-> c.route.terminal,
   brainGrants |-> Range(c.brainGrants), serviceGrants |-> Range(c.serviceGrants),
   hops |-> c.route.hops, maxHops |-> x.maxHops]

(* query.Execute of a query for what the files have: raw_read never fails,  *)
(* a search or a CSV query needs one asset that it does not skip, and every *)
(* CSV file that is read needs columns that are named and told apart.       *)
Searchable(asset) ==
  asset.state = "ready" /\ asset.format \in {"text", "markdown"} /\ asset.content # "unreadable"

Tabular(asset) == asset.state = "ready" /\ asset.format = "csv"

Queryable(op, asset) == IF op = "text_search" THEN Searchable(asset) ELSE Tabular(asset)

(* queryCSVAsset, of an asset that csvQuery does not skip.                  *)
HasColumns(asset) == asset.content = "sound"

Execute(op, assets) ==
  LET usable == {a \in assets : Queryable(op, a)} IN
  IF \/ op = "raw_read"
     \/ /\ usable # {}
        /\ op = "csv_query" => \A a \in usable : HasColumns(a)
    THEN "ok"
    ELSE "QUERY_INVALID"

Readable(op, asset) ==
  \/ asset.state = "ready"
  \/ asset.state = "parse_failed" /\ op = "raw_read"

(* What executeRoute answers a request on an enabled path when storage and  *)
(* database do not fail and no limit on sizes is met.                       *)
ExecuteRoute(c, x, call) ==
  LET authorization == Authorize(AuthorizationInput(c, x, call))
      scoped == {x.assets[a] : a \in Range(c.assets)}
  IN
  IF ~call.owned THEN Refuse("INITIATOR_NOT_OWNED")
  ELSE IF c.route = NoRoute THEN Refuse("ROUTE_INVALID")
  ELSE IF call.operation \notin Range(c.operations) THEN Refuse("OPERATION_NOT_ALLOWED")
  ELSE IF ~(Range(c.route.hops) \subseteq x.services) THEN Refuse("ROUTE_INVALID")
  ELSE IF c.route.terminal \notin x.brains \cup {"caller"} THEN Refuse("ROUTE_INVALID")
  ELSE IF authorization.code # "ok" THEN authorization
  ELSE IF \E a \in scoped : ~Readable(call.operation, a) THEN Refuse("ASSET_UNAVAILABLE")
  ELSE IF Execute(call.operation, scoped) # "ok"
         THEN Refuse(Execute(call.operation, scoped))
  ELSE authorization

-----------------------------------------------------------------------------
(* What may be delivered, stated without the order of Authorize's checks:   *)
(* a push goes from the source to the fixed terminal, a pull to its caller, *)
(* and on a private path everyone who gets to see the data is the source or *)
(* was granted it.                                                          *)
Permitted(c, x, q, destination) ==
  /\ q.owned
  /\ destination = IF q.mode = "pull" THEN q.initiator ELSE c.route.terminal
  /\ c.route.terminal \in {"caller", destination} /\ destination \in Brains
  /\ q.mode = "push" => q.initiator = x.source
  /\ c.visibility = "private" =>
       /\ {q.initiator, destination} \subseteq {x.source} \cup Range(c.brainGrants)
       /\ \A i \in DOMAIN c.route.hops :
            \E j \in DOMAIN c.serviceGrants : c.serviceGrants[j] = c.route.hops[i]
=============================================================================
