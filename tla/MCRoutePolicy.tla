--------------------------- MODULE MCRoutePolicy ---------------------------
(* An instance of RoutePolicy: one trial varies who may have the data,      *)
(* the other the assets and the operations on them.                         *)
EXTENDS RoutePolicy, TLC

UpTo(S, n) == UNION {[1..k -> S] : k \in 0..n}

PolicyContexts ==
  [source: {"brain.maya"}, owned: {TRUE}, brains: {{"brain.maya", "brain.atlas", "brain.noor"}},
   services: {Services}, maxHops: {0, 1},
   assets: {[a \in {"asset.a"} |-> [brain |-> "brain.maya", format |-> "text", state |-> "ready",
                               content |-> "sound"]]}]

PolicyConfigurations ==
  [path: {"free"}, assets: {<<"asset.a">>}, operations: {<<"raw_read">>},
   visibility: Visibilities \cup {"unknown"}, state: {"draft", "enabled"},
   brainGrants: UpTo({"brain.maya", "brain.atlas", "brain.ghost"}, 1) \cup
                {<<"brain.atlas", "brain.noor">>, <<"brain.atlas", "brain.atlas">>},
   serviceGrants: UpTo(Services, 2),
   route: {NoRoute} \cup
          [hops: UpTo(Services, 2) \cup {<<"service.notion", "service.notion", "service.notion">>},
           terminal: Brains \cup {"caller", NoBrain}]]

(* Only a CSV file has a header or fails to parse, only a ready asset is    *)
(* read for what is in it, and one foreign asset stands for any.            *)
AssetChoices ==
  {a \in Asset :
     /\ a.state = "parse_failed" => a.format = "csv"
     /\ a.content # "sound" => a.state = "ready"
     /\ a.content \in {"repeated", "blank"} => a.format = "csv"
     /\ a.content = "unreadable" => a.format # "binary"
     /\ \/ a.brain = "brain.maya"
        \/ a.format = "text" /\ a.state = "ready" /\ a.content = "sound"}

AssetContexts ==
  [source: {"brain.maya"}, owned: {TRUE}, brains: {{"brain.maya"}}, services: {{}},
   maxHops: {0}, assets: UNION {[A -> AssetChoices] : A \in SUBSET Assets}]

AssetConfigurations ==
  [path: {"own", "other"}, assets: UpTo(Assets, 2),
   operations: UpTo(Operations, 2) \cup {<<"unknown">>}, visibility: {"private"},
   state: {"draft", "enabled"}, brainGrants: {<<>>}, serviceGrants: {<<>>},
   route: {NoRoute, [hops |-> <<>>, terminal |-> "caller"]}]

PolicyTrials ==
  {[configurations |-> PolicyConfigurations, contexts |-> PolicyContexts],
   [configurations |-> AssetConfigurations, contexts |-> AssetContexts]}
=============================================================================
