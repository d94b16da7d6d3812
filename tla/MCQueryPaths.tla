---------------------------- MODULE MCQueryPaths ----------------------------
(* Instances of QueryPaths: a few requests on one path, with the deletions  *)
(* and uploads that may come between their steps.                           *)
EXTENDS QueryPaths, TLC

File(state)   == [brain |-> "brain.maya", format |-> "csv", state |-> state, content |-> "sound"]
ReadyFiles    == {File("ready")}
UploadedFiles == {File("ready"), File("parse_failed")}

Config(state, visibility, scope, granted, hops, terminal) ==
  [path |-> "own", assets |-> scope, operations |-> <<"raw_read", "csv_query">>,
   visibility |-> visibility, state |-> state, brainGrants |-> granted,
   serviceGrants |-> IF hops = <<>> THEN <<>> ELSE <<"service.notion">>,
   route |-> [hops |-> hops, terminal |-> terminal]]

AnyOrder == Permutations(Requests)

Stored(config)  == [id |-> 1, version |-> 1, config |-> config]
Patched(config) == [Stored(config) EXCEPT !.version = 2]

Draft   == Config("draft", "private", <<"asset.a">>, <<"brain.atlas">>, <<"service.notion">>, "caller")
Public  == Config("enabled", "public", <<"asset.a">>, <<>>, <<"service.notion", "service.notion">>, "caller")
Private == Config("enabled", "private", <<"asset.a">>, <<"brain.atlas">>, <<"service.notion">>, "caller")
Fixed1  == Config("draft", "private", <<"asset.a">>, <<"brain.atlas">>, <<>>, "brain.atlas")

Patch(f, v) == [op |-> "patch", patch |-> (f :> v)]

Create  == [op |-> "create", config |-> Private]
Delete  == [op |-> "delete"]
Reroute == Patch("route", [hops |-> <<"service.notion">>, terminal |-> "brain.atlas"])
Enable  == Patch("state", "enabled")
Writers == {Create, Delete, Reroute, Enable, Patch("assets", <<"asset.b">>),
            Patch("brainGrants", <<>>)}

Pull ==
  [op |-> "pull",
   call |-> [mode |-> "pull", initiator |-> "brain.atlas", owned |-> TRUE, operation |-> "raw_read"]]
Send ==
  [op |-> "send",
   call |-> [mode |-> "push", initiator |-> "brain.maya", owned |-> TRUE, operation |-> "raw_read"]]
Readers  == {Pull, Send}
Changers == {Delete, Patch("state", "disabled"), Patch("visibility", "private"),
             Patch("assets", <<"asset.b">>)}

Mix(configs, asks) == [paths |-> {Stored(c) : c \in configs}, asks |-> asks]

(* Reroute and Enable with every writer, with Delete on a path that was     *)
(* patched before; Create with every writer on no path; every reader with   *)
(* every changer, and with Enable.                                          *)
Pairs ==
  {Mix({Draft}, {a, b}) : a \in {Reroute, Enable}, b \in Writers \ {Delete}}
    \cup {[paths |-> {Patched(Draft)}, asks |-> {a, Delete}] : a \in {Reroute, Enable}}
    \cup {Mix({Fixed1}, {Enable, a}) : a \in Writers \ {Create}}
    \cup {[paths |-> {NoPath}, asks |-> {Create, a}] : a \in Writers}
    \cup {Mix({Public, Private}, {a, b}) : a \in Readers, b \in Changers}
    \cup {Mix({Fixed1}, {a, Enable}) : a \in Readers}

Torn == {Mix({Public}, {Pull, Patch("visibility", "private")})}
=============================================================================
