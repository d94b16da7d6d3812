----------------------------- MODULE MCWorkspace -----------------------------
(* An instance of Workspace: three requests of two users, in the mixes in   *)
(* which they meet.                                                         *)
EXTENDS Workspace

Maya  == -1
Atlas == -2
StoredSessions == [t \in {Maya, Atlas} |->
  [user |-> IF t = Maya THEN "maya" ELSE "atlas", seen |-> 0, expires |-> 3]]

StoredNodes ==
  <<[name |-> "brain.maya", owner |-> "maya"], [name |-> "brain.atlas", owner |-> "atlas"],
    [name |-> "service.notion", owner |-> "atlas"],
    [name |-> "service.pii-scan", owner |-> "atlas"]>>

AppList == <<"service.notion", "app.slack">>

Old(role, id)  == [post |-> 0, role |-> role, at |-> -1, node |-> 1, user |-> "maya", id |-> id]
StoredMessages == {Old("user", 9), Old("assistant", -9)}

BuiltInLimits  == [file |-> 2, payload |-> 3]

On(node, op) == [op |-> op, token |-> Maya, node |-> node]
Mine(op)     == On("brain.maya", op)
App(op, app) == [op |-> op, token |-> Maya, node |-> "brain.maya", app |-> app]
File(op)     == [op |-> op, token |-> Maya, node |-> "brain.maya", path |-> "o1"]
ByAtlas(a)   == [a EXCEPT !.token = Atlas]
None         == [op |-> "none"]
SignIn1      == [op |-> "signIn", user |-> "maya"]
SignOut1(t)  == [op |-> "signOut", token |-> t]

Mix(a, b, c) ==
  [asks |-> <<a, b, c>>, until |-> 0, routes |-> {}, settings |-> {0}, rows |-> {<<>>},
   stored |-> TRUE, restarts |-> FALSE]
Timed(n, m)     == [m EXCEPT !.until = n]
Restarted(m)    == [m EXCEPT !.restarts = TRUE]
AppMix(a, b, c) ==
  [Restarted(Mix(a, b, c)) EXCEPT !.routes = {[source |-> 1, destination |-> 2, hops |-> {3}]}]
ObjectMix(a, b, c) ==
  [Restarted(Mix(a, b, c)) EXCEPT !.settings = {0, 1, 4}, !.rows = {[p \in {"o1"} |-> n] : n \in 0..3}]

AllMixes ==
  {Timed(3, Mix(Mine("addNode"), Mine("addNode"), SignOut1(Maya))),
   Timed(2, Mix(SignIn1, [Mine("addNode") EXCEPT !.token = 1], SignOut1(1))),
   Mix(On("brain.atlas", "removeNode"), ByAtlas(On("brain.atlas", "deleteNode")),
       On("brain.atlas", "createNode")),
   Mix(On("brain.new", "createNode"), ByAtlas(On("brain.new", "createNode")),
       On("brain.new", "deleteNode")),
   Restarted(Mix(On("brain.atlas", "removeNode"), On("brain.atlas", "addNode"),
                 Mine("removeNode"))),
   Restarted(Mix(On("service.pii-scan", "removeNode"), On("service.pii-scan", "addNode"),
                 ByAtlas(On("service.pii-scan", "addNode")))),
   AppMix(Mine("deleteNode"), Mine("deleteNode"), ByAtlas(Mine("createNode"))),
   AppMix(ByAtlas(On("service.notion", "deleteNode")), Mine("deleteNode"), Mine("listApps")),
   AppMix(App("connect", "service.notion"), App("disconnect", "service.notion"), Mine("listApps")),
   AppMix(App("disconnect", "service.notion"), App("connect", "app.slack"), Mine("deleteNode")),
   Timed(1, Mix(Mine("postChat"), Mine("postChat"), Mine("clearChat"))),
   Timed(1, Mix(Mine("postChat"), Mine("getChat"), Mine("clearChat"))),
   Timed(1, Mix(Mine("postChat"), Mine("postChat"), Mine("deleteNode"))),
   ObjectMix(File("preview"), File("download"), None),
   [ObjectMix(File("download"), [op |-> "drop", path |-> "o1"], None)
      EXCEPT !.rows = @ \cup {<<>>}],
   ([ObjectMix([op |-> "put", path |-> "o1", size |-> 3], File("download"), None)
      EXCEPT !.rows = {[p \in {"o1"} |-> 3]}, !.stored = FALSE])}
=============================================================================
