------------------------------ MODULE Workspace ------------------------------
(***************************************************************************)
(* The rest of the server: requests made in sessions create, delete and    *)
(* arrange nodes, connect apps, chat, and read objects, beside each other  *)
(* and across restarts of the process.  Sessions, Nodes, Canvas,           *)
(* AppConnections, Chat and Objects hold the handlers' steps; this module  *)
(* composes them.                                                          *)
(***************************************************************************)
EXTENDS Canvas, AppConnections, Chat, Objects

vars == <<apiVars, sessionVars, nodeVars, canvasVars, appVars, chatVars, objectVars>>

Ops == DOMAIN FirstStep \cup DOMAIN Started

ASSUME AsksAreTyped ==
  \A x \in Mixes : \A r \in Requests :
    LET a == x.asks[r] IN
    /\ a.op \in Ops
    /\ a.op = "signIn" => a.user \in Users
    /\ a.op \in DOMAIN SecondStep \cup {"createNode"} => a.node \in STRING
    /\ a.op \in {"connect", "disconnect"} => a.app \in STRING
    /\ a.op = "put" =>
         a.size \in Nat /\ \A f \in x.rows : a.path \in DOMAIN f => f[a.path] = a.size

Init ==
  /\ ApiInit /\ SessionsInit /\ NodesInit
  /\ CanvasInit /\ AppsInit /\ ChatInit /\ ObjectsInit

(* A step of the handlers of one module leaves what the others keep.        *)
Handle(r) ==
  \/ SessionStep(r) /\ UNCHANGED <<nodeVars, canvasVars, appVars, chatVars, objectVars>>
  \/ NodeStep(r) /\ UNCHANGED <<sessionVars, canvasVars, appVars, chatVars, objectVars>>
  \/ CanvasStep(r) /\ UNCHANGED <<sessionVars, appVars, chatVars, objectVars>>
  \/ AppStep(r) /\ UNCHANGED <<sessionVars, canvasVars, chatVars, objectVars>>
  \/ ChatStep(r) /\ UNCHANGED <<sessionVars, canvasVars, appVars, objectVars>>
  \/ BeginPair(r) /\ UNCHANGED <<sessions, caller, lastSeen, canvasVars, appVars, objectVars>>
  \/ ObjectStep(r) /\ UNCHANGED <<sessionVars, canvasVars, appVars, chatVars>>

Delete(r) ==
  /\ ~Keeps(target[r])
  /\ DeleteNode(r)
  /\ Cascade
  /\ UNCHANGED <<sessionVars, canvasVars, appVars, objectVars>>

(* A statement fails, or the client gives up: what was begun is rolled back.*)
Fails(r) ==
  /\ pc[r] # "done"
  /\ Ends(r, "failed")
  /\ RolledBack(r)
  /\ UNCHANGED <<quiet, sessionVars, nodeVars, canvasVars, appVars, objectVars>>

(* The server stops and is started again, perhaps with other limits: every  *)
(* request that it had begun ends, and what only the process kept is gone.  *)
Running == {r \in Requests : pc[r] \notin {"session", "signIn", "put", "drop", "done"}}

Restart ==
  /\ mix.restarts
  /\ pc' = [r \in Requests |-> IF r \in Running THEN "done" ELSE pc[r]]
  /\ answer' = [r \in Requests |-> IF r \in Running THEN "failed" ELSE answer[r]]
  /\ draft' = [r \in Requests |-> {}]
  /\ CanvasLost /\ AppsLost
  /\ limits' \in Loaded
  /\ UNCHANGED <<mix, quiet, sessionVars, nodeVars, messages, prompt, written,
                 rows, objects, body, got>>

Elapse == Tick /\ UNCHANGED <<sessionVars, nodeVars, canvasVars, appVars, chatVars, objectVars>>

Reroute ==
  \E rt \in mix.routes :
    /\ PatchPath(rt) /\ Replaced(rt)
    /\ UNCHANGED <<sessionVars, canvasVars, chatVars, objectVars>>

Next ==
  \/ \E r \in Requests : Handle(r) \/ Delete(r) \/ Fails(r)
  \/ Restart \/ Elapse \/ Reroute

Spec == Init /\ [][Next]_vars

-----------------------------------------------------------------------------
InSession == {"session", "clock", "touch"}

(* The steps that a request of each kind may come to.                       *)
StepsOf ==
  [signIn |-> {"signIn", "insertSession", "audit"}, signOut |-> InSession \cup {"signOut"},
   createNode |-> InSession \cup {"create", "audit"},
   deleteNode |-> InSession \cup {"owner", "delete", "audit"},
   addNode |-> InSession \cup {"resolve", "add"},
   removeNode |-> InSession \cup {"resolve", "remove"},
   listApps |-> InSession \cup {"owner", "routes", "hops", "seed", "list"},
   connect |-> InSession \cup {"owner", "routes", "hops", "seed", "choose"},
   disconnect |-> InSession \cup {"owner", "routes", "hops", "seed", "choose"},
   getChat |-> InSession \cup {"owner", "history"},
   postChat |-> InSession \cup {"owner", "history", "model", "begin", "question", "answer",
                               "commit", "audit", "auditFailure"},
   clearChat |-> InSession \cup {"owner", "clear"},
   preview |-> InSession \cup {"owner", "asset", "get", "read"},
   download |-> InSession \cup {"owner", "asset", "get", "read"},
   put |-> {"put"}, drop |-> {"drop"}, none |-> {}]

Limits == [file: 1..Ceiling, payload: 1..Ceiling]

Steps == {"done"} \cup UNION {StepsOf[op] : op \in Ops}

Answers ==
  {"none", "ok", "failed", "cut", "too_big", "provider_error", "not_found",
   "not_authenticated", "not_authorized"} \cup Range(DatabaseError)

EventRow == [type: Ops \cup {"chat.failed"}, by: Requests, node: Nat]

FrameOK ==
  /\ mix \in Mixes /\ now \in Nat
  /\ pc \in [Requests -> Steps] /\ answer \in [Requests -> Answers]
  /\ \A r \in Requests : pc[r] \in StepsOf[ask[r].op] \cup {"done"}
  /\ tries \in [Requests -> 0..1]
  /\ events \subseteq EventRow

SessionsOK ==
  /\ DOMAIN sessions \subseteq Tokens /\ sessions \in [DOMAIN sessions -> Session]
  /\ caller \in [Requests -> Users]
  /\ lastSeen \in [Requests -> Nat] /\ at \in [Requests -> Nat]

NodesOK ==
  /\ minted \in Nat /\ target \in [Requests -> 0..minted]
  /\ DOMAIN nodes \subseteq 1..minted
  /\ nodes \in [DOMAIN nodes -> [name: STRING, owner: Users]]
  /\ routes \subseteq mix.routes

CanvasOK == added \cup removed \subseteq Users \X STRING /\ hidden \subseteq Users \X Nat

AppsOK ==
  /\ connected \subseteq Nat \X STRING /\ initialized \subseteq Nat
  /\ listed \in [Requests -> SUBSET mix.routes]
  /\ routed \in [Requests -> SUBSET STRING] /\ shown \in [Requests -> Seq(BOOLEAN)]

ChatOK ==
  /\ messages \subseteq Message /\ draft \in [Requests -> SUBSET Message]
  /\ prompt \in [Requests -> Seq(Message)] /\ written \subseteq Requests

ObjectsOK ==
  /\ limits \in Limits /\ rows \in mix.rows
  /\ body \in [Requests -> [want: Nat, size: Nat, under: Limits]]
  /\ got \in [Requests -> Nat]

(* Every request is at a step of the handler it is for, no record id is     *)
(* invented, and no limit is out of bounds, whatever the settings say.      *)
TypeOK ==
  FrameOK /\ SessionsOK /\ NodesOK /\ CanvasOK /\ AppsOK /\ ChatOK /\ ObjectsOK

(* See SessionAdvances.                                                     *)
SessionsAdvance == [][\A token \in Tokens : SessionAdvances(token)]_sessions

(* See ChoiceStands.                                                        *)
ChoicesStand ==
  [][\A id \in 1..minted, app \in Range(Catalog) : ChoiceStands(id, app)]_appVars

(* See PromptIsInOrder: it holds of the list that a request has just read.  *)
PromptsAreInOrder ==
  [][\A r \in Requests : prompt'[r] # prompt[r] =>
       PromptIsInOrder(prompt'[r], Conversation(target[r], caller[r]))]_prompt

(* A session that r opened for its user: it is there, or was signed out.    *)
Opened(r) ==
  \/ r \in DOMAIN sessions /\ sessions[r].user = ask[r].user
  \/ \E s \in Requests : Is(s, {"signOut"}) /\ ask[s].token = r /\ answer[s] = "ok"

(* A node that r made: if it is still there, as r asked for it.             *)
Made(r, id) ==
  /\ id \in 1..minted \ DOMAIN InitialNodes
  /\ id \in DOMAIN nodes => nodes[id] = NodeRow(r)

(* The audit says only what is so: a session was opened for the user that   *)
(* signed in, a node was made by the request and by no other, or is gone, a *)
(* pair was stored or none was.                                             *)
EventsAreTrue ==
  /\ \A e \in events :
       /\ e.type = "signIn" => Opened(e.by)
       /\ e.type = "createNode" => Made(e.by, e.node)
       /\ e.type = "deleteNode" => e.node \in 1..minted \ DOMAIN nodes
       /\ e.type = "postChat" => e.by \in written
       /\ e.type = "chat.failed" => e.by \notin written
  /\ \A e, f \in events :
       e.type = "createNode" /\ f.type = "createNode" /\ e.node = f.node => e.by = f.by

(* InsertAuditEvent asks to be called on a transaction-bound Store when it  *)
(* accompanies a business mutation: what a request has changed when it ends *)
(* is then in the audit.                                                    *)
Changed(r) ==
  \/ Is(r, {"signIn"}) /\ r \in DOMAIN sessions
  \/ Is(r, {"createNode"}) /\ target[r] \in DOMAIN nodes
  \/ r \in written

ChangesAreAudited ==
  \A r \in Requests : pc[r] = "done" /\ Changed(r) =>
    \E e \in events : e.by = r /\ e.type = ask[r].op

-----------------------------------------------------------------------------
(* What makes the invariants inductive.                                     *)

(* No route runs through a node that is gone, and no request has listed one *)
(* that is no more.                                                         *)
RoutesStand ==
  /\ Len(InitialNodes) <= minted
  /\ \A rt \in mix.routes :
       rt.source \in DOMAIN nodes => {rt.destination} \cup rt.hops \subseteq DOMAIN nodes
  /\ \A rt \in routes : rt.source \in DOMAIN nodes
  /\ \A r \in Requests : listed[r] \subseteq routes

(* A sign-in has no session before it stores its user's.                    *)
SessionsStand ==
  \A r \in Requests :
    /\ pc[r] \in {"signIn", "insertSession"} => r \notin DOMAIN sessions
    /\ pc[r] = "insertSession" => caller[r] = ask[r].user

(* A transaction has inserted what its request has come to.                 *)
DraftStands(r) ==
  IF pc[r] = "answer" THEN \E i \in Ids(r, "user") : draft[r] = {Row(r, "user", i)}
  ELSE IF pc[r] = "commit"
    THEN \E i \in Ids(r, "user"), j \in Ids(r, "assistant") :
           draft[r] = {Row(r, "user", i), Row(r, "assistant", j)}
  ELSE draft[r] = {}

(* Each row has an id of its own, and a post no more than two.              *)
MessagesStand ==
  /\ IsFiniteSet(messages)
  /\ \A m \in messages :
       IF m.post \in Requests THEN m.post \in written /\ m.id \in Ids(m.post, m.role)
       ELSE \A r \in Requests, role \in {"user", "assistant"} : m.id \notin Ids(r, role)
  /\ \A m, n \in messages : m.id = n.id \/ (m.post = n.post /\ m.role = n.role) => m = n

(* What an event is about to say is so already.                             *)
EventStands(r) ==
  /\ r \in written => Is(r, {"postChat"}) /\ pc[r] \in {"audit", "done"}
  /\ pc[r] = "delete" => target[r] # 0
  /\ pc[r] = "audit" =>
       /\ Is(r, {"signIn"}) => Opened(r)
       /\ Is(r, {"postChat"}) => r \in written
       /\ Is(r, {"createNode"}) => target[r] # 0
       /\ Is(r, {"deleteNode"}) => target[r] \in 1..minted \ DOMAIN nodes

Makes(r) == Is(r, {"createNode"}) /\ target[r] # 0

(* A request that has a node to name made it, and no other did.             *)
MakersStand ==
  /\ \A r \in Requests : Makes(r) => pc[r] \in {"audit", "done"} /\ Made(r, target[r])
  /\ \A r, q \in Requests : Makes(r) /\ Makes(q) /\ target[r] = target[q] => r = q

EventsStand ==
  /\ \A r \in Requests : EventStands(r)
  /\ MakersStand
  /\ \A e \in events :
       /\ pc[e.by] = "done"
       /\ e.type = "createNode" => Makes(e.by) /\ e.node = target[e.by]

(* A node that a name hides had that name, was another owner's, and is not  *)
(* younger than the one that has the name now.                              *)
Hides(id, user, name) ==
  /\ id \in 1..minted
  /\ \A i \in DOMAIN nodes :
       /\ nodes[i].name = name => id <= i
       /\ i = id => nodes[i].name = name /\ nodes[i].owner # user

CanvasStands ==
  /\ \A i, j \in DOMAIN nodes : nodes[i].name = nodes[j].name => i = j
  /\ \A c \in removed : \E j \in 1..minted : <<c[1], j>> \in hidden /\ Hides(j, c[1], c[2])
  /\ \A c \in hidden : c[2] <= minted /\ (c[2] \in DOMAIN nodes => nodes[c[2]].owner # c[1])
  /\ \A r \in Requests : pc[r] = "remove" => Hides(target[r], caller[r], ask[r].node)

(* A response is read under the limits and to the length it was asked for   *)
(* with.                                                                    *)
ReadStands(r) ==
  /\ pc[r] # "done" => answer[r] = "none"
  /\ pc[r] \notin {"read", "done"} => got[r] = 0
  /\ pc[r] \in {"get", "read"} =>
       /\ body[r].under = limits
       /\ IF Is(r, {"preview"}) THEN body[r].want = limits.file + 1
          ELSE ask[r].path \in DOMAIN rows /\ body[r].want = rows[ask[r].path]
  /\ pc[r] = "read" =>
       /\ got[r] <= body[r].want /\ got[r] <= body[r].size
       /\ Is(r, {"download"}) => body[r].size = body[r].want

ReadsStand ==
  /\ \A r \in Requests : ReadStands(r)
  /\ \A p \in DOMAIN objects : objects[p] \in Nat /\ (p \in DOMAIN rows => objects[p] = rows[p])

IInv ==
  /\ TypeOK /\ RoutesStand /\ SessionsStand /\ EventsStand /\ CanvasStands /\ ReadsStand
  /\ \A r \in Requests : DraftStands(r)
  /\ MessagesStand
  /\ PairsAreWhole /\ EventsAreTrue /\ ReadsAreWhole
=============================================================================
