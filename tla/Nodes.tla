-------------------------------- MODULE Nodes --------------------------------
(* Brains and Services: their creation, look-up and deletion (router.go over*)
(* store/nodes.go), the enabled routes that hold them, and the audit events *)
(* that name them.                                                          *)
EXTENDS Sessions

CONSTANT
  InitialNodes  (* the nodes stored at the start, by record id from 1 up   *)

VARIABLES
  nodes,        (* the nodes' rows, by their record id                     *)
  minted,       (* the record ids given out so far                         *)
  routes,       (* the routes of the enabled paths                         *)
  target        (* the record each request has found or made               *)

nodeVars == <<nodes, minted, routes, target>>

ASSUME NodesAreTyped ==
  /\ InitialNodes \in Seq([name: STRING, owner: Users])
  /\ \A i, j \in DOMAIN InitialNodes : InitialNodes[i].name = InitialNodes[j].name => i = j
  /\ \A x \in Mixes : \A rt \in x.routes :
       {rt.source, rt.destination} \cup rt.hops \subseteq DOMAIN InitialNodes

NodesInit ==
  /\ nodes = InitialNodes
  /\ minted = Len(InitialNodes)
  /\ routes \in SUBSET mix.routes
  /\ target = [r \in Requests |-> 0]

(* The canonical id is made of the node's type and its unique slug.         *)
Named(name) == {i \in DOMAIN nodes : nodes[i].name = name}

(* The errors that databaseError tells apart.                               *)
DatabaseError == [unique |-> "name_exists", raised |-> "in_use", other |-> "invalid"]

NodeRow(r) == [name |-> ask[r].node, owner |-> caller[r]]

CreateNode(r) ==
  /\ pc[r] = "create"
  /\ IF Named(ask[r].node) = {}
       THEN /\ minted' = minted + 1
            /\ nodes' = [i \in DOMAIN nodes \cup {minted'} |->
                           IF i = minted' THEN NodeRow(r) ELSE nodes[i]]
            /\ target' = [target EXCEPT ![r] = minted']
            /\ Moves(r, "audit")
       ELSE /\ Ends(r, DatabaseError.unique)
            /\ UNCHANGED <<nodes, minted, target>>
  /\ UNCHANGED <<routes, quiet>>

Found(r, id) ==
  /\ target' = [target EXCEPT ![r] = id]
  /\ Moves(r, SecondStep[ask[r].op])

NotFound(r, a) == Ends(r, a) /\ UNCHANGED target

OwnerBrain(r) ==
  /\ pc[r] = "owner"
  /\ \/ Named(ask[r].node) = {} /\ NotFound(r, "not_found")
     \/ \E id \in Named(ask[r].node) :
          IF nodes[id].owner = caller[r] THEN Found(r, id) ELSE NotFound(r, "not_authorized")
  /\ UNCHANGED <<nodes, minted, routes, quiet>>

(* Triggers keep what an enabled path's route runs through.  Foreign keys   *)
(* keep the destination and the hops of a disabled one too, as long as its  *)
(* source, with which it is deleted, is there.  No transfer is stored here: *)
(* how an accepted one keeps its Brain is in Transfers (DeleteBrain).       *)
Routed(id) == \E rt \in routes : id \in {rt.source, rt.destination} \cup rt.hops

Held(id) ==
  \E rt \in mix.routes : rt.source \in DOMAIN nodes /\ id \in {rt.destination} \cup rt.hops

(* Seeded fault: the error of the deletion is dropped.                      *)
DeleteNodeAnyway(r) ==
  /\ pc[r] = "delete"
  /\ nodes' = IF Routed(target[r]) \/ Held(target[r]) THEN nodes
              ELSE [i \in DOMAIN nodes \ {target[r]} |-> nodes[i]]
  /\ Moves(r, "audit")
  /\ UNCHANGED <<minted, routes, target, quiet>>

(* One statement, by the record that was found.  That it is gone already is *)
(* no error.                                                                *)
DeleteNode(r) ==
  /\ pc[r] = "delete"
  /\ IF Routed(target[r]) \/ Held(target[r])
       THEN /\ Ends(r, IF Routed(target[r]) THEN DatabaseError.raised ELSE DatabaseError.other)
            /\ UNCHANGED nodes
       ELSE /\ nodes' = [i \in DOMAIN nodes \ {target[r]} |-> nodes[i]]
            /\ Moves(r, "audit")
  /\ UNCHANGED <<minted, routes, target, quiet>>

(* A path with a route is patched (QueryPaths): enabled, disabled or left   *)
(* enabled.                                                                 *)
PatchPath(rt) ==
  /\ rt.source \in DOMAIN nodes
  /\ routes' \in {routes \cup {rt}, routes \ {rt}}
  /\ UNCHANGED <<apiVars, nodes, minted, target>>

(* The last call of most handlers: its error is dropped.  What names the    *)
(* node refers to its row, so that the event of a node that has been deleted*)
(* since is lost.                                                           *)
Event(r) == [type |-> IF pc[r] = "auditFailure" THEN "chat.failed" ELSE ask[r].op,
             by |-> r, node |-> target[r]]

Audit(r) ==
  /\ pc[r] \in {"audit", "auditFailure"}
  /\ \/ /\ ask[r].op \in {"createNode", "postChat"} => target[r] \in DOMAIN nodes
        /\ events' = events \cup {Event(r)}
     \/ UNCHANGED events
  /\ Ends(r, IF pc[r] = "audit" THEN "ok" ELSE "provider_error")
  /\ UNCHANGED <<tries, now, nodeVars>>

NodeStep(r) == CreateNode(r) \/ OwnerBrain(r) \/ Audit(r)
=============================================================================
