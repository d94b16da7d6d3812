------------------------------- MODULE Canvas -------------------------------
(* Which nodes each user keeps on the canvas: handlers_network_nodes.go.    *)
(* The choices live in the process, by the node's canonical id, under a     *)
(* mutex that the look-up of the node is outside of.                        *)
EXTENDS Nodes

CONSTANT
  DefaultOff (* the names of Services that start off every canvas          *)

VARIABLES
  added,    (* the users and names of nodes added                          *)
  removed,  (* the users and names of nodes removed                        *)
  hidden    (* history: the users and records of nodes removed             *)

canvasVars == <<added, removed, hidden>>

CanvasInit == added = {} /\ removed = {} /\ hidden = {}

Chosen(r) == <<caller[r], ask[r].node>>

(* Seeded fault: whoever owns the node may remove it.                       *)
ResolveAnyNode(r) ==
  /\ pc[r] = "resolve"
  /\ \/ Named(ask[r].node) = {} /\ NotFound(r, "not_found")
     \/ \E id \in Named(ask[r].node) : Found(r, id)
  /\ UNCHANGED <<nodes, minted, routes, quiet, canvasVars>>

(* resolveCanvasNode, and the test of removeCanvasNodeForUser on the row.   *)
ResolveCanvasNode(r) ==
  /\ pc[r] = "resolve"
  /\ \/ Named(ask[r].node) = {} /\ NotFound(r, "not_found")
     \/ \E id \in Named(ask[r].node) :
          IF Is(r, {"removeNode"}) /\ nodes[id].owner = caller[r]
            THEN NotFound(r, "not_authorized") ELSE Found(r, id)
  /\ UNCHANGED <<nodes, minted, routes, quiet, canvasVars>>

AddToCanvas(r) ==
  /\ pc[r] = "add"
  /\ added' = added \cup {Chosen(r)}
  /\ removed' = removed \ {Chosen(r)}
  /\ Ends(r, "ok")
  /\ UNCHANGED <<hidden, nodeVars, quiet>>

RemoveFromCanvas(r) ==
  /\ pc[r] = "remove"
  /\ removed' = removed \cup {Chosen(r)}
  /\ added' = added \ {Chosen(r)}
  /\ hidden' = hidden \cup {<<caller[r], target[r]>>}
  /\ Ends(r, "ok")
  /\ UNCHANGED <<nodeVars, quiet>>

CanvasStep(r) == ResolveCanvasNode(r) \/ AddToCanvas(r) \/ RemoveFromCanvas(r)

(* What the process held is gone when it stops.                             *)
CanvasLost == added' = {} /\ removed' = {} /\ hidden' = {}

OnCanvas(user, name) ==
  /\ <<user, name>> \notin removed
  /\ <<user, name>> \in added \/ name \notin DefaultOff

(* A user's own node is off the canvas because it started there and was not *)
(* added, or else only through its name: the user removed another owner's   *)
(* node, which is gone and whose name was taken.                            *)
OnlyAnEarlierNameHides ==
  \A i \in DOMAIN nodes :
    LET user == nodes[i].owner
        name == nodes[i].name
    IN  ~OnCanvas(user, name) =>
          \/ name \in DefaultOff /\ <<user, name>> \notin added \cup removed
          \/ /\ <<user, i>> \notin hidden
             /\ \E j \in 1..minted \ DOMAIN nodes : j < i /\ <<user, j>> \in hidden
=============================================================================
