--------------------------- MODULE AppConnections ---------------------------
(* The apps that a Brain is connected to: handlers_app_connections.go.  They*)
(* live in the process; the first request of a Brain seeds them from its    *)
(* routes, which it reads from the database before it takes the mutex.      *)
EXTENDS Nodes

CONSTANT Catalog  (* the sequence of the apps that may be connected        *)

VARIABLES
  connected,      (* the Brains' records and the apps connected to them    *)
  initialized,    (* the Brains whose apps were seeded or chosen           *)
  listed,         (* the routes of its Brain that each request has found   *)
                  (* and not yet read the hops of, as far as they are there*)
  routed,         (* the apps each request has found on its Brain's routes *)
  shown           (* what each listing has found of the apps it came to    *)

appVars == <<connected, initialized, listed, routed, shown>>

AppsInit ==
  /\ connected = {} /\ initialized = {}
  /\ listed = [r \in Requests |-> {}]
  /\ routed = [r \in Requests |-> {}]
  /\ shown = [r \in Requests |-> <<>>]

(* ListNetworkRoutes, as seedAppConnections uses it: a statement for the    *)
(* routes, and then one for the hops of each.                               *)
ListNetworkRoutes(r) ==
  /\ pc[r] = "routes"
  /\ listed' = [listed EXCEPT ![r] = {rt \in routes : target[r] \in {rt.source, rt.destination}}]
  /\ Moves(r, "hops")
  /\ UNCHANGED <<connected, initialized, routed, shown, nodeVars, quiet>>

ListHops(r) ==
  /\ pc[r] = "hops"
  /\ \/ /\ listed[r] = {}
        /\ Moves(r, "seed") /\ UNCHANGED <<listed, routed>>
     \/ \E rt \in listed[r] :
          /\ routed' = [routed EXCEPT ![r] = @ \cup {nodes[h].name : h \in rt.hops}]
          /\ listed' = [listed EXCEPT ![r] = @ \ {rt}]
          /\ Moves(r, "hops")
  /\ UNCHANGED <<connected, initialized, shown, nodeVars, quiet>>

(* A patch gives a path another route, and the hops of the one that was     *)
(* listed are gone.                                                         *)
Replaced(rt) ==
  /\ listed' = [r \in Requests |-> listed[r] \ {rt}]
  /\ UNCHANGED <<connected, initialized, routed, shown>>

(* Seeded fault: every request seeds.                                       *)
SeedAlways(r) ==
  /\ pc[r] = "seed"
  /\ connected' = {c \in connected : c[1] # target[r]} \cup ({target[r]} \X routed[r])
  /\ initialized' = initialized \cup {target[r]}
  /\ Moves(r, IF Is(r, {"listApps"}) THEN "list" ELSE "choose")
  /\ UNCHANGED <<listed, routed, shown, nodeVars, quiet>>

SeedOnce(r) ==
  /\ pc[r] = "seed"
  /\ connected' = IF target[r] \in initialized THEN connected
                  ELSE {c \in connected : c[1] # target[r]} \cup ({target[r]} \X routed[r])
  /\ initialized' = initialized \cup {target[r]}
  /\ Moves(r, IF Is(r, {"listApps"}) THEN "list" ELSE "choose")
  /\ UNCHANGED <<listed, routed, shown, nodeVars, quiet>>

(* connect and disconnect, each under the mutex.                            *)
Choose(r) ==
  /\ pc[r] = "choose"
  /\ connected' = IF Is(r, {"connect"}) THEN connected \cup {<<target[r], ask[r].app>>}
                                        ELSE connected \ {<<target[r], ask[r].app>>}
  /\ initialized' = initialized \cup {target[r]}
  /\ Ends(r, "ok")
  /\ UNCHANGED <<listed, routed, shown, nodeVars, quiet>>

(* appCatalog takes the mutex for one app at a time.                        *)
AppCatalog(r) ==
  /\ pc[r] = "list"
  /\ LET next == Len(shown[r]) + 1 IN
       IF next \in DOMAIN Catalog
         THEN /\ shown' = [shown EXCEPT ![r] = Append(@, <<target[r], Catalog[next]>> \in connected)]
              /\ Moves(r, "list")
         ELSE Ends(r, "ok") /\ UNCHANGED shown
  /\ UNCHANGED <<connected, initialized, listed, routed, nodeVars, quiet>>

AppStep(r) == ListNetworkRoutes(r) \/ ListHops(r) \/ SeedOnce(r) \/ Choose(r) \/ AppCatalog(r)

AppsLost == connected' = {} /\ initialized' = {} /\ UNCHANGED <<listed, routed, shown>>

(* Once a Brain's apps are known, an app is connected or disconnected only  *)
(* by a request for that: a request that read the routes before another had *)
(* seeded or chosen does not undo it.                                       *)
ChoiceStands(id, app) ==
  /\ id \in initialized \cap initialized'
  /\ (<<id, app>> \in connected) # (<<id, app>> \in connected')
  => \E r \in Requests :
       /\ pc[r] = "choose" /\ target[r] = id /\ ask[r].app = app
       /\ (<<id, app>> \in connected') <=> Is(r, {"connect"})
=============================================================================
