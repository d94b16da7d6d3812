----------------------------- MODULE RoutePolicy -----------------------------
(***************************************************************************)
(* Whether the rules of PolicyRules agree: they are separate functions in  *)
(* the code, over separate inputs.  One configuration is submitted and, if *)
(* it is accepted and enabled, one request runs on it, nothing having      *)
(* changed in between.                                                     *)
(***************************************************************************)
EXTENDS PolicyRules

CONSTANT
  Trials        (* configurations that an owner may submit, with what the  *)
                (* database may hold when any of them is submitted         *)

ASSUME InputsAreTyped ==
  \A t \in Trials :
    /\ \A c \in t.configurations : c \in Configuration
    /\ \A x \in t.contexts : x \in Context

VARIABLES
  config,       (* the configuration submitted                             *)
  context,      (* what the database held then                             *)
  errors,       (* what was found wrong with it                            *)
  call,         (* the request run on it                                   *)
  outcome,      (* what the request was answered                           *)
  phase         (* "submitted", "refused", "saved" or "ran"                *)

vars == <<config, context, errors, call, outcome, phase>>

NoCall == [mode |-> "none"]
Unset  == [code |-> "none", destination |-> NoBrain]

Init ==
  /\ \E t \in Trials : config \in t.configurations /\ context \in t.contexts
  /\ errors = {}
  /\ call = NoCall
  /\ outcome = Unset
  /\ phase = "submitted"

(* Seeded fault: the errors are reported and the configuration saved.       *)
SaveRegardless ==
  /\ phase = "submitted"
  /\ errors' = ValidateConfiguration(config, context)
  /\ phase' = "saved"
  /\ UNCHANGED <<config, context, call, outcome>>

(* createQueryPath: prepareQueryPath's errors refuse it, none saves it.     *)
Save ==
  /\ phase = "submitted"
  /\ errors' = ValidateConfiguration(config, context)
  /\ phase' = IF errors' = {} THEN "saved" ELSE "refused"
  /\ UNCHANGED <<config, context, call, outcome>>

(* pullQueryPath and sendQueryPath on an enabled path; sends are the source *)
(* Brain's owner's, and a pull names a registered Brain.                    *)
Run(q) ==
  /\ phase = "saved" /\ Enabled(config)
  /\ q.initiator \in context.brains
  /\ q.mode = "push" => q.initiator = context.source /\ q.owned
  /\ call' = q
  /\ outcome' = ExecuteRoute(config, context, q)
  /\ phase' = "ran"
  /\ UNCHANGED <<config, context, errors>>

Next == Save \/ \E q \in Call : Run(q)

Spec == Init /\ [][Next]_vars

-----------------------------------------------------------------------------
TypeOK ==
  /\ config \in Configuration
  /\ context \in Context
  /\ call \in Call \cup {NoCall}
  /\ phase \in {"submitted", "refused", "saved", "ran"}
  /\ outcome.destination \in Brains \cup {NoBrain}
  /\ phase \in {"saved", "ran"} => errors = {}

(* Data is delivered to no Brain but one the path's owner permitted it to,  *)
(* through no Service but those the owner named.                            *)
DeliversOnlyWhatIsPermitted ==
  outcome.code = "ok" => Permitted(config, context, call, outcome.destination)

(* A configuration that was accepted enabled can be used: every permitted   *)
(* request of one of its operations is delivered.  What can still refuse it *)
(* is the content of an asset, which ValidateConfiguration does not ask for *)
(* and query/service.go does: a CSV file in scope whose header has a blank  *)
(* or a repeated column, or an asset that came by a transfer and is not what*)
(* its media type says.                                                     *)
AcceptedPathsServe ==
  phase = "ran" =>
    \/ outcome.code = "ok"
    \/ call.operation \notin Range(config.operations)
    \/ \A d \in Brains : ~Permitted(config, context, call, d)
    \/ /\ call.operation = "csv_query"
       /\ \E a \in Range(config.assets) : context.assets[a].content # "sound"
    \/ /\ call.operation = "text_search"
       /\ \E a \in Range(config.assets) : context.assets[a].content = "unreadable"

(* An accepted path holds no asset that is not its Brain's, at any state.   *)
ScopeIsOwned ==
  phase \in {"saved", "ran"} =>
    \A a \in Range(config.assets) :
      a \in DOMAIN context.assets /\ context.assets[a].brain = context.source
=============================================================================
