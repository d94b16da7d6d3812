------------------------- MODULE RoutePolicyProofs -------------------------
(* Theorems about RoutePolicy, for every set of Brains, Services, assets,   *)
(* configurations and database contents.                                    *)
EXTENDS RoutePolicy, PolicyRulesProofs

(* What the machine remembers between its two steps.                        *)
Remembered ==
  /\ phase \in {"saved", "ran"} => ValidateConfiguration(config, context) = {}
  /\ phase = "ran" =>
       /\ call \in Call /\ Enabled(config)
       /\ outcome = ExecuteRoute(config, context, call)
  /\ phase # "ran" => outcome = Unset

IInv == TypeOK /\ Remembered

(* Saving and running keep the invariant.                                   *)
THEOREM Invariance == Spec => []IInv
<1>1. Init => IInv
  BY InputsAreTyped DEF Init, IInv, TypeOK, Remembered, Unset
<1>2. IInv /\ [Next]_vars => IInv'
  <2> SUFFICES ASSUME IInv, [Next]_vars PROVE IInv'
    OBVIOUS
  <2>1. CASE Save
    BY <2>1 DEF Save, IInv, TypeOK, Remembered, Enabled
  <2>2. ASSUME NEW q \in Call, Run(q) PROVE IInv'
    <3>1. outcome'.destination \in Brains \cup {NoBrain}
      BY <2>2, OutcomesAreTyped DEF Run, IInv, TypeOK
    <3> QED
      BY <2>2, <3>1 DEF Run, IInv, TypeOK, Remembered
  <2>3. CASE UNCHANGED vars
    BY <2>3 DEF vars, IInv, TypeOK, Remembered
  <2> QED
    BY <2>1, <2>2, <2>3 DEF Next
<1> QED
  BY <1>1, <1>2, PTL DEF Spec

(* Every reachable state is well typed, and a saved path has no error.      *)
THEOREM TypeCorrect == Spec => []TypeOK
<1>1. IInv => TypeOK
  BY DEF IInv
<1> QED
  BY <1>1, Invariance, PTL

(* An accepted path holds no asset of another Brain.                        *)
THEOREM ScopeIsOwnedAlways == Spec => []ScopeIsOwned
<1>1. IInv => ScopeIsOwned
  BY NoErrorsIsSound DEF IInv, Remembered, ScopeIsOwned, Sound
<1> QED
  BY <1>1, Invariance, PTL

(* Data is delivered to no Brain, and through no Service, but those the     *)
(* path's owner permitted.                                                  *)
THEOREM DeliversOnlyWhatIsPermittedAlways == Spec => []DeliversOnlyWhatIsPermitted
<1>1. IInv => DeliversOnlyWhatIsPermitted
  <2> SUFFICES ASSUME IInv, outcome.code = "ok"
               PROVE  Permitted(config, context, call, outcome.destination)
    BY DEF DeliversOnlyWhatIsPermitted
  <2>1. phase = "ran"
    BY DEF IInv, Remembered, Unset
  <2>2. call \in Call /\ outcome = ExecuteRoute(config, context, call)
        /\ Enabled(config) /\ ValidateConfiguration(config, context) = {}
    BY <2>1 DEF IInv, Remembered
  <2>3. Sound(config, context)
    BY <2>2, NoErrorsIsSound
  <2>4. context.brains \subseteq Brains
    BY DEF IInv, TypeOK, Context
  <2>5. config.visibility \in Visibilities /\ config.route.terminal \in Terminals
    BY <2>2, <2>3, <2>4 DEF Sound, Terminals
  <2>6. /\ Authorize(AuthorizationInput(config, context, call)).code = "ok"
        /\ outcome = Authorize(AuthorizationInput(config, context, call))
    BY <2>2 DEF ExecuteRoute, Refuse
  <2> QED
    BY <2>2, <2>5, <2>6, AuthorizeIsPermitted
<1> QED
  BY <1>1, Invariance, PTL

(* An accepted, enabled path serves every permitted request of one of its   *)
(* operations: no check that runs later refuses what validation let pass.   *)
THEOREM AcceptedPathsServeAlways == Spec => []AcceptedPathsServe
<1>1. IInv => AcceptedPathsServe
  <2> SUFFICES ASSUME IInv, phase = "ran",
                      call.operation \in Range(config.operations),
                      NEW d \in Brains, Permitted(config, context, call, d),
                      call.operation = "csv_query" =>
                        \A a \in Range(config.assets) : context.assets[a].content = "sound",
                      call.operation = "text_search" =>
                        \A a \in Range(config.assets) :
                          context.assets[a].content # "unreadable"
               PROVE  outcome.code = "ok"
    BY DEF AcceptedPathsServe
  <2> DEFINE scoped == {context.assets[a] : a \in Range(config.assets)}
             op == call.operation
  <2>1. call \in Call /\ outcome = ExecuteRoute(config, context, call)
        /\ Enabled(config) /\ ValidateConfiguration(config, context) = {}
    BY DEF IInv, Remembered
  <2>2. Sound(config, context)
    BY <2>1, NoErrorsIsSound
  <2>3. context \in Context
    BY DEF IInv, TypeOK
  <2>4. Authorize(AuthorizationInput(config, context, call)).code = "ok"
    BY <2>1, <2>2, <2>3, PermittedIsAuthorized DEF Context
  <2>6. op \in Operations
    BY <2>1 DEF Call
  <2>7. \A a \in scoped : Readable(op, a)
    <3> SUFFICES ASSUME NEW a \in Range(config.assets)
                 PROVE  Readable(op, context.assets[a])
      OBVIOUS
    <3>1. config.operations = <<"raw_read">> => op = "raw_read"
      BY DEF Range
    <3> QED
      BY <2>1, <2>2, <3>1 DEF Sound, Readable
  <2>8. Execute(op, scoped) = "ok"
    <3>1. CASE op = "raw_read"
      BY <3>1 DEF Execute
    <3>2. CASE op # "raw_read"
      <4>1. \A a \in Range(config.assets) : context.assets[a].state = "ready"
        BY <2>7, <3>2 DEF Readable
      <4>2. PICK a \in Range(config.assets) : OperationCompatible(op, context.assets[a])
        BY <2>2 DEF Sound
      <4>3. Queryable(op, context.assets[a])
        BY <4>1, <4>2, <3>2, <2>6 DEF OperationCompatible, Queryable, Searchable, Tabular, Operations
      <4> QED
        BY <4>3 DEF Execute, HasColumns
    <3> QED
      BY <3>1, <3>2
  <2>9. /\ config.route # NoRoute /\ Range(config.route.hops) \subseteq context.services
        /\ config.route.terminal \in context.brains \cup {"caller"} /\ call.owned
    BY <2>1, <2>2 DEF Sound, Permitted
  <2> HIDE DEF scoped
  <2> QED
    BY <2>1, <2>4, <2>7, <2>8, <2>9 DEF ExecuteRoute, scoped
<1> QED
  BY <1>1, Invariance, PTL
=============================================================================
