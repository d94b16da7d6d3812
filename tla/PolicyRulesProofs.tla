-------------------------- MODULE PolicyRulesProofs --------------------------
(* Lemmas about the functions of PolicyRules, for every configuration,      *)
(* database contents and request; RoutePolicyProofs and QueryPathsProofs    *)
(* rest on them.                                                            *)
EXTENDS PolicyRules, TLAPS

(* What a saved configuration satisfies: no rule of ValidateConfiguration   *)
(* that the other functions rely on is broken.                              *)
Sound(c, x) ==
  /\ x.source # NoBrain
  /\ \A a \in Range(c.assets) : a \in DOMAIN x.assets /\ x.assets[a].brain = x.source
  /\ c.visibility \in Visibilities
  /\ Range(c.brainGrants) \subseteq x.brains
  /\ \A op \in Range(c.operations) :
       \E a \in Range(c.assets) : OperationCompatible(op, x.assets[a])
  /\ Enabled(c) =>
       /\ c.route # NoRoute
       /\ \A a \in Range(c.assets) :
            \/ x.assets[a].state = "ready"
            \/ x.assets[a].state = "parse_failed" /\ c.operations = <<"raw_read">>
  /\ c.route # NoRoute =>
       /\ ~(Len(c.route.hops) > HopLimit(x.maxHops))
       /\ Range(c.route.hops) \subseteq x.services
       /\ c.route.terminal \in x.brains \cup {"caller"}
       /\ c.visibility = "private" /\ Enabled(c) =>
            /\ Range(c.route.hops) \subseteq Range(c.serviceGrants)
            /\ c.route.terminal \in x.brains \ {x.source} =>
                 c.route.terminal \in Range(c.brainGrants)

(* ValidateConfiguration raises no error of a configuration only if it is   *)
(* sound, against whatever the database holds.                              *)
LEMMA NoErrorsIsSound ==
  ASSUME NEW c, NEW x, ValidateConfiguration(c, x) = {}
  PROVE  Sound(c, x)
<1>1. /\ ~ScopeErrors(c, x).asset_required
      /\ ~ScopeErrors(c, x).asset_not_found
      /\ ~ScopeErrors(c, x).asset_wrong_brain
  BY DEF ValidateConfiguration, Raised, ScopeErrors
<1>2. ~SourceErrors(c, x).source_not_found /\ ~StateErrors(c).route_required
  BY DEF ValidateConfiguration, Raised, SourceErrors, StateErrors
<1>3. /\ ~OperationErrors(c, x).operation_unknown
      /\ ~OperationErrors(c, x).operation_incompatible
  BY DEF ValidateConfiguration, Raised, OperationErrors
<1>4. /\ ~GrantErrors(c, x).visibility_invalid
      /\ ~GrantErrors(c, x).brain_grant_not_found
  BY DEF ValidateConfiguration, Raised, GrantErrors
<1>5. /\ ~AvailabilityErrors(c, x).asset_parse_failed
      /\ ~AvailabilityErrors(c, x).asset_unavailable
  BY DEF ValidateConfiguration, Raised, AvailabilityErrors
<1>6. ASSUME c.route # NoRoute
      PROVE  /\ ~RouteErrors(c, x).hops_too_long
             /\ ~RouteErrors(c, x).hop_not_found
             /\ ~RouteErrors(c, x).terminal_invalid
             /\ ~RouteErrors(c, x).missing_route_service
             /\ ~RouteErrors(c, x).missing_destination
  BY <1>6 DEF ValidateConfiguration, Raised, RouteErrors
<1>7. x.source # NoBrain
  BY <1>2 DEF SourceErrors
<1>8. \A a \in Range(c.assets) : a \in DOMAIN x.assets /\ x.assets[a].brain = x.source
  BY <1>1, <1>7 DEF ScopeErrors, Known
<1>9. c.visibility \in Visibilities /\ Range(c.brainGrants) \subseteq x.brains
  BY <1>4 DEF GrantErrors
<1>10. \A op \in Range(c.operations) :
         \E a \in Range(c.assets) : OperationCompatible(op, x.assets[a])
  BY <1>3 DEF OperationErrors, Known
<1>11. ASSUME Enabled(c)
       PROVE  /\ c.route # NoRoute
              /\ \A a \in Range(c.assets) :
                   \/ x.assets[a].state = "ready"
                   \/ x.assets[a].state = "parse_failed" /\ c.operations = <<"raw_read">>
  BY <1>2, <1>5, <1>8, <1>11 DEF StateErrors, AvailabilityErrors, Known
<1>12. ASSUME c.route # NoRoute
       PROVE  /\ Range(c.route.hops) \subseteq x.services
              /\ c.route.terminal \in x.brains \cup {"caller"}
              /\ c.visibility = "private" /\ Enabled(c) =>
                   /\ Range(c.route.hops) \subseteq Range(c.serviceGrants)
                   /\ c.route.terminal \in x.brains \ {x.source} =>
                        c.route.terminal \in Range(c.brainGrants)
  BY <1>6, <1>12 DEF RouteErrors
<1>13. c.route # NoRoute => ~(Len(c.route.hops) > HopLimit(x.maxHops))
  BY <1>6 DEF RouteErrors
<1> QED
  BY <1>7, <1>8, <1>9, <1>10, <1>11, <1>12, <1>13 DEF Sound

(* Authorize grants a request only what the path's owner permitted, whatever *)
(* the configuration: it is the last check before anything is read.         *)
LEMMA AuthorizeIsPermitted ==
  ASSUME NEW c, c.route.terminal \in Terminals,
         NEW x,
         NEW q \in Call,
         Authorize(AuthorizationInput(c, x, q)).code = "ok"
  PROVE  Permitted(c, x, q, Authorize(AuthorizationInput(c, x, q)).destination)
<1> DEFINE in == AuthorizationInput(c, x, q)
           resolved == ResolveTerminal(in.mode, in.terminal, in.source, in.initiator)
<1>1. /\ in.mode = q.mode /\ in.visibility = c.visibility /\ in.source = x.source
      /\ in.initiator = q.initiator /\ in.initiatorOwned = q.owned
      /\ in.terminal = c.route.terminal /\ in.hops = c.route.hops
      /\ in.brainGrants = Range(c.brainGrants)
      /\ in.serviceGrants = Range(c.serviceGrants)
  BY DEF AuthorizationInput
<1>2. q.mode \in {"pull", "push"} /\ q.initiator \in Brains /\ q.initiator # NoBrain
  BY ConstantsAreTyped DEF Call
<1> HIDE DEF in
<1>3. /\ q.owned /\ Authorize(in) = resolved /\ resolved.code = "ok"
      /\ c.visibility = "private" =>
           /\ {q.initiator, resolved.destination} \ {x.source} \subseteq Range(c.brainGrants)
           /\ Range(c.route.hops) \subseteq Range(c.serviceGrants)
  BY <1>1 DEF Authorize, Refuse, Visibilities, in
<1>4. /\ resolved.destination =
           IF q.mode = "pull" THEN q.initiator ELSE c.route.terminal
      /\ c.route.terminal \in {"caller", resolved.destination}
      /\ resolved.destination \in Brains
      /\ q.mode = "push" => q.initiator = x.source
  BY <1>1, <1>2, <1>3, ConstantsAreTyped DEF ResolveTerminal, Refuse, Resolve, Terminals
<1>5. ASSUME c.visibility = "private", NEW i \in DOMAIN c.route.hops
      PROVE  \E j \in DOMAIN c.serviceGrants : c.serviceGrants[j] = c.route.hops[i]
  BY <1>3, <1>5 DEF Range
<1> QED
  BY <1>3, <1>4, <1>5 DEF Permitted, in

(* The converse, for a path that was accepted enabled: Authorize refuses no *)
(* request that its owner permitted.                                        *)
LEMMA PermittedIsAuthorized ==
  ASSUME NEW c, NEW x, Sound(c, x), Enabled(c),
         x.brains \subseteq Brains,
         NEW q \in Call,
         NEW d \in Brains, Permitted(c, x, q, d)
  PROVE  Authorize(AuthorizationInput(c, x, q)).code = "ok"
<1> DEFINE in == AuthorizationInput(c, x, q)
           resolved == ResolveTerminal(in.mode, in.terminal, in.source, in.initiator)
<1>1. /\ in.mode = q.mode /\ in.visibility = c.visibility /\ in.source = x.source
      /\ in.initiator = q.initiator /\ in.initiatorOwned = q.owned
      /\ in.initiatorRegistered = TRUE
      /\ in.terminal = c.route.terminal /\ in.hops = c.route.hops
      /\ in.brainGrants = Range(c.brainGrants)
      /\ in.serviceGrants = Range(c.serviceGrants) /\ in.maxHops = x.maxHops
  BY DEF AuthorizationInput
<1> HIDE DEF in
<1>2. q.mode \in {"pull", "push"} /\ q.initiator \in Brains /\ q.initiator # NoBrain
  BY ConstantsAreTyped DEF Call
<1>3. /\ q.owned /\ d = (IF q.mode = "pull" THEN q.initiator ELSE c.route.terminal)
      /\ c.route.terminal \in {"caller", d}
      /\ q.mode = "push" => q.initiator = x.source
      /\ c.visibility = "private" =>
           {q.initiator, d} \subseteq {x.source} \cup Range(c.brainGrants)
  BY DEF Permitted
<1>4. resolved = Resolve(d)
  BY <1>1, <1>2, <1>3, ConstantsAreTyped DEF ResolveTerminal
<1>5. resolved.code = "ok" /\ resolved.destination = d
  BY <1>4 DEF Resolve
<1>6. /\ ~(Len(in.hops) > HopLimit(in.maxHops)) /\ in.visibility \in Visibilities
      /\ in.visibility = "private" => Range(in.hops) \subseteq in.serviceGrants
  BY <1>1 DEF Sound
<1>7. in.visibility = "private" => {in.initiator, d} \ {in.source} \subseteq in.brainGrants
  BY <1>1, <1>3
<1> HIDE DEF resolved
<1>8. Authorize(in) = resolved
  BY <1>1, <1>3, <1>5, <1>6, <1>7 DEF Authorize, Visibilities, resolved
<1> QED
  BY <1>5, <1>8 DEF in

(* Every answer of executeRoute names a Brain or none.                      *)
LEMMA OutcomesAreTyped ==
  ASSUME NEW c \in Configuration, NEW x \in Context, NEW q \in Call
  PROVE  ExecuteRoute(c, x, q).destination \in Brains \cup {NoBrain}
<1>1. q.initiator \in Brains
  BY DEF Call
<1>2. ResolveTerminal(q.mode, c.route.terminal, x.source, q.initiator).destination
        \in Brains \cup {NoBrain}
  BY <1>1 DEF ResolveTerminal, Refuse, Resolve
<1>3. Authorize(AuthorizationInput(c, x, q)).destination \in Brains \cup {NoBrain}
  BY <1>1, <1>2 DEF Authorize, AuthorizationInput, Refuse
<1> QED
  BY <1>3 DEF ExecuteRoute, Refuse
=============================================================================
