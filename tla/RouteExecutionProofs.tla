------------------------- MODULE RouteExecutionProofs -------------------------
(* Theorems about RouteExecution, for every number of requests, keys, assets *)
(* of the scope and Services of the route.                                   *)
EXTENDS RouteExecution, FiniteSetTheorems, TLAPS

LEMMA Asked ==
  ASSUME TypeOK, NEW r \in Requests
  PROVE  /\ ask[r].mode \in {"pull", "push"}
         /\ Push(r) => ask[r].key \in Keys /\ ask[r].body \in Bodies
         /\ scope[r] \in Seq(Nat)
<1>1. ask[r] \in Ask /\ scope[r] \in Seq(Nat)
  BY InputsAreTyped DEF TypeOK
<1> QED
  BY <1>1 DEF Ask, Push

-----------------------------------------------------------------------------
(* A step is one request's: it leaves what belongs to the others alone.     *)
Same(q) ==
  /\ executions'[q] = executions[q] /\ traces'[q] = traces[q]
  /\ pc'[q] = pc[q] /\ mine'[q] = mine[q] /\ answer'[q] = answer[q]
  /\ (q \in transfers' <=> q \in transfers) /\ (q \in objects' <=> q \in objects)
  /\ (q \in canceled' <=> q \in canceled) /\ (q \in troubled' <=> q \in troubled)

Only(r) == UNCHANGED <<ask, scope, past>> /\ \A q \in Requests \ {r} : Same(q)

LEMMA OthersKeep ==
  ASSUME IInv, NEW r \in Requests, Only(r), TypeOK', KeysAreOwned', RequestInv(r)'
  PROVE  IInv'
<1>1. ASSUME NEW q \in Requests, q # r
      PROVE  RequestInv(q)'
  <2>1. RequestInv(q)
    BY DEF IInv
  <2>2. Same(q) /\ UNCHANGED <<ask, scope>>
    BY <1>1 DEF Only
  <2> USE DEF Same, Push, Whole, Routed, Final, BeforeHops, AfterRecords
  <2>3. CompleteIfDelivered(q)' /\ TellsTheOutcome(q)' /\ PayloadUnlessLost(q)'
    BY <2>1, <2>2 DEF RequestInv, CompleteIfDelivered, TellsTheOutcome, PayloadUnlessLost,
      Told, Hidden
  <2>4. StepsRelyOnTheLast(q)'
    BY <2>1, <2>2 DEF RequestInv, StepsRelyOnTheLast
  <2>5. PayloadFirst(q)' /\ RowFollowsTheSteps(q)'
    BY <2>1, <2>2 DEF RequestInv, PayloadFirst, RowFollowsTheSteps
  <2>6. TraceFollowsTheHops(q)'
    BY <2>1, <2>2 DEF RequestInv, TraceFollowsTheHops
  <2> QED
    BY <2>1, <2>2, <2>3, <2>4, <2>5, <2>6 DEF RequestInv
<1> QED
  BY <1>1 DEF IInv

(* The keys stay owned by a step that neither claims nor answers from one.  *)
LEMMA KeysKeep ==
  ASSUME IInv, NEW r \in Requests, Only(r), UNCHANGED records,
         Owns(r)' => Runs(r), pc[r] # "done", answer'[r] # "replayed"
  PROVE  KeysAreOwned'
<1>1. TypeOK /\ KeysAreOwned /\ RequestInv(r)
  BY DEF IInv
<1>2. answer[r] = "none"
  BY <1>1 DEF RequestInv, StepsRelyOnTheLast
<1>3. \A q \in Requests : Push(q)' = Push(q) /\ (Owns(q)' => Owns(q)) /\ (Runs(q)' => Runs(q))
  BY DEF Only, Same, Push, Owns, Runs
<1>4. ASSUME NEW q \in Requests, q \in transfers, answer[q] = "delivered"
      PROVE  q \in transfers' /\ answer'[q] = "delivered"
  <2>1. q # r
    BY <1>2, <1>4
  <2> QED
    BY <1>4, <2>1 DEF Only, Same
<1>5. ASSUME NEW q \in Requests, answer'[q] = "replayed"
      PROVE  Push(q)' /\ mine'[q].replay \in Requests /\ ReplaysOf(q, mine[q].replay)'
             /\ mine'[q] = mine[q]
  <2>1. answer[q] = "replayed" /\ mine'[q] = mine[q]
    BY <1>5 DEF Only, Same
  <2>2. Push(q) /\ mine[q].replay \in Requests /\ ReplaysOf(q, mine[q].replay)
    BY <1>1, <2>1 DEF KeysAreOwned
  <2> QED
    BY <1>3, <1>4, <2>1, <2>2 DEF ReplaysOf, Only
<1>6. ASSUME NEW k \in Keys, ~Free(k)', records'[k].response # None
      PROVE  records'[k].response \in Requests /\ StoresOf(k, records[k].response)'
  <2>1. records[k].response \in Requests /\ StoresOf(k, records[k].response)
    BY <1>1, <1>6 DEF KeysAreOwned, Free
  <2> QED
    BY <1>3, <1>4, <2>1 DEF StoresOf, Only
<1>7. \A q \in Requests : Owns(q)' => ~Free(ask[q].key)'
  BY <1>1, <1>3 DEF KeysAreOwned, Free, Only
<1>8. \A p, q \in Requests : Owns(p)' /\ Owns(q)' /\ ask'[p].key = ask'[q].key => p = q
  BY <1>1, <1>3 DEF KeysAreOwned, Only
<1>9. \A q \in Requests : Runs(q)' => records'[ask'[q].key] = OpenRecord(q)'
  BY <1>1, <1>3 DEF KeysAreOwned, OpenRecord, Only
<1>10. \A q \in past' : Push(q)' /\ pc'[q] = "done"
  <2>1. \A q \in past : q \in Requests /\ Push(q) /\ pc[q] = "done"
    BY <1>1 DEF KeysAreOwned, TypeOK
  <2> QED
    BY <1>3, <2>1 DEF Only, Same
<1>11. \A q \in Requests : answer'[q] = "replayed" =>
         Push(q)' /\ mine'[q].replay \in Requests /\ ReplaysOf(q, mine[q].replay)'
  BY <1>5
<1>12. \A k \in Keys : ~Free(k)' /\ records'[k].response # None =>
         records'[k].response \in Requests /\ StoresOf(k, records[k].response)'
  BY <1>6
<1> QED
  BY <1>7, <1>8, <1>9, <1>10, <1>11, <1>12 DEF KeysAreOwned

-----------------------------------------------------------------------------
(* What a step writes, where it does.                                       *)
LEMMA Moved ==
  ASSUME TypeOK, NEW r \in Requests, executions[r] # NoExecution,
         NEW state \in States, NEW code \in Codes \cup {None}, NEW starts \in BOOLEAN,
         Transition(r, state, code, starts)
  PROVE  /\ executions' \in [Requests -> Execution \cup {NoExecution}]
         /\ executions'[r] # NoExecution
         /\ \/ executions'[r] = executions[r]
            \/ executions'[r].state = state /\ executions'[r].code = code
         /\ troubled' \subseteq Requests /\ (r \in troubled => r \in troubled')
         /\ r \notin troubled' =>
              /\ executions'[r].state = state /\ executions'[r].code = code
              /\ executions'[r].completed <=> state \in Final
<1> DEFINE row == [state |-> state, code |-> code, completed |-> state \in Final,
                   started |-> executions[r].started \/ starts]
<1>1. executions[r] \in Execution
  BY DEF TypeOK
<1>2. row \in Execution
  BY <1>1 DEF Execution
<1>3. CASE Succeeds(r) /\ executions' = [executions EXCEPT ![r] = row]
  <2>1. executions'[r] = row
    BY <1>3 DEF TypeOK
  <2> QED
    BY <1>2, <1>3, <2>1, InputsAreTyped DEF TypeOK, Succeeds
<1>4. CASE Breaks(r) /\ UNCHANGED executions
  BY <1>4 DEF TypeOK, Breaks
<1> QED
  BY <1>3, <1>4 DEF Transition

GivesUp(r) ==
  /\ mine' \in [Requests -> Hand] /\ pc' \in [Requests -> Steps]
  /\ pc'[r] = "fail" /\ mine'[r].code # None
  /\ mine'[r].hops = mine[r].hops /\ mine'[r].recorded = mine[r].recorded

LEMMA GaveUp ==
  ASSUME TypeOK, NEW r \in Requests, NEW code \in Codes, Fail(r, code)
  PROVE  GivesUp(r)
<1>1. mine[r] \in Hand
  BY DEF TypeOK
<1>2. mine'[r] = [mine[r] EXCEPT !.code = code]
  BY DEF TypeOK, Fail
<1>3. [mine[r] EXCEPT !.code = code] \in Hand
  BY <1>1 DEF Hand
<1>4. code # None
  BY InputsAreTyped
<1> QED
  BY <1>1, <1>2, <1>3, <1>4 DEF GivesUp, TypeOK, Fail, Goto, Steps, Hand

-----------------------------------------------------------------------------
LEMMA PullInv ==
  ASSUME IInv, NEW r \in Requests, Pull(r)
  PROVE  IInv'
<1> USE DEF Pull, Goto, rows
<1>1. TypeOK /\ RequestInv(r) /\ scope[r] \in Seq(Nat)
  BY Asked DEF IInv
<1>a. /\ UNCHANGED <<rows, ask, scope, mine, canceled, troubled, past>>
      /\ pc[r] = "start" /\ ~Push(r)
  OBVIOUS
<1>b. /\ pc' \in [Requests -> Steps] /\ answer' \in [Requests -> Answers]
      /\ \A q \in Requests \ {r} : pc'[q] = pc[q] /\ answer'[q] = answer[q]
      /\ pc'[r] \in {"insert", "done"} /\ answer'[r] \notin {"delivered", "replayed"}
      /\ pc'[r] = "insert" => answer'[r] = "none"
  <2>1. answer[r] = "none"
    BY <1>1 DEF RequestInv, StepsRelyOnTheLast
  <2>2. CASE Goto(r, "insert") /\ UNCHANGED answer
    BY <1>1, <2>1, <2>2 DEF TypeOK, Steps
  <2>3. CASE \E code \in {"PATH_NOT_FOUND", Told(r, "refused")} : Answer(r, code)
    <3>1. PICK code \in {"PATH_NOT_FOUND", "refused"} : Answer(r, code)
      BY <2>3 DEF Told
    <3> QED
      BY <1>1, <3>1 DEF TypeOK, Steps, Answers, Answer
  <2> QED
    BY <2>2, <2>3
<1> USE <1>a, <1>b
<1> HIDE DEF Pull
<1>2. TypeOK'
  BY <1>1, InputsAreTyped DEF TypeOK, Steps
<1>3. Only(r)
  BY <1>1 DEF Only, Same
<1>4. KeysAreOwned'
  <2>1. Owns(r)' => Runs(r)
    BY <1>1 DEF Owns, Runs, Push
  <2>2. answer'[r] # "replayed"
    BY <1>b
  <2> QED
    BY <2>1, <2>2, <1>3, KeysKeep
<1> USE DEF Push, Final, BeforeHops, AfterRecords, Told, Hidden
<1>5. CompleteIfDelivered(r)' /\ PayloadUnlessLost(r)'
  BY <1>1 DEF RequestInv, CompleteIfDelivered, PayloadUnlessLost, StepsRelyOnTheLast
<1>6. TellsTheOutcome(r)'
  BY <1>1 DEF RequestInv, RowFollowsTheSteps, TellsTheOutcome
<1>7. StepsRelyOnTheLast(r)'
  BY <1>1 DEF RequestInv, StepsRelyOnTheLast
<1>8. PayloadFirst(r)'
  BY <1>1 DEF RequestInv, PayloadFirst
<1>9. RowFollowsTheSteps(r)'
  BY <1>1, InputsAreTyped DEF RequestInv, RowFollowsTheSteps
<1>10. TraceFollowsTheHops(r)' /\ (r \in canceled' => r \in troubled')
  BY <1>1 DEF RequestInv, TraceFollowsTheHops
<1> QED
  BY <1>2, <1>3, <1>4, <1>5, <1>6, <1>7, <1>8, <1>9, <1>10, OthersKeep DEF RequestInv

LEMMA RefuseInv ==
  ASSUME IInv, NEW r \in Requests, Refuse(r)
  PROVE  IInv'
<1> USE DEF Refuse, Goto, Answer, rows
<1>1. TypeOK /\ RequestInv(r) /\ scope[r] \in Seq(Nat)
  BY Asked DEF IInv
<1>a. Told(r, "refused") \in {"refused", "PATH_NOT_FOUND"}
  BY DEF Told
<1>2. TypeOK'
  BY <1>1, <1>a, InputsAreTyped DEF TypeOK, Steps, Answers
<1>3. Only(r)
  BY <1>1 DEF Only, Same
<1>4. KeysAreOwned'
  <2>1. Owns(r)' => Runs(r)
    BY <1>1 DEF Owns, Runs, Push
  <2>2. answer'[r] # "replayed"
    BY <1>1, <1>a DEF TypeOK
  <2> QED
    BY <2>1, <2>2, <1>3, KeysKeep
<1> USE DEF Push, Final, BeforeHops, AfterRecords
<1>5. CompleteIfDelivered(r)' /\ PayloadUnlessLost(r)'
  BY <1>1, <1>a DEF TypeOK, RequestInv, CompleteIfDelivered, PayloadUnlessLost
<1>6. TellsTheOutcome(r)'
  BY <1>1 DEF RequestInv, TellsTheOutcome, RowFollowsTheSteps
<1>7. StepsRelyOnTheLast(r)'
  BY <1>1 DEF TypeOK, StepsRelyOnTheLast
<1>8. PayloadFirst(r)'
  BY <1>1 DEF RequestInv, PayloadFirst
<1>9. RowFollowsTheSteps(r)'
  BY <1>1, InputsAreTyped DEF RequestInv, RowFollowsTheSteps
<1>10. TraceFollowsTheHops(r)' /\ (r \in canceled' => r \in troubled')
  BY <1>1 DEF RequestInv, TraceFollowsTheHops
<1> QED
  BY <1>2, <1>3, <1>4, <1>5, <1>6, <1>7, <1>8, <1>9, <1>10, OthersKeep DEF RequestInv

LEMMA InsertInv ==
  ASSUME IInv, NEW r \in Requests, Insert(r)
  PROVE  IInv'
<1> USE DEF Insert, Goto, Answer, Succeeds, Breaks
<1>1. TypeOK /\ RequestInv(r) /\ scope[r] \in Seq(Nat)
  BY Asked DEF IInv
<1> DEFINE row == [state |-> "authorizing", started |-> FALSE, completed |-> FALSE,
                   code |-> None]
<1>a. row \in Execution /\ row # NoExecution
  <2>1. row \in Execution
    BY DEF Execution, States
  <2> QED
    BY <2>1, InputsAreTyped
<1>b. executions' \in {executions, [executions EXCEPT ![r] = row]}
  OBVIOUS
<1>2. TypeOK'
  <2>1. executions' \in [Requests -> Execution \cup {NoExecution}]
    BY <1>1, <1>a, <1>b DEF TypeOK
  <2> QED
    BY <1>1, <2>1 DEF TypeOK, Steps, Answers, Told
<1>3. Only(r)
  BY <1>1 DEF TypeOK, Only, Same
<1>4. KeysAreOwned'
  <2>1. Owns(r)' => Runs(r)
    BY <1>1 DEF Owns, Runs, Push
  <2>2. answer'[r] # "replayed"
    BY <1>1 DEF TypeOK, RequestInv, StepsRelyOnTheLast, Told
  <2> QED
    BY <2>1, <2>2, <1>3, KeysKeep
<1> USE DEF Push, Final, BeforeHops, AfterRecords, Told, Hidden
<1>5. CompleteIfDelivered(r)' /\ PayloadUnlessLost(r)'
  BY <1>1 DEF TypeOK, RequestInv, CompleteIfDelivered, PayloadUnlessLost, StepsRelyOnTheLast
<1>6. TellsTheOutcome(r)'
  BY <1>1 DEF TypeOK, RequestInv, RowFollowsTheSteps, TellsTheOutcome
<1>7. StepsRelyOnTheLast(r)'
  BY <1>1 DEF TypeOK, RequestInv, StepsRelyOnTheLast
<1>8. PayloadFirst(r)'
  BY <1>1 DEF TypeOK, RequestInv, PayloadFirst
<1>9. RowFollowsTheSteps(r)'
  <2>1. executions'[r] \in {NoExecution, row} /\ pc'[r] \in {"authorize", "done"}
    BY <1>1, <1>b DEF TypeOK, RequestInv, RowFollowsTheSteps
  <2>2. pc'[r] # "done" => executions'[r] = row
    BY <1>1 DEF TypeOK
  <2> QED
    BY <1>a, <2>1, <2>2 DEF RowFollowsTheSteps
<1>10. TraceFollowsTheHops(r)' /\ (r \in canceled' => r \in troubled')
  BY <1>1 DEF TypeOK, RequestInv, TraceFollowsTheHops
<1> QED
  BY <1>2, <1>3, <1>4, <1>5, <1>6, <1>7, <1>8, <1>9, <1>10, OthersKeep DEF RequestInv

LEMMA DecideInv ==
  ASSUME IInv, NEW r \in Requests, Decide(r)
  PROVE  IInv'
<1> USE DEF Decide, Goto, rows, GivesUp
<1>1. TypeOK /\ RequestInv(r) /\ scope[r] \in Seq(Nat)
  BY Asked DEF IInv
<1>b. GivesUp(r) \/ (Goto(r, "begin_read") /\ UNCHANGED mine)
  BY <1>1, GaveUp DEF Codes
<1>2. TypeOK'
  BY <1>1, <1>b DEF TypeOK, Steps
<1>3. Only(r)
  BY <1>1 DEF TypeOK, Only, Same, Fail
<1>4. KeysAreOwned'
  <2>1. Owns(r)' => Runs(r)
    BY <1>1, <1>b DEF Owns, Runs, Push
  <2>2. answer'[r] # "replayed"
    BY <1>1 DEF RequestInv, StepsRelyOnTheLast
  <2> QED
    BY <2>1, <2>2, <1>3, KeysKeep
<1> USE DEF Push, Final, BeforeHops, AfterRecords, Told, Hidden
<1>5. CompleteIfDelivered(r)' /\ PayloadUnlessLost(r)'
  BY <1>1, <1>b DEF TypeOK, RequestInv, CompleteIfDelivered, PayloadUnlessLost,
    StepsRelyOnTheLast, PayloadFirst
<1>6. TellsTheOutcome(r)'
  BY <1>1, <1>b DEF TypeOK, RequestInv, RowFollowsTheSteps, TellsTheOutcome
<1>7. StepsRelyOnTheLast(r)'
  BY <1>1, <1>b DEF TypeOK, RequestInv, StepsRelyOnTheLast
<1>8. PayloadFirst(r)'
  BY <1>1, <1>b DEF TypeOK, RequestInv, PayloadFirst
<1>9. RowFollowsTheSteps(r)'
  BY <1>1, <1>b DEF TypeOK, RequestInv, RowFollowsTheSteps
<1>10. TraceFollowsTheHops(r)' /\ (r \in canceled' => r \in troubled')
  BY <1>1, <1>b DEF TypeOK, RequestInv, TraceFollowsTheHops
<1> QED
  BY <1>2, <1>3, <1>4, <1>5, <1>6, <1>7, <1>8, <1>9, <1>10, OthersKeep DEF RequestInv

LEMMA BeginReadInv ==
  ASSUME IInv, NEW r \in Requests, BeginRead(r)
  PROVE  IInv'
<1> USE DEF BeginRead, Goto
<1>1. TypeOK /\ RequestInv(r) /\ scope[r] \in Seq(Nat)
  BY Asked DEF IInv
<1>a. executions[r] # NoExecution
  BY <1>1 DEF RequestInv, RowFollowsTheSteps
<1>b. /\ executions' \in [Requests -> Execution \cup {NoExecution}]
      /\ executions'[r] # NoExecution
      /\ executions'[r].state \in {"reading", executions[r].state}
      /\ troubled' \subseteq Requests /\ (r \in troubled => r \in troubled')
  BY <1>1, <1>a, Moved DEF States
<1>2. TypeOK'
  BY <1>1, <1>b DEF TypeOK, Steps
<1>3. Only(r)
  BY <1>1 DEF TypeOK, Only, Same, Transition, Succeeds, Breaks
<1>4. KeysAreOwned'
  <2>1. Owns(r)' => Runs(r)
    BY <1>1 DEF Owns, Runs, Push
  <2>2. answer'[r] # "replayed"
    BY <1>1 DEF RequestInv, StepsRelyOnTheLast
  <2> QED
    BY <2>1, <2>2, <1>3, KeysKeep
<1> USE DEF Push, Final, BeforeHops, AfterRecords, Told, Hidden
<1>5. CompleteIfDelivered(r)' /\ PayloadUnlessLost(r)'
  BY <1>1, <1>b DEF RequestInv, CompleteIfDelivered, PayloadUnlessLost, StepsRelyOnTheLast
<1>6. TellsTheOutcome(r)'
  BY <1>1, <1>b DEF TypeOK, RequestInv, RowFollowsTheSteps, TellsTheOutcome
<1>7. StepsRelyOnTheLast(r)'
  BY <1>1, <1>b DEF RequestInv, StepsRelyOnTheLast
<1>8. PayloadFirst(r)'
  BY <1>1, <1>b DEF RequestInv, PayloadFirst
<1>9. RowFollowsTheSteps(r)'
  BY <1>1, <1>b DEF RequestInv, RowFollowsTheSteps
<1>10. TraceFollowsTheHops(r)' /\ (r \in canceled' => r \in troubled')
  BY <1>1, <1>b DEF RequestInv, TraceFollowsTheHops
<1> QED
  BY <1>2, <1>3, <1>4, <1>5, <1>6, <1>7, <1>8, <1>9, <1>10, OthersKeep DEF RequestInv

LEMMA ReadInv ==
  ASSUME IInv, NEW r \in Requests, Read(r)
  PROVE  IInv'
<1> USE DEF Goto, rows, GivesUp
<1>1. TypeOK /\ RequestInv(r) /\ scope[r] \in Seq(Nat)
  BY Asked DEF IInv
<1> DEFINE i == mine[r].read + 1
<1>0. mine[r] \in Hand
  BY <1>1 DEF TypeOK
<1>a. ASSUME i <= Len(scope[r]),
             mine' = [mine EXCEPT ![r].read = i, ![r].total = @ + scope[r][i]], UNCHANGED pc
      PROVE  /\ mine'[r] = [mine[r] EXCEPT !.read = i, !.total = mine[r].total + scope[r][i]]
             /\ mine'[r] \in Hand
  <2>1. i \in Nat /\ mine[r].total + scope[r][i] \in Nat
    BY <1>0, <1>1, <1>a DEF Hand
  <2>2. mine'[r] = [mine[r] EXCEPT !.read = i, !.total = mine[r].total + scope[r][i]]
    BY <1>1, <1>a DEF TypeOK
  <2>3. [mine[r] EXCEPT !.read = i, !.total = mine[r].total + scope[r][i]] \in Hand
    BY <1>0, <2>1 DEF Hand
  <2> QED
    BY <2>2, <2>3
<1>b. \/ GivesUp(r)
      \/ /\ mine' \in [Requests -> Hand]
         /\ mine'[r].hops = mine[r].hops /\ mine'[r].recorded = mine[r].recorded
         /\ mine'[r].code = mine[r].code
         /\ \/ /\ Goto(r, "query") /\ ~(i <= Len(scope[r]))
               /\ mine'[r].read = mine[r].read /\ mine'[r].payload = "as_read"
            \/ UNCHANGED pc /\ i <= Len(scope[r]) /\ mine'[r].read = i
  <2>1. CASE Fail(r, "ASSET_UNAVAILABLE")
    BY <1>1, <2>1, GaveUp DEF Codes
  <2>2. CASE i > Len(scope[r]) /\ mine' = [mine EXCEPT ![r].payload = "as_read"] /\ Goto(r, "query")
    <3>1. mine'[r] = [mine[r] EXCEPT !.payload = "as_read"]
      BY <1>1, <2>2 DEF TypeOK
    <3>2. mine'[r] \in Hand
      BY <1>0, <3>1 DEF Hand, Payloads
    <3> QED
      BY <1>0, <1>1, <2>2, <3>1, <3>2 DEF TypeOK, Hand
  <2>3. CASE /\ i <= Len(scope[r]) /\ UNCHANGED pc
             /\ mine' = [mine EXCEPT ![r].read = i, ![r].total = @ + scope[r][i]]
    BY <1>0, <1>1, <1>a, <2>3 DEF TypeOK
  <2>4. \/ i > Len(scope[r]) /\ mine' = [mine EXCEPT ![r].payload = "as_read"] /\ Goto(r, "query")
        \/ /\ i <= Len(scope[r]) /\ UNCHANGED pc
           /\ mine' = [mine EXCEPT ![r].read = i, ![r].total = @ + scope[r][i]]
        \/ Fail(r, "ASSET_UNAVAILABLE")
    BY DEF Read
  <2> QED
    BY <2>1, <2>2, <2>3, <2>4
<1>c. /\ UNCHANGED <<rows, ask, scope, canceled, answer, past>> /\ pc[r] = "read"
      /\ troubled' \in {troubled, troubled \cup {r}}
  BY DEF Read, Succeeds, Breaks
<1>2. TypeOK'
  BY <1>1, <1>b, <1>c DEF TypeOK, Steps
<1>3. Only(r)
  BY <1>1 DEF TypeOK, Only, Same, Read, Succeeds, Breaks, Fail
<1>4. KeysAreOwned'
  <2>1. Owns(r)' => Runs(r)
    BY <1>1, <1>b, <1>c DEF Owns, Runs, Push
  <2>2. answer'[r] # "replayed"
    BY <1>1, <1>c DEF RequestInv, StepsRelyOnTheLast
  <2> QED
    BY <1>c, <2>1, <2>2, <1>3, KeysKeep
<1> USE DEF Push, Final, BeforeHops, AfterRecords, Told, Hidden
<1>5. CompleteIfDelivered(r)' /\ PayloadUnlessLost(r)'
  BY <1>1, <1>b, <1>c DEF TypeOK, RequestInv, CompleteIfDelivered, PayloadUnlessLost,
    StepsRelyOnTheLast, PayloadFirst
<1>6. TellsTheOutcome(r)'
  BY <1>1, <1>b, <1>c DEF TypeOK, RequestInv, RowFollowsTheSteps, TellsTheOutcome
<1>7. StepsRelyOnTheLast(r)'
  <2>1. /\ mine[r].hops = <<>> /\ mine[r].read <= Len(scope[r]) /\ mine[r].code = None
        /\ answer'[r] = "none" /\ Len(scope[r]) \in Nat /\ mine[r].read \in Nat
    BY <1>0, <1>1, <1>c DEF RequestInv, StepsRelyOnTheLast, Hand
  <2>2. CASE GivesUp(r)
    BY <2>1, <2>2 DEF StepsRelyOnTheLast
  <2>3. CASE UNCHANGED pc
    BY <1>b, <1>c, <2>1, <2>3 DEF StepsRelyOnTheLast
  <2>4. CASE Goto(r, "query") /\ ~(i <= Len(scope[r])) /\ ~GivesUp(r)
    BY <1>1, <1>b, <1>c, <2>1, <2>4 DEF StepsRelyOnTheLast, Whole
  <2> QED
    BY <1>b, <2>2, <2>3, <2>4
<1>8. PayloadFirst(r)'
  BY <1>1, <1>b, <1>c DEF TypeOK, RequestInv, PayloadFirst
<1>9. RowFollowsTheSteps(r)'
  BY <1>1, <1>b, <1>c DEF TypeOK, RequestInv, RowFollowsTheSteps
<1>10. TraceFollowsTheHops(r)' /\ (r \in canceled' => r \in troubled')
  BY <1>1, <1>b, <1>c DEF TypeOK, RequestInv, TraceFollowsTheHops
<1> QED
  BY <1>2, <1>3, <1>4, <1>5, <1>6, <1>7, <1>8, <1>9, <1>10, OthersKeep DEF RequestInv

LEMMA QueryInv ==
  ASSUME IInv, NEW r \in Requests, Query(r)
  PROVE  IInv'
<1> USE DEF Query, Goto, rows, GivesUp
<1>1. TypeOK /\ RequestInv(r) /\ scope[r] \in Seq(Nat)
  BY Asked DEF IInv
<1>b. GivesUp(r) \/ (Goto(r, "begin_processing") /\ UNCHANGED mine)
  BY <1>1, GaveUp DEF Codes
<1>2. TypeOK'
  BY <1>1, <1>b DEF TypeOK, Steps
<1>3. Only(r)
  BY <1>1 DEF TypeOK, Only, Same, Fail
<1>4. KeysAreOwned'
  <2>1. Owns(r)' => Runs(r)
    BY <1>1, <1>b DEF Owns, Runs, Push
  <2>2. answer'[r] # "replayed"
    BY <1>1 DEF RequestInv, StepsRelyOnTheLast
  <2> QED
    BY <2>1, <2>2, <1>3, KeysKeep
<1> USE DEF Push, Final, BeforeHops, AfterRecords, Told, Hidden
<1>5. CompleteIfDelivered(r)' /\ PayloadUnlessLost(r)'
  BY <1>1, <1>b DEF TypeOK, RequestInv, CompleteIfDelivered, PayloadUnlessLost,
    StepsRelyOnTheLast, PayloadFirst
<1>6. TellsTheOutcome(r)'
  BY <1>1, <1>b DEF TypeOK, RequestInv, RowFollowsTheSteps, TellsTheOutcome
<1>7. StepsRelyOnTheLast(r)'
  BY <1>1, <1>b DEF TypeOK, RequestInv, StepsRelyOnTheLast, Whole
<1>8. PayloadFirst(r)'
  BY <1>1, <1>b DEF TypeOK, RequestInv, PayloadFirst
<1>9. RowFollowsTheSteps(r)'
  BY <1>1, <1>b DEF TypeOK, RequestInv, RowFollowsTheSteps
<1>10. TraceFollowsTheHops(r)' /\ (r \in canceled' => r \in troubled')
  BY <1>1, <1>b DEF TypeOK, RequestInv, TraceFollowsTheHops
<1> QED
  BY <1>2, <1>3, <1>4, <1>5, <1>6, <1>7, <1>8, <1>9, <1>10, OthersKeep DEF RequestInv

LEMMA BeginProcessingInv ==
  ASSUME IInv, NEW r \in Requests, BeginProcessing(r)
  PROVE  IInv'
<1> USE DEF BeginProcessing, Goto
<1>1. TypeOK /\ RequestInv(r) /\ scope[r] \in Seq(Nat)
  BY Asked DEF IInv
<1>a. executions[r] # NoExecution
  BY <1>1 DEF RequestInv, RowFollowsTheSteps
<1>b. /\ executions' \in [Requests -> Execution \cup {NoExecution}]
      /\ executions'[r] # NoExecution
      /\ executions'[r].state \in {"processing", executions[r].state}
      /\ troubled' \subseteq Requests /\ (r \in troubled => r \in troubled')
  BY <1>1, <1>a, Moved DEF States
<1>2. TypeOK'
  BY <1>1, <1>b DEF TypeOK, Steps
<1>3. Only(r)
  BY <1>1 DEF TypeOK, Only, Same, Transition, Succeeds, Breaks
<1>4. KeysAreOwned'
  <2>1. Owns(r)' => Runs(r)
    BY <1>1 DEF Owns, Runs, Push
  <2>2. answer'[r] # "replayed"
    BY <1>1 DEF RequestInv, StepsRelyOnTheLast
  <2> QED
    BY <2>1, <2>2, <1>3, KeysKeep
<1> USE DEF Push, Final, BeforeHops, AfterRecords, Told, Hidden
<1>5. CompleteIfDelivered(r)' /\ PayloadUnlessLost(r)'
  BY <1>1, <1>b DEF RequestInv, CompleteIfDelivered, PayloadUnlessLost, StepsRelyOnTheLast
<1>6. TellsTheOutcome(r)'
  BY <1>1, <1>b DEF TypeOK, RequestInv, RowFollowsTheSteps, TellsTheOutcome
<1>7. StepsRelyOnTheLast(r)'
  BY <1>1, <1>b, InputsAreTyped DEF RequestInv, StepsRelyOnTheLast, Whole
<1>8. PayloadFirst(r)'
  BY <1>1, <1>b DEF RequestInv, PayloadFirst
<1>9. RowFollowsTheSteps(r)'
  BY <1>1, <1>b DEF RequestInv, RowFollowsTheSteps
<1>10. TraceFollowsTheHops(r)' /\ (r \in canceled' => r \in troubled')
  BY <1>1, <1>b DEF RequestInv, TraceFollowsTheHops
<1> QED
  BY <1>2, <1>3, <1>4, <1>5, <1>6, <1>7, <1>8, <1>9, <1>10, OthersKeep DEF RequestInv

(* One more hop, that passed the payload on or failed.                      *)
Hopped(r, status) ==
  mine'[r].hops = Append(mine[r].hops, Result(Len(mine[r].hops), status))
Passed(r)    == Len(mine[r].hops) < Hops /\ Hopped(r, "completed")
FailedHop(r) == Len(mine[r].hops) < Hops /\ Hopped(r, "failed")

LEMMA HopIsTyped ==
  ASSUME NEW hops \in Seq(HopResult), Len(hops) < Hops, NEW status \in {"completed", "failed"}
  PROVE  Append(hops, Result(Len(hops), status)) \in Seq(HopResult)
<1>1. Len(hops) \in 0..(Hops - 1)
  BY InputsAreTyped
<1>2. Result(Len(hops), status) \in HopResult
  BY <1>1 DEF Result, HopResult
<1> QED
  BY <1>2

LEMMA HopIsNext ==
  ASSUME NEW r \in Requests, mine[r].hops \in Seq(HopResult),
         \A i \in DOMAIN mine[r].hops : mine[r].hops[i].index = i - 1,
         mine'[r].hops = mine[r].hops \/ Passed(r) \/ FailedHop(r)
  PROVE  \A i \in DOMAIN mine'[r].hops : mine'[r].hops[i].index = i - 1
<1>1. ASSUME NEW status \in {"completed", "failed"}, Hopped(r, status),
             NEW i \in DOMAIN mine'[r].hops
      PROVE  mine'[r].hops[i].index = i - 1
  <2>1. CASE i = Len(mine[r].hops) + 1
    <3>1. mine'[r].hops[i] = Result(Len(mine[r].hops), status)
      BY <1>1, <2>1 DEF Hopped
    <3> QED
      BY <2>1, <3>1 DEF Result
  <2>2. CASE i # Len(mine[r].hops) + 1
    <3>1. i \in DOMAIN mine[r].hops /\ mine'[r].hops[i] = mine[r].hops[i]
      BY <1>1, <2>2 DEF Hopped
    <3> QED
      BY <3>1
  <2> QED
    BY <2>1, <2>2
<1> QED
  BY <1>1 DEF Passed, FailedHop

LEMMA PassedIsWhole ==
  ASSUME NEW r \in Requests, mine[r].hops \in Seq(HopResult),
         \A i \in DOMAIN mine[r].hops : mine[r].hops[i].status = "completed", Passed(r)
  PROVE  /\ \A i \in DOMAIN mine'[r].hops : mine'[r].hops[i].status = "completed"
         /\ Len(mine'[r].hops) <= Hops
BY InputsAreTyped DEF Passed, Hopped, Result

LEMMA HopInv ==
  ASSUME IInv, NEW r \in Requests, Hop(r)
  PROVE  IInv'
<1> USE DEF rows
<1>1. TypeOK /\ RequestInv(r) /\ scope[r] \in Seq(Nat)
  BY Asked DEF IInv
<1>0. mine[r] \in Hand
  BY <1>1 DEF TypeOK
<1>d. /\ UNCHANGED <<rows, ask, scope, canceled, answer, troubled, past>> /\ pc[r] = "hop"
      /\ pc' \in {pc, [pc EXCEPT ![r] = "record"]}
  BY DEF Hop, Goto
<1>e. Whole(r) /\ Len(mine[r].hops) <= Hops /\ mine[r].code = None /\ mine[r].recorded = 0
  BY <1>1, <1>d DEF RequestInv, StepsRelyOnTheLast, TraceFollowsTheHops, BeforeHops
<1>b. /\ mine' \in [Requests -> Hand] /\ mine'[r].recorded = 0
      /\ \/ /\ pc'[r] = "hop" /\ Passed(r)
            /\ mine'[r].code = None /\ mine'[r].read = mine[r].read
            /\ mine'[r].payload = mine[r].payload
         \/ pc'[r] = "record" /\ UNCHANGED mine /\ Len(mine[r].hops) = Hops
         \/ pc'[r] = "record" /\ mine'[r].code # None /\ mine'[r].hops = mine[r].hops
         \/ pc'[r] = "record" /\ mine'[r].code # None /\ FailedHop(r)
  <2> DEFINE i == Len(mine[r].hops)
  <2>1. CASE i = Hops /\ Goto(r, "record") /\ UNCHANGED mine
    BY <1>0, <1>1, <1>e, <2>1 DEF TypeOK, Goto
  <2>2. CASE /\ mine' = [mine EXCEPT ![r].payload = "none", ![r].code = "SERVICE_HOP_FAILED"]
             /\ Goto(r, "record")
    <3>1. mine'[r] = [mine[r] EXCEPT !.payload = "none", !.code = "SERVICE_HOP_FAILED"]
      BY <1>1, <2>2 DEF TypeOK
    <3>2. mine'[r] \in Hand
      BY <1>0, <3>1 DEF Hand, Payloads, Codes
    <3>3. mine'[r].code # None
      BY <1>0, <3>1, InputsAreTyped DEF Codes
    <3> QED
      BY <1>0, <1>1, <1>e, <2>2, <3>1, <3>2, <3>3 DEF TypeOK, Goto
  <2>3. ASSUME i < Hops, NEW output \in Payloads, output = mine[r].payload, UNCHANGED pc,
               mine' = [mine EXCEPT ![r].hops = Append(@, Result(i, "completed")),
                                    ![r].payload = output]
        PROVE  /\ mine' \in [Requests -> Hand] /\ mine'[r].recorded = 0
               /\ pc'[r] = "hop" /\ Passed(r)
               /\ mine'[r].code = None /\ mine'[r].read = mine[r].read
               /\ mine'[r].payload = mine[r].payload
    <3>1. mine'[r] = [mine[r] EXCEPT !.hops = Append(mine[r].hops, Result(i, "completed")),
                                     !.payload = output]
      BY <1>1, <2>3 DEF TypeOK
    <3>2. /\ Append(mine[r].hops, Result(i, "completed")) \in Seq(HopResult)
          /\ mine[r].hops \in Seq(HopResult)
      BY <1>0, <2>3, HopIsTyped DEF Hand
    <3>3. mine'[r] \in Hand
      BY <1>0, <3>1, <3>2 DEF Hand
    <3> QED
      BY <1>0, <1>1, <1>d, <1>e, <2>3, <3>1, <3>2, <3>3 DEF TypeOK, Passed, Hopped
  <2>4. ASSUME i < Hops, Goto(r, "record"),
               mine' = [mine EXCEPT ![r].hops = Append(@, Result(i, "failed")),
                                    ![r].payload = "none", ![r].code = "SERVICE_HOP_FAILED"]
        PROVE  /\ mine' \in [Requests -> Hand] /\ mine'[r].recorded = 0
               /\ pc'[r] = "record" /\ mine'[r].code # None /\ FailedHop(r)
    <3>1. mine'[r] = [mine[r] EXCEPT !.hops = Append(mine[r].hops, Result(i, "failed")),
                                     !.payload = "none", !.code = "SERVICE_HOP_FAILED"]
      BY <1>1, <2>4 DEF TypeOK
    <3>2. /\ Append(mine[r].hops, Result(i, "failed")) \in Seq(HopResult)
          /\ mine[r].hops \in Seq(HopResult)
      BY <1>0, <2>4, HopIsTyped DEF Hand
    <3>3. mine'[r] \in Hand
      BY <1>0, <3>1, <3>2 DEF Hand, Payloads, Codes
    <3>4. mine'[r].code # None
      BY <1>0, <3>1, InputsAreTyped DEF Codes
    <3> QED
      BY <1>0, <1>1, <1>e, <2>4, <3>1, <3>2, <3>3, <3>4 DEF TypeOK, Goto, FailedHop, Hopped
  <2> QED
    BY <2>1, <2>2, <2>3, <2>4 DEF Hop
<1>2. TypeOK'
  BY <1>1, <1>b, <1>d DEF TypeOK, Steps
<1>3. Only(r)
  BY <1>1 DEF TypeOK, Only, Same, Hop, Goto
<1>4. KeysAreOwned'
  <2>1. Owns(r)' => Runs(r)
    BY <1>1, <1>b, <1>d DEF Owns, Runs, Push
  <2>2. answer'[r] # "replayed"
    BY <1>1, <1>d DEF RequestInv, StepsRelyOnTheLast
  <2> QED
    BY <1>d, <2>1, <2>2, <1>3, KeysKeep
<1> USE DEF Push, Final, BeforeHops, AfterRecords, Told, Hidden
<1>5. CompleteIfDelivered(r)' /\ PayloadUnlessLost(r)'
  BY <1>1, <1>b, <1>d DEF TypeOK, RequestInv, CompleteIfDelivered, PayloadUnlessLost,
    StepsRelyOnTheLast, PayloadFirst
<1>6. TellsTheOutcome(r)'
  BY <1>1, <1>b, <1>d DEF TypeOK, RequestInv, RowFollowsTheSteps, TellsTheOutcome
<1>7. StepsRelyOnTheLast(r)'
  <2>1. answer'[r] = "none" /\ mine[r].hops \in Seq(HopResult)
    BY <1>0, <1>1, <1>d DEF RequestInv, StepsRelyOnTheLast, Hand
  <2>2. CASE pc'[r] = "hop" /\ Passed(r) /\ mine'[r].code = None
             /\ mine'[r].read = mine[r].read /\ mine'[r].payload = mine[r].payload
    BY <1>d, <1>e, <2>1, <2>2, PassedIsWhole DEF StepsRelyOnTheLast, Whole
  <2>3. CASE pc'[r] = "record" /\ (UNCHANGED mine /\ Len(mine[r].hops) = Hops)
    BY <1>d, <1>e, <2>1, <2>3 DEF StepsRelyOnTheLast, Whole, Routed
  <2>4. CASE pc'[r] = "record" /\ mine'[r].code # None
    BY <2>1, <2>4 DEF StepsRelyOnTheLast
  <2> QED
    BY <1>b, <2>2, <2>3, <2>4
<1>8. PayloadFirst(r)'
  BY <1>1, <1>b, <1>d DEF RequestInv, PayloadFirst
<1>9. RowFollowsTheSteps(r)'
  BY <1>1, <1>b, <1>d DEF RequestInv, RowFollowsTheSteps
<1>10. TraceFollowsTheHops(r)' /\ (r \in canceled' => r \in troubled')
  <2>1. /\ mine[r].hops \in Seq(HopResult)
        /\ \A i \in DOMAIN mine[r].hops : mine[r].hops[i].index = i - 1
    BY <1>0, <1>1 DEF RequestInv, TraceFollowsTheHops, Hand
  <2>2. \A i \in DOMAIN mine'[r].hops : mine'[r].hops[i].index = i - 1
    BY <1>b, <2>1, HopIsNext
  <2> QED
    BY <1>0, <1>1, <1>b, <1>d, <1>e, <2>2 DEF RequestInv, TraceFollowsTheHops
<1> QED
  BY <1>2, <1>3, <1>4, <1>5, <1>6, <1>7, <1>8, <1>9, <1>10, OthersKeep DEF RequestInv

LEMMA RecordInv ==
  ASSUME IInv, NEW r \in Requests, Record(r)
  PROVE  IInv'
<1> USE DEF rows
<1>1. TypeOK /\ RequestInv(r) /\ scope[r] \in Seq(Nat)
  BY Asked DEF IInv
<1> DEFINE i == mine[r].recorded + 1
<1>0. mine[r] \in Hand /\ mine[r].recorded \in Nat /\ mine[r].hops \in Seq(HopResult)
  BY <1>1 DEF TypeOK, Hand
<1>c. /\ UNCHANGED <<executions, transfers, objects, records, ask, scope, canceled, answer, past>>
      /\ pc[r] = "record"
  BY DEF Record
<1>b. \/ /\ i <= Len(mine[r].hops) /\ UNCHANGED pc
         /\ mine' = [mine EXCEPT ![r].recorded = i]
         /\ \/ traces' = [traces EXCEPT ![r] = @ \cup {mine[r].hops[i]}] /\ UNCHANGED troubled
            \/ UNCHANGED traces /\ troubled' = troubled \cup {r}
      \/ /\ i > Len(mine[r].hops) /\ UNCHANGED <<traces, mine, troubled>>
         /\ Goto(r, IF mine[r].code # None THEN "fail" ELSE IF Push(r) THEN "put" ELSE "deliver")
  BY DEF Record, Succeeds, Breaks
<1>d. ASSUME i <= Len(mine[r].hops), mine' = [mine EXCEPT ![r].recorded = i]
      PROVE  /\ mine'[r] = [mine[r] EXCEPT !.recorded = i] /\ mine'[r] \in Hand
             /\ mine[r].hops[i] \in HopResult
  <2>1. mine'[r] = [mine[r] EXCEPT !.recorded = i]
    BY <1>1, <1>d DEF TypeOK
  <2>2. [mine[r] EXCEPT !.recorded = i] \in Hand
    BY <1>0 DEF Hand
  <2>3. mine[r].hops[i] \in HopResult
    BY <1>0, <1>d
  <2> QED
    BY <2>1, <2>2, <2>3
<1>e. /\ mine'[r].hops = mine[r].hops /\ mine'[r].code = mine[r].code
      /\ mine'[r].read = mine[r].read /\ mine'[r].payload = mine[r].payload
      /\ mine' \in [Requests -> Hand]
  BY <1>0, <1>1, <1>b, <1>d DEF TypeOK, Hand
<1>f. \/ pc'[r] = "record"
      \/ pc'[r] = "fail" /\ mine[r].code # None
      \/ pc'[r] \in {"put", "deliver"} /\ mine[r].code = None /\ (pc'[r] = "put" <=> Push(r))
  BY <1>1, <1>b, <1>c DEF TypeOK, Goto
<1>2. TypeOK'
  <2>1. traces' \in [Requests -> SUBSET HopResult]
    BY <1>1, <1>b, <1>d DEF TypeOK
  <2>2. pc' \in [Requests -> Steps]
    BY <1>1, <1>b DEF TypeOK, Steps, Goto
  <2> QED
    BY <1>1, <1>b, <1>c, <1>e, <2>1, <2>2 DEF TypeOK
<1>3. Only(r)
  BY <1>1, <1>b, <1>c DEF TypeOK, Only, Same, Goto
<1>4. KeysAreOwned'
  <2>1. Owns(r)' => Runs(r)
    BY <1>1, <1>c, <1>f DEF Owns, Runs, Push
  <2>2. answer'[r] # "replayed"
    BY <1>1, <1>c DEF RequestInv, StepsRelyOnTheLast
  <2> QED
    BY <1>c, <2>1, <2>2, <1>3, KeysKeep
<1> USE DEF Push, Final, BeforeHops, AfterRecords, Told, Hidden
<1>5. CompleteIfDelivered(r)' /\ PayloadUnlessLost(r)'
  BY <1>1, <1>c, <1>e DEF TypeOK, RequestInv, CompleteIfDelivered, PayloadUnlessLost,
    StepsRelyOnTheLast, PayloadFirst
<1>6. TellsTheOutcome(r)'
  BY <1>1, <1>c, <1>f DEF TypeOK, RequestInv, RowFollowsTheSteps, TellsTheOutcome
<1>7. StepsRelyOnTheLast(r)'
  <2>1. /\ answer'[r] = "none" /\ (mine[r].code = None => Routed(r))
    BY <1>1, <1>c DEF RequestInv, StepsRelyOnTheLast
  <2>2. mine'[r].code = None => Routed(r)'
    BY <1>c, <1>e, <2>1 DEF Routed, Whole
  <2> QED
    BY <1>e, <1>f, <2>1, <2>2 DEF StepsRelyOnTheLast
<1>8. PayloadFirst(r)'
  BY <1>1, <1>c, <1>f DEF RequestInv, PayloadFirst
<1>9. RowFollowsTheSteps(r)'
  BY <1>1, <1>c, <1>f DEF RequestInv, RowFollowsTheSteps
<1>10. TraceFollowsTheHops(r)' /\ (r \in canceled' => r \in troubled')
  <2>1. /\ \A h \in DOMAIN mine[r].hops : mine[r].hops[h].index = h - 1
        /\ mine[r].recorded <= Len(mine[r].hops) /\ (r \in canceled => r \in troubled)
        /\ r \notin troubled =>
             /\ IsFiniteSet(traces[r]) /\ Cardinality(traces[r]) = mine[r].recorded
             /\ \A h \in traces[r] : h.index < mine[r].recorded
    BY <1>1, <1>c DEF RequestInv, TraceFollowsTheHops
  <2>2. CASE i > Len(mine[r].hops) /\ UNCHANGED <<traces, mine, troubled>>
    BY <1>0, <1>c, <1>f, <2>1, <2>2 DEF TraceFollowsTheHops
  <2>3. CASE /\ i <= Len(mine[r].hops) /\ UNCHANGED pc /\ mine' = [mine EXCEPT ![r].recorded = i]
             /\ UNCHANGED traces /\ troubled' = troubled \cup {r}
    BY <1>0, <1>c, <1>d, <1>e, <2>1, <2>3 DEF TraceFollowsTheHops
  <2>4. CASE /\ i <= Len(mine[r].hops) /\ UNCHANGED pc /\ mine' = [mine EXCEPT ![r].recorded = i]
             /\ traces' = [traces EXCEPT ![r] = @ \cup {mine[r].hops[i]}] /\ UNCHANGED troubled
    <3>0. i \in DOMAIN mine[r].hops /\ i - 1 = mine[r].recorded
      BY <1>0, <2>4
    <3>1. mine'[r].recorded = i /\ mine[r].hops[i].index = mine[r].recorded
      BY <1>0, <1>d, <2>1, <2>4, <3>0 DEF Hand
    <3>2. traces'[r] = traces[r] \cup {mine[r].hops[i]}
      BY <1>1, <2>4 DEF TypeOK
    <3>3. ASSUME r \notin troubled
          PROVE  /\ IsFiniteSet(traces'[r]) /\ Cardinality(traces'[r]) = i
                 /\ \A h \in traces'[r] : h.index < i
      <4>1. mine[r].hops[i] \notin traces[r]
        BY <1>0, <2>1, <3>1, <3>3
      <4>2. IsFiniteSet(traces'[r]) /\ Cardinality(traces'[r]) = i
        BY <2>1, <3>2, <3>3, <4>1, FS_AddElement
      <4>3. \A h \in traces[r] : h.index \in Int
        BY <1>1, InputsAreTyped DEF TypeOK, HopResult
      <4> QED
        BY <1>0, <2>1, <3>1, <3>2, <3>3, <4>2, <4>3
    <3> QED
      BY <1>0, <1>c, <1>e, <2>1, <2>4, <3>1, <3>3 DEF TraceFollowsTheHops
  <2> QED
    BY <1>b, <2>2, <2>3, <2>4
<1> QED
  BY <1>2, <1>3, <1>4, <1>5, <1>6, <1>7, <1>8, <1>9, <1>10, OthersKeep DEF RequestInv

LEMMA PutInv ==
  ASSUME IInv, NEW r \in Requests, Put(r)
  PROVE  IInv'
<1> USE DEF Put, Goto, Succeeds, Breaks, rows, GivesUp
<1>1. TypeOK /\ RequestInv(r) /\ scope[r] \in Seq(Nat)
  BY Asked DEF IInv
<1>b. GivesUp(r) \/ (Goto(r, "transfer") /\ UNCHANGED mine /\ objects' = objects \cup {r})
  BY <1>1, GaveUp DEF Codes
<1>2. TypeOK'
  BY <1>1, <1>b DEF TypeOK, Steps
<1>3. Only(r)
  BY <1>1 DEF TypeOK, Only, Same, Fail
<1>4. KeysAreOwned'
  <2>1. Owns(r)' => Runs(r)
    BY <1>1, <1>b DEF Owns, Runs, Push
  <2>2. answer'[r] # "replayed"
    BY <1>1 DEF RequestInv, StepsRelyOnTheLast
  <2> QED
    BY <2>1, <2>2, <1>3, KeysKeep
<1> USE DEF Push, Final, BeforeHops, AfterRecords, Told, Hidden
<1>5. CompleteIfDelivered(r)' /\ PayloadUnlessLost(r)'
  BY <1>1, <1>b DEF TypeOK, RequestInv, CompleteIfDelivered, PayloadUnlessLost,
    StepsRelyOnTheLast, PayloadFirst
<1>6. TellsTheOutcome(r)'
  BY <1>1, <1>b DEF TypeOK, RequestInv, RowFollowsTheSteps, TellsTheOutcome
<1>7. StepsRelyOnTheLast(r)'
  BY <1>1, <1>b DEF TypeOK, RequestInv, StepsRelyOnTheLast, Routed, Whole
<1>8. PayloadFirst(r)'
  BY <1>1, <1>b DEF TypeOK, RequestInv, PayloadFirst
<1>9. RowFollowsTheSteps(r)'
  BY <1>1, <1>b DEF TypeOK, RequestInv, RowFollowsTheSteps
<1>10. TraceFollowsTheHops(r)' /\ (r \in canceled' => r \in troubled')
  BY <1>1, <1>b DEF TypeOK, RequestInv, TraceFollowsTheHops
<1> QED
  BY <1>2, <1>3, <1>4, <1>5, <1>6, <1>7, <1>8, <1>9, <1>10, OthersKeep DEF RequestInv

LEMMA InsertTransferInv ==
  ASSUME IInv, NEW r \in Requests, InsertTransfer(r)
  PROVE  IInv'
<1> USE DEF InsertTransfer, Goto, Succeeds, Breaks
<1>1. TypeOK /\ RequestInv(r) /\ scope[r] \in Seq(Nat)
  BY Asked DEF IInv
<1>2. TypeOK'
  BY <1>1, InputsAreTyped DEF TypeOK, Steps
<1>3. Only(r)
  BY <1>1 DEF TypeOK, Only, Same
<1>4. KeysAreOwned'
  <2>1. Owns(r)' => Runs(r)
    BY <1>1 DEF Owns, Runs, Push
  <2>2. answer'[r] # "replayed"
    BY <1>1 DEF RequestInv, StepsRelyOnTheLast
  <2> QED
    BY <2>1, <2>2, <1>3, KeysKeep
<1> USE DEF Push, Final, BeforeHops, AfterRecords, Told, Hidden
<1>5. CompleteIfDelivered(r)' /\ PayloadUnlessLost(r)'
  BY <1>1 DEF RequestInv, CompleteIfDelivered, PayloadUnlessLost, PayloadFirst
<1>6. TellsTheOutcome(r)'
  BY <1>1 DEF TypeOK, RequestInv, RowFollowsTheSteps, TellsTheOutcome
<1>7. StepsRelyOnTheLast(r)'
  BY <1>1 DEF TypeOK, RequestInv, StepsRelyOnTheLast, Routed, Whole
<1>8. PayloadFirst(r)'
  BY <1>1 DEF TypeOK, RequestInv, PayloadFirst
<1>9. RowFollowsTheSteps(r)'
  BY <1>1, InputsAreTyped DEF TypeOK, RequestInv, RowFollowsTheSteps
<1>10. TraceFollowsTheHops(r)' /\ (r \in canceled' => r \in troubled')
  BY <1>1 DEF TypeOK, RequestInv, TraceFollowsTheHops
<1> QED
  BY <1>2, <1>3, <1>4, <1>5, <1>6, <1>7, <1>8, <1>9, <1>10, OthersKeep DEF RequestInv

LEMMA UndoInv ==
  ASSUME IInv, NEW r \in Requests, Undo(r)
  PROVE  IInv'
<1> USE DEF Undo, Goto, Succeeds, Breaks, rows, GivesUp
<1>1. TypeOK /\ RequestInv(r) /\ scope[r] \in Seq(Nat)
  BY Asked DEF IInv
<1>b. GivesUp(r) /\ mine'[r].code = "INVALID_REQUEST"
  <2>1. Fail(r, "INVALID_REQUEST")
    OBVIOUS
  <2>2. GivesUp(r)
    BY <1>1, <2>1, GaveUp DEF Codes
  <2>3. mine[r] \in Hand /\ mine'[r] = [mine[r] EXCEPT !.code = "INVALID_REQUEST"]
    BY <1>1, <2>1 DEF Fail, TypeOK
  <2> QED
    BY <2>2, <2>3 DEF Hand
<1>2. TypeOK'
  BY <1>1, <1>b DEF TypeOK
<1>3. Only(r)
  BY <1>1 DEF Only, Same, Fail
<1>4. KeysAreOwned'
  <2>1. Owns(r)' => Runs(r)
    BY <1>1, <1>b DEF Owns, Runs, Push
  <2>2. answer'[r] # "replayed"
    BY <1>1 DEF RequestInv, StepsRelyOnTheLast
  <2> QED
    BY <2>1, <2>2, <1>3, KeysKeep
<1> USE DEF Push, Final, BeforeHops, AfterRecords, Told, Hidden
<1>5. CompleteIfDelivered(r)' /\ PayloadUnlessLost(r)'
  BY <1>1, <1>b DEF TypeOK, RequestInv, CompleteIfDelivered, PayloadUnlessLost,
    StepsRelyOnTheLast, PayloadFirst
<1>6. TellsTheOutcome(r)'
  BY <1>1, <1>b DEF TypeOK, RequestInv, RowFollowsTheSteps, TellsTheOutcome
<1>7. StepsRelyOnTheLast(r)'
  BY <1>1, <1>b DEF RequestInv, StepsRelyOnTheLast
<1>8. PayloadFirst(r)'
  BY <1>1, <1>b DEF RequestInv, PayloadFirst
<1>9. RowFollowsTheSteps(r)'
  BY <1>1, <1>b DEF RequestInv, RowFollowsTheSteps
<1>10. TraceFollowsTheHops(r)' /\ (r \in canceled' => r \in troubled')
  BY <1>1, <1>b DEF RequestInv, TraceFollowsTheHops
<1> QED
  BY <1>2, <1>3, <1>4, <1>5, <1>6, <1>7, <1>8, <1>9, <1>10, OthersKeep DEF RequestInv

LEMMA DeliverInv ==
  ASSUME IInv, NEW r \in Requests, Deliver(r)
  PROVE  IInv'
<1> USE DEF Deliver, Goto, Answer, rows
<1>1. TypeOK /\ RequestInv(r) /\ scope[r] \in Seq(Nat)
  BY Asked DEF IInv
<1>a. executions[r] # NoExecution
  BY <1>1 DEF RequestInv, RowFollowsTheSteps
<1>b. /\ executions' \in [Requests -> Execution \cup {NoExecution}]
      /\ executions'[r] # NoExecution
      /\ troubled' \subseteq Requests /\ (r \in troubled => r \in troubled')
      /\ \/ executions'[r] = executions[r]
         \/ executions'[r].state = "delivered" /\ executions'[r].code = None
      /\ r \notin troubled' =>
           /\ executions'[r].state = "delivered" /\ executions'[r].code = None
           /\ executions'[r].completed
  BY <1>1, <1>a, Moved DEF States, Final
<1>2. TypeOK'
  BY <1>1, <1>b DEF TypeOK, Steps, Answers
<1>3. Only(r)
  BY <1>1 DEF TypeOK, Only, Same, Transition, Succeeds, Breaks
<1>4. KeysAreOwned'
  <2>1. Owns(r)' => Runs(r)
    BY <1>1 DEF Owns, Runs, Push
  <2>2. answer'[r] # "replayed"
    BY <1>1 DEF TypeOK, RequestInv, StepsRelyOnTheLast
  <2> QED
    BY <2>1, <2>2, <1>3, KeysKeep
<1> USE DEF Push, Final, BeforeHops, AfterRecords, Told, Hidden
<1>5. CompleteIfDelivered(r)' /\ PayloadUnlessLost(r)'
  BY <1>1, <1>b DEF TypeOK, RequestInv, CompleteIfDelivered, PayloadUnlessLost,
    StepsRelyOnTheLast, PayloadFirst, Routed, Whole
<1>6. TellsTheOutcome(r)'
  BY <1>1, <1>b DEF TypeOK, RequestInv, TellsTheOutcome, TraceFollowsTheHops, StepsRelyOnTheLast,
    PayloadFirst, RowFollowsTheSteps, Routed, Whole
<1>7. StepsRelyOnTheLast(r)'
  BY <1>1, <1>b DEF TypeOK, RequestInv, StepsRelyOnTheLast, Routed, Whole
<1>8. PayloadFirst(r)'
  BY <1>1, <1>b DEF TypeOK, RequestInv, PayloadFirst
<1>9. RowFollowsTheSteps(r)'
  BY <1>1, <1>b DEF TypeOK, RowFollowsTheSteps
<1>10. TraceFollowsTheHops(r)' /\ (r \in canceled' => r \in troubled')
  BY <1>1, <1>b DEF TypeOK, RequestInv, TraceFollowsTheHops
<1> QED
  BY <1>2, <1>3, <1>4, <1>5, <1>6, <1>7, <1>8, <1>9, <1>10, OthersKeep DEF RequestInv

LEMMA FailExecutionInv ==
  ASSUME IInv, NEW r \in Requests, FailExecution(r)
  PROVE  IInv'
<1> USE DEF FailExecution, Goto, Answer, rows
<1>1. TypeOK /\ RequestInv(r) /\ scope[r] \in Seq(Nat)
  BY Asked DEF IInv
<1>0. mine[r] \in Hand /\ mine[r].code \in Codes
  BY <1>1 DEF TypeOK, Hand, RequestInv, StepsRelyOnTheLast
<1>a. executions[r] # NoExecution
  BY <1>1 DEF RequestInv, RowFollowsTheSteps
<1>b. /\ executions' \in [Requests -> Execution \cup {NoExecution}]
      /\ executions'[r] # NoExecution
      /\ troubled' \subseteq Requests /\ (r \in troubled => r \in troubled')
      /\ \/ executions'[r] = executions[r]
         \/ executions'[r].state = "failed" /\ executions'[r].code = mine[r].code
      /\ r \notin troubled' =>
           /\ executions'[r].state = "failed" /\ executions'[r].code = mine[r].code
           /\ executions'[r].completed
  BY <1>0, <1>1, <1>a, Moved DEF States, Final
<1>c. /\ Told(r, mine[r].code) \in Codes \cup {"PATH_NOT_FOUND"}
      /\ Told(r, mine[r].code) \in Answers \ {"none", "delivered", "replayed"}
  BY <1>0 DEF Told, Codes, Answers
<1>2. TypeOK'
  BY <1>0, <1>1, <1>b, <1>c DEF TypeOK, Steps
<1>3. Only(r)
  BY <1>1 DEF TypeOK, Only, Same, Transition, Succeeds, Breaks
<1>4. KeysAreOwned'
  <2>1. Owns(r)' => Runs(r)
    BY <1>1 DEF Owns, Runs, Push
  <2>2. answer'[r] # "replayed"
    BY <1>c, <1>1 DEF TypeOK
  <2> QED
    BY <2>1, <2>2, <1>3, KeysKeep
<1> USE DEF Push, Final, BeforeHops, AfterRecords
<1>5. CompleteIfDelivered(r)' /\ PayloadUnlessLost(r)'
  BY <1>1, <1>0, <1>b, <1>c DEF TypeOK, RequestInv, CompleteIfDelivered, PayloadUnlessLost,
    StepsRelyOnTheLast, PayloadFirst, Codes
<1>6. TellsTheOutcome(r)'
  <2>1. answer'[r] = Told(r, mine[r].code)' /\ answer'[r] # "delivered"
    BY <1>c, <1>1 DEF TypeOK, Told, Hidden
  <2>2. executions[r].state \notin Final
    BY <1>1, <1>a DEF RequestInv, RowFollowsTheSteps
  <2>3. executions'[r] = executions[r] \/ executions'[r].state = "failed"
    BY <1>b
  <2>4. executions'[r].state # "delivered"
    BY <2>2, <2>3
  <2>5. executions'[r].state = "failed" => executions'[r].code = mine[r].code
    BY <1>b, <2>2
  <2>6. answer'[r] = Told(r, executions[r].code)' \/ executions'[r].state # "failed"
    BY <1>1, <2>1, <2>5 DEF Told, Hidden, Push
  <2> QED
    BY <1>0, <1>b, <2>1, <2>4, <2>5, <2>6 DEF TellsTheOutcome
<1>7. StepsRelyOnTheLast(r)'
  BY <1>1, <1>b DEF TypeOK, StepsRelyOnTheLast
<1>8. PayloadFirst(r)'
  BY <1>1, <1>b DEF RequestInv, PayloadFirst
<1>9. RowFollowsTheSteps(r)'
  BY <1>1, <1>b DEF TypeOK, RowFollowsTheSteps
<1>10. TraceFollowsTheHops(r)' /\ (r \in canceled' => r \in troubled')
  BY <1>1, <1>b DEF RequestInv, TraceFollowsTheHops
<1> QED
  BY <1>2, <1>3, <1>4, <1>5, <1>6, <1>7, <1>8, <1>9, <1>10, OthersKeep DEF RequestInv

LEMMA CancelInv ==
  ASSUME IInv, NEW r \in Requests, Cancel(r)
  PROVE  IInv'
<1> USE DEF Cancel, rows
<1>1. TypeOK /\ RequestInv(r) /\ scope[r] \in Seq(Nat)
  BY Asked DEF IInv
<1>2. TypeOK'
  BY <1>1, InputsAreTyped DEF TypeOK
<1>3. Only(r)
  BY <1>1 DEF Only, Same
<1>4. KeysAreOwned'
  <2>1. Owns(r)' => Runs(r)
    BY <1>1 DEF RequestInv, PayloadFirst, Owns, Runs, Push
  <2>2. answer'[r] # "replayed"
    BY <1>1 DEF RequestInv, StepsRelyOnTheLast
  <2> QED
    BY <2>1, <2>2, <1>3, KeysKeep
<1> USE DEF Push, Final, BeforeHops, AfterRecords, Told, Hidden
<1>5. CompleteIfDelivered(r)' /\ PayloadUnlessLost(r)'
  BY <1>1 DEF RequestInv, CompleteIfDelivered, PayloadUnlessLost, StepsRelyOnTheLast
<1>6. TellsTheOutcome(r)'
  BY <1>1 DEF RequestInv, TellsTheOutcome, RowFollowsTheSteps, Whole, Routed
<1>7. StepsRelyOnTheLast(r)'
  BY <1>1 DEF RequestInv, StepsRelyOnTheLast, Routed, Whole
<1>8. PayloadFirst(r)'
  BY <1>1 DEF RequestInv, PayloadFirst
<1>9. RowFollowsTheSteps(r)'
  BY <1>1, InputsAreTyped DEF RequestInv, RowFollowsTheSteps
<1>10. TraceFollowsTheHops(r)' /\ (r \in canceled' => r \in troubled')
  BY <1>1 DEF RequestInv, TraceFollowsTheHops
<1> QED
  BY <1>2, <1>3, <1>4, <1>5, <1>6, <1>7, <1>8, <1>9, <1>10, OthersKeep DEF RequestInv

LEMMA StopInv ==
  ASSUME IInv, NEW r \in Requests, Stop(r)
  PROVE  IInv'
<1> USE DEF Stop, Goto, Answer, rows
<1>1. TypeOK /\ RequestInv(r) /\ scope[r] \in Seq(Nat)
  BY Asked DEF IInv
<1>2. TypeOK'
  BY <1>1, InputsAreTyped DEF TypeOK, Steps, Answers
<1>3. Only(r)
  BY <1>1 DEF Only, Same
<1>4. KeysAreOwned'
  <2>1. Owns(r)' => Runs(r)
    BY <1>1 DEF TypeOK, RequestInv, PayloadFirst, Owns, Runs, Push
  <2>2. answer'[r] # "replayed"
    BY <1>1 DEF TypeOK
  <2> QED
    BY <2>1, <2>2, <1>3, KeysKeep
<1> USE DEF Push, Final, BeforeHops, AfterRecords, Told, Hidden
<1>5. CompleteIfDelivered(r)' /\ PayloadUnlessLost(r)'
  BY <1>1 DEF TypeOK, RequestInv, CompleteIfDelivered, PayloadUnlessLost
<1>6. TellsTheOutcome(r)'
  <2>1. executions[r] # NoExecution => executions[r].state # "failed"
    <3>1. answer[r] = "none"
      BY <1>1 DEF RequestInv, StepsRelyOnTheLast
    <3>2. executions[r] # NoExecution /\ executions[r].state = "failed" =>
            executions[r].code \in Codes /\ "none" \in {executions[r].code, "PATH_NOT_FOUND"}
      BY <1>1, <3>1 DEF RequestInv, TellsTheOutcome
    <3> QED
      BY <3>2 DEF Codes
  <2>2. answer'[r] = "lost" /\ r \in troubled
    BY <1>1 DEF TypeOK, RequestInv
  <2> QED
    BY <1>1, <2>1, <2>2 DEF RequestInv, TellsTheOutcome, Whole, Routed
<1>7. StepsRelyOnTheLast(r)'
  BY <1>1 DEF TypeOK, StepsRelyOnTheLast
<1>8. PayloadFirst(r)'
  BY <1>1 DEF RequestInv, PayloadFirst
<1>9. RowFollowsTheSteps(r)'
  BY <1>1, InputsAreTyped DEF RequestInv, RowFollowsTheSteps
<1>10. TraceFollowsTheHops(r)' /\ (r \in canceled' => r \in troubled')
  BY <1>1 DEF RequestInv, TraceFollowsTheHops
<1> QED
  BY <1>2, <1>3, <1>4, <1>5, <1>6, <1>7, <1>8, <1>9, <1>10, OthersKeep DEF RequestInv

-----------------------------------------------------------------------------
LEMMA InitInv == Init => IInv
<1> SUFFICES ASSUME Init PROVE IInv
  OBVIOUS
<1> USE DEF Init, Nothing
<1>1. Nothing \in Hand
  BY DEF Hand, Payloads
<1>2. TypeOK
  BY <1>1, InputsAreTyped DEF TypeOK, Steps, Answers
<1>3. KeysAreOwned
  <2>1. \A q \in Requests : ~Owns(q) /\ ~Runs(q) /\ answer[q] # "replayed"
    BY DEF Owns, Runs
  <2>2. \A k \in Keys : Free(k)
    BY DEF Free
  <2> QED
    BY <2>1, <2>2 DEF KeysAreOwned
<1>4. ASSUME NEW r \in Requests
      PROVE  RequestInv(r)
  <2>1. scope[r] \in Seq(Nat)
    BY <1>2, Asked
  <2>2. mine[r] = Nothing /\ pc[r] = "start" /\ answer[r] = "none" /\ traces[r] = {}
    OBVIOUS
  <2>3. CompleteIfDelivered(r) /\ TellsTheOutcome(r) /\ PayloadUnlessLost(r)
    BY DEF CompleteIfDelivered, TellsTheOutcome, PayloadUnlessLost
  <2>4. StepsRelyOnTheLast(r) /\ PayloadFirst(r) /\ RowFollowsTheSteps(r)
    BY <2>1 DEF StepsRelyOnTheLast, PayloadFirst, RowFollowsTheSteps, BeforeHops, AfterRecords
  <2>5. IsFiniteSet(traces[r]) /\ Cardinality(traces[r]) = 0
    BY <2>2, FS_EmptySet
  <2>6. TraceFollowsTheHops(r)
    BY <2>2, <2>5 DEF TraceFollowsTheHops, BeforeHops, AfterRecords
  <2> QED
    BY <2>3, <2>4, <2>6 DEF RequestInv
<1> QED
  BY <1>2, <1>3, <1>4 DEF IInv

(* A claim takes a key that nobody owns, or is answered from its record.    *)
LEMMA ClaimInv ==
  ASSUME IInv, NEW r \in Requests, Claim(r)
  PROVE  IInv'
<1> USE DEF Goto, Answer
<1> DEFINE key  == ask[r].key
           open == OpenRecord(r)
<1>1. TypeOK /\ RequestInv(r) /\ KeysAreOwned /\ key \in Keys /\ ask[r].body \in Bodies
  BY Asked DEF IInv, Claim
<1>a. /\ UNCHANGED <<executions, traces, transfers, objects, ask, scope, canceled, past>>
      /\ pc[r] = "start" /\ Push(r)
  BY DEF Claim
<1>b. \/ /\ Free(key) /\ records' = [records EXCEPT ![key] = open]
         /\ Goto(r, "insert") /\ UNCHANGED <<mine, answer, troubled>>
      \/ /\ UNCHANGED <<records, mine, troubled>>
         /\ Answer(r, "key_reused") \/ Answer(r, "in_progress")
      \/ /\ ~Free(key) /\ records[key].body = ask[r].body /\ records[key].response # None
         /\ mine' = [mine EXCEPT ![r].replay = records[key].response]
         /\ Answer(r, "replayed") /\ UNCHANGED <<records, troubled>>
      \/ /\ troubled' = troubled \cup {r} /\ Answer(r, "failed") /\ UNCHANGED mine
         /\ \/ UNCHANGED records
            \/ Free(key) /\ records' = [records EXCEPT ![key] = open]
  BY DEF Claim, Succeeds, Breaks
<1>c. open \in Stored /\ open # NoRecord /\ open.response = None /\ open.live
  <2>1. open \in Stored
    BY <1>1 DEF Stored, OpenRecord
  <2> QED
    BY <2>1, InputsAreTyped DEF OpenRecord
<1>d. r \notin transfers /\ answer[r] = "none" /\ executions[r] = NoExecution
  BY <1>1, <1>a DEF RequestInv, PayloadFirst, StepsRelyOnTheLast, RowFollowsTheSteps
<1>e. ~Free(key) => records[key] \in Stored
  BY <1>1 DEF Free, TypeOK
<1>f. /\ mine' \in [Requests -> Hand]
      /\ \A q \in Requests \ {r} : mine'[q] = mine[q]
      /\ mine'[r].hops = mine[r].hops /\ mine'[r].read = mine[r].read
      /\ mine'[r].code = mine[r].code /\ mine'[r].recorded = mine[r].recorded
      /\ answer'[r] = "replayed" =>
           /\ ~Free(key) /\ records[key].body = ask[r].body /\ records[key].response # None
           /\ mine'[r].replay = records[key].response
  <2>1. CASE UNCHANGED mine /\ answer'[r] # "replayed"
    BY <1>1, <2>1 DEF TypeOK
  <2>2. CASE /\ ~Free(key) /\ records[key].body = ask[r].body /\ records[key].response # None
             /\ mine' = [mine EXCEPT ![r].replay = records[key].response]
    <3>1. records[key].response \in Requests \cup {None}
      BY <1>e, <2>2 DEF Stored
    <3>2. mine[r] \in Hand /\ mine'[r] = [mine[r] EXCEPT !.replay = records[key].response]
      BY <1>1, <2>2 DEF TypeOK
    <3>3. [mine[r] EXCEPT !.replay = records[key].response] \in Hand
      BY <3>1, <3>2 DEF Hand
    <3> QED
      BY <1>1, <2>2, <3>2, <3>3 DEF TypeOK, Hand
  <2>3. answer \in [Requests -> Answers]
    BY <1>1 DEF TypeOK
  <2> QED
    BY <1>b, <1>d, <2>1, <2>2, <2>3
<1>2. TypeOK'
  <2>1. records' \in [Keys -> Stored \cup {NoRecord}]
    BY <1>1, <1>b, <1>c DEF TypeOK
  <2>2. pc' \in [Requests -> Steps] /\ answer' \in [Requests -> Answers]
    BY <1>1, <1>b DEF TypeOK, Steps, Answers
  <2> QED
    BY <1>1, <1>a, <1>b, <1>f, <2>1, <2>2 DEF TypeOK
<1>3. Only(r)
  <2>1. \A q \in Requests \ {r} : pc'[q] = pc[q] /\ answer'[q] = answer[q]
    BY <1>1, <1>b DEF TypeOK
  <2> QED
    BY <1>1, <1>a, <1>b, <1>f, <2>1 DEF TypeOK, Only, Same
<1>4. KeysAreOwned'
  <2>1. \A q \in Requests : /\ Push(q)' = Push(q)
                            /\ q # r => (Owns(q)' => Owns(q)) /\ (Runs(q)' => Runs(q))
    BY <1>3 DEF Only, Same, Push, Owns, Runs
  <2>2. ASSUME NEW k \in Keys
        PROVE  records'[k] = records[k] \/ (k = key /\ Free(k) /\ records'[k] = open)
    BY <1>1, <1>b DEF TypeOK
  <2>3. \A k \in Keys : ~Free(k) => records'[k] = records[k] /\ ~Free(k)'
    BY <2>2 DEF Free
  <2>4. Owns(r)' => Free(key) /\ records'[key] = open /\ ~Free(key)'
    <3>1. Owns(r)' => pc'[r] \notin {"start", "done"}
      BY <1>a, <1>d DEF Owns, Runs
    <3>2. pc'[r] \notin {"start", "done"} =>
            Free(key) /\ records' = [records EXCEPT ![key] = open]
      BY <1>1, <1>b DEF TypeOK
    <3> QED
      BY <1>1, <1>a, <1>c, <3>1, <3>2 DEF TypeOK, Free
  <2>5. \A q \in Requests : Push(q) => ask[q].key \in Keys
    BY <1>1, Asked
  <2>6. \A q \in Requests : Owns(q) \/ Runs(q) => Push(q)
    BY DEF Owns, Runs
  <2>7. \A q \in Requests : Owns(q)' => ~Free(ask[q].key)'
    BY <1>1, <1>a, <2>1, <2>3, <2>4, <2>5, <2>6 DEF KeysAreOwned
  <2>8. \A q \in Requests : Owns(r)' /\ Owns(q)' /\ ask[q].key = key => q = r
    BY <1>1, <2>1, <2>4 DEF KeysAreOwned
  <2>9. \A p, q \in Requests : Owns(p)' /\ Owns(q)' /\ ask[p].key = ask[q].key => p = q
    BY <1>1, <2>1, <2>8 DEF KeysAreOwned
  <2>10. ASSUME NEW q \in Requests, Runs(q)'
         PROVE  records'[ask[q].key] = OpenRecord(q)
    <3>1. CASE q = r
      BY <2>4, <2>10, <3>1 DEF Owns, Runs
    <3>2. CASE q # r
      BY <1>1, <2>1, <2>3, <2>5, <2>6, <2>10, <3>2 DEF KeysAreOwned, Owns
    <3> QED
      BY <3>1, <3>2
  <2>11. ASSUME NEW t \in Requests, answer[t] = "delivered"
         PROVE  answer'[t] = "delivered"
    BY <1>3, <1>d, <2>11 DEF Only, Same
  <2>12. ASSUME NEW k \in Keys, ~Free(k), records[k].response # None
         PROVE  records[k].response \in Requests /\ StoresOf(k, records[k].response)
    BY <1>1, <2>12 DEF KeysAreOwned
  <2>13. ASSUME NEW q \in Requests, answer'[q] = "replayed"
         PROVE  Push(q)' /\ mine'[q].replay \in Requests /\ ReplaysOf(q, mine[q].replay)'
    <3>1. PICK t \in Requests : Push(q) /\ mine'[q].replay = t /\ ReplaysOf(q, t)
      <4>1. CASE q = r
        <5>1. /\ ~Free(key) /\ records[key].body = ask[r].body
              /\ mine'[r].replay = records[key].response
              /\ records[key].response \in Requests /\ StoresOf(key, records[key].response)
          BY <1>1, <1>f, <2>12, <2>13, <4>1
        <5> QED
          BY <1>a, <4>1, <5>1 DEF StoresOf, ReplaysOf
      <4>2. CASE q # r
        <5>1. answer[q] = "replayed" /\ mine'[q] = mine[q]
          BY <1>3, <2>13, <4>2 DEF Only, Same
        <5> QED
          BY <1>1, <5>1 DEF KeysAreOwned
      <4> QED
        BY <4>1, <4>2
    <3> QED
      BY <1>a, <2>1, <2>11, <3>1 DEF ReplaysOf
  <2>14. ASSUME NEW k \in Keys, ~Free(k)', records'[k].response # None
         PROVE  records'[k].response \in Requests /\ StoresOf(k, records[k].response)'
    <3>1. records'[k] = records[k] /\ ~Free(k)
      BY <1>c, <2>2, <2>14 DEF Free
    <3>2. records[k].response \in Requests /\ StoresOf(k, records[k].response)
      BY <2>12, <2>14, <3>1
    <3> QED
      BY <1>a, <2>1, <2>11, <3>1, <3>2 DEF StoresOf
  <2>15. ASSUME NEW q \in past'
         PROVE  Push(q)' /\ pc'[q] = "done"
    <3>1. q \in Requests /\ q \in past /\ Push(q) /\ pc[q] = "done"
      BY <1>1, <1>a, <2>15 DEF KeysAreOwned, TypeOK
    <3> QED
      BY <1>3, <1>a, <2>1, <3>1 DEF Only, Same
  <2>16. \A q \in Requests : answer'[q] = "replayed" =>
           Push(q)' /\ mine'[q].replay \in Requests /\ ReplaysOf(q, mine[q].replay)'
    BY <2>1, <2>13
  <2>17. \A k \in Keys : ~Free(k)' /\ records'[k].response # None =>
           records'[k].response \in Requests /\ StoresOf(k, records[k].response)'
    BY <2>14
  <2>18. \A q \in Requests : Runs(q)' => records'[ask'[q].key] = OpenRecord(q)'
    BY <1>a, <2>10 DEF OpenRecord
  <2>19. \A q \in past' : Push(q)' /\ pc'[q] = "done"
    BY <2>15
  <2> QED
    BY <1>a, <2>7, <2>9, <2>16, <2>17, <2>18, <2>19 DEF KeysAreOwned
<1>5. /\ pc'[r] \in {"insert", "done"} /\ answer'[r] # "delivered"
      /\ pc'[r] # "done" => answer'[r] = "none"
  BY <1>1, <1>b, <1>d DEF TypeOK
<1>6. CompleteIfDelivered(r)' /\ PayloadUnlessLost(r)' /\ TellsTheOutcome(r)'
  BY <1>a, <1>d, <1>5 DEF CompleteIfDelivered, PayloadUnlessLost, TellsTheOutcome
<1>7. StepsRelyOnTheLast(r)' /\ PayloadFirst(r)'
  BY <1>1, <1>a, <1>d, <1>f, <1>5 DEF RequestInv, StepsRelyOnTheLast, PayloadFirst,
    BeforeHops, AfterRecords
<1>8. RowFollowsTheSteps(r)'
  BY <1>a, <1>d, <1>5 DEF RowFollowsTheSteps
<1>9. TraceFollowsTheHops(r)' /\ (r \in canceled' => r \in troubled')
  BY <1>1, <1>a, <1>b, <1>f, <1>5 DEF RequestInv, TraceFollowsTheHops, BeforeHops, AfterRecords
<1> QED
  BY <1>2, <1>3, <1>4, <1>6, <1>7, <1>8, <1>9, OthersKeep DEF RequestInv

(* A record that expires is of a request that is over: what the key made is *)
(* past, and so is every replay of it.                                      *)
LEMMA LapseInv ==
  ASSUME IInv, NEW key \in Keys, Lapse(key)
  PROVE  IInv'
<1>1. TypeOK /\ KeysAreOwned /\ \A q \in Requests : RequestInv(q)
  BY DEF IInv
<1>2. /\ ~Free(key) /\ records' = [records EXCEPT ![key].live = FALSE]
      /\ \A q \in Requests : Push(q) /\ ask[q].key = key => pc[q] \in {"start", "done"}
      /\ past' = past \cup {q \in Requests : Push(q) /\ ask[q].key = key /\ pc[q] = "done"}
      /\ UNCHANGED <<executions, traces, transfers, objects, ask, scope, pc, mine, canceled,
                     answer, troubled>>
  BY DEF Lapse
<1>3. /\ records' \in [Keys -> Stored \cup {NoRecord}]
      /\ Free(key)' /\ \A k \in Keys \ {key} : records'[k] = records[k]
  <2>1. records[key] \in Stored
    BY <1>1, <1>2 DEF Free, TypeOK
  <2>2. records'[key] = [records[key] EXCEPT !.live = FALSE]
    BY <1>1, <1>2 DEF TypeOK
  <2>3. [records[key] EXCEPT !.live = FALSE] \in Stored /\ records'[key].live = FALSE
    BY <2>1, <2>2 DEF Stored
  <2> QED
    BY <1>1, <1>2, <2>2, <2>3 DEF Free, TypeOK
<1>4. TypeOK'
  BY <1>1, <1>2, <1>3 DEF TypeOK
<1>5. ASSUME NEW q \in Requests
      PROVE  RequestInv(q)'
  <2>1. RequestInv(q)
    BY <1>1
  <2> QED
    BY <1>2, <2>1 DEF RequestInv, CompleteIfDelivered, TellsTheOutcome, PayloadUnlessLost,
      StepsRelyOnTheLast, PayloadFirst, RowFollowsTheSteps, TraceFollowsTheHops, Push, Whole,
      Routed, Told, Hidden
<1>6. KeysAreOwned'
  <2>1. \A q \in Requests : Push(q)' = Push(q) /\ Runs(q)' = Runs(q) /\ (Owns(q)' => Owns(q))
    BY <1>2 DEF Push, Runs, Owns
  <2>2. \A q \in Requests : q \in transfers => pc[q] # "start"
    BY <1>1 DEF RequestInv, PayloadFirst
  <2>3. ASSUME NEW q \in Requests, Owns(q)'
        PROVE  ask[q].key \in Keys \ {key}
    <3>1. Push(q) /\ ask[q].key \in Keys
      BY <1>1, <1>2, <2>3, Asked DEF Owns, Runs, Push
    <3>2. ask[q].key # key
      BY <1>2, <2>1, <2>2, <2>3, <3>1 DEF Owns, Runs
    <3> QED
      BY <3>1, <3>2
  <2>4. \A q \in Requests : Owns(q)' => ~Free(ask[q].key)'
    BY <1>1, <1>2, <1>3, <2>1, <2>3 DEF KeysAreOwned, Free
  <2>5. \A p, q \in Requests : Owns(p)' /\ Owns(q)' /\ ask[p].key = ask[q].key => p = q
    BY <1>1, <2>1 DEF KeysAreOwned
  <2>6. \A q \in Requests : Runs(q)' => records'[ask[q].key] = OpenRecord(q)
    BY <1>1, <1>3, <2>1, <2>3 DEF KeysAreOwned, Owns
  <2>7. ASSUME NEW q \in Requests, answer[q] = "replayed"
        PROVE  Push(q) /\ mine[q].replay \in Requests /\ ReplaysOf(q, mine[q].replay)'
    <3>1. PICK t \in Requests : Push(q) /\ t = mine[q].replay /\ ReplaysOf(q, t)
      BY <1>1, <2>7 DEF KeysAreOwned
    <3>2. pc[q] = "done"
      BY <1>1, <2>7 DEF RequestInv, StepsRelyOnTheLast
    <3>3. t \in past' => q \in past'
      BY <1>2, <3>1, <3>2 DEF ReplaysOf
    <3> QED
      BY <1>2, <2>1, <3>1, <3>3 DEF ReplaysOf
  <2>8. ASSUME NEW k \in Keys, ~Free(k)', records'[k].response # None
        PROVE  records'[k].response \in Requests /\ StoresOf(k, records[k].response)'
    <3>1. k # key /\ records'[k] = records[k] /\ ~Free(k)
      BY <1>3, <2>8 DEF Free
    <3>2. records[k].response \in Requests /\ StoresOf(k, records[k].response)
      BY <1>1, <2>8, <3>1 DEF KeysAreOwned
    <3>3. records[k].response \notin past'
      BY <1>2, <3>1, <3>2 DEF StoresOf
    <3> QED
      BY <1>2, <2>1, <3>1, <3>2, <3>3 DEF StoresOf
  <2>9. \A q \in past' : Push(q) /\ pc[q] = "done"
    BY <1>1, <1>2 DEF KeysAreOwned
  <2>10. \A q \in past' : q \in Requests
    BY <1>1, <1>2 DEF TypeOK
  <2>11. \A q \in Requests : answer'[q] = "replayed" =>
           Push(q)' /\ mine'[q].replay \in Requests /\ ReplaysOf(q, mine[q].replay)'
    BY <1>2, <2>1, <2>7
  <2>12. \A k \in Keys : ~Free(k)' /\ records'[k].response # None =>
           records'[k].response \in Requests /\ StoresOf(k, records[k].response)'
    BY <2>8
  <2>13. \A q \in Requests : Runs(q)' => records'[ask'[q].key] = OpenRecord(q)'
    BY <1>2, <2>6 DEF OpenRecord
  <2>14. \A q \in past' : Push(q)' /\ pc'[q] = "done"
    BY <1>2, <2>1, <2>9, <2>10
  <2> QED
    BY <1>2, <2>4, <2>5, <2>11, <2>12, <2>13, <2>14 DEF KeysAreOwned
<1> QED
  BY <1>4, <1>5, <1>6 DEF IInv

(* Only the owner of a key stores a response under it.                      *)
LEMMA CompleteInv ==
  ASSUME IInv, NEW r \in Requests, Complete(r)
  PROVE  IInv'
<1> USE DEF Goto, Answer
<1> DEFINE key == ask[r].key
<1>a. /\ UNCHANGED <<executions, traces, transfers, objects, ask, scope, mine, canceled, past>>
      /\ pc[r] = "complete" /\ Answer(r, "delivered")
      /\ troubled' \in {troubled, troubled \cup {r}}
      /\ records' \in {records, [records EXCEPT ![key].response = r]}
  BY DEF Complete, Succeeds, Breaks
<1>1. TypeOK /\ RequestInv(r) /\ KeysAreOwned
  BY DEF IInv
<1>b. Push(r) /\ r \in transfers \cap objects /\ Routed(r) /\ key \in Keys
      /\ answer[r] = "none" /\ r \notin past /\ Runs(r) /\ Owns(r)
  BY <1>1, <1>a, Asked DEF RequestInv, PayloadFirst, StepsRelyOnTheLast, AfterRecords,
    KeysAreOwned, Runs, Owns
<1>c. records[key] = OpenRecord(r) /\ records[key] \in Stored /\ ~Free(key)
  BY <1>1, <1>b DEF KeysAreOwned, TypeOK, Free
<1>d. ASSUME records' = [records EXCEPT ![key].response = r]
      PROVE  /\ records' \in [Keys -> Stored \cup {NoRecord}]
             /\ records'[key] # NoRecord /\ records'[key].response = r
             /\ records'[key].live /\ records'[key].body = ask[r].body
             /\ \A k \in Keys \ {key} : records'[k] = records[k]
  <2>1. records'[key] = [records[key] EXCEPT !.response = r]
    BY <1>1, <1>b, <1>d DEF TypeOK
  <2>2. [records[key] EXCEPT !.response = r] \in Stored
    BY <1>c DEF Stored
  <2>3. /\ records'[key].response = r
        /\ records'[key].live /\ records'[key].body = ask[r].body
    BY <1>c, <2>1 DEF Stored, OpenRecord
  <2> QED
    BY <1>1, <1>b, <1>d, <2>1, <2>2, <2>3, InputsAreTyped DEF TypeOK
<1>2. TypeOK'
  BY <1>1, <1>a, <1>d DEF TypeOK, Steps, Answers
<1>3. Only(r)
  BY <1>1, <1>a DEF TypeOK, Only, Same
<1>e. answer'[r] = "delivered" /\ pc'[r] = "done"
  BY <1>1, <1>a DEF TypeOK
<1>4. KeysAreOwned'
  <2>1. \A q \in Requests :
          Push(q)' = Push(q) /\ (Owns(q)' => Owns(q)) /\ (Runs(q)' => Runs(q) /\ q # r)
    BY <1>3, <1>a, <1>b, <1>e DEF Only, Same, Push, Owns, Runs
  <2>2. \A k \in Keys : Free(k)' = Free(k) /\ (k # key => records'[k] = records[k])
    BY <1>a, <1>c, <1>d DEF Free
  <2>3. \A q \in Requests : Owns(q) => Push(q) /\ ask[q].key \in Keys
    BY <1>1, Asked DEF Owns, Runs
  <2>4. \A q \in Requests : Owns(q)' => ~Free(ask[q].key)'
    BY <1>1, <1>a, <2>1, <2>2, <2>3 DEF KeysAreOwned
  <2>5. \A p, q \in Requests : Owns(p)' /\ Owns(q)' /\ ask[p].key = ask[q].key => p = q
    BY <1>1, <2>1 DEF KeysAreOwned
  <2>6. ASSUME NEW q \in Requests, Runs(q)'
        PROVE  records'[ask[q].key] = OpenRecord(q)
    <3>1. Runs(q) /\ Owns(q) /\ q # r
      BY <2>1, <2>6 DEF Owns
    <3>2. ask[q].key # key /\ records[ask[q].key] = OpenRecord(q)
      BY <1>1, <1>b, <3>1 DEF KeysAreOwned
    <3> QED
      BY <2>2, <2>3, <3>1, <3>2
  <2>7. \A t \in Requests : answer[t] = "delivered" => answer'[t] = "delivered"
    BY <1>3, <1>e DEF Only, Same
  <2>8. ASSUME NEW q \in Requests, answer'[q] = "replayed"
        PROVE  Push(q) /\ mine[q].replay \in Requests /\ ReplaysOf(q, mine[q].replay)'
    <3>1. answer[q] = "replayed"
      BY <1>3, <1>e, <2>8 DEF Only, Same
    <3>2. Push(q) /\ mine[q].replay \in Requests /\ ReplaysOf(q, mine[q].replay)
      BY <1>1, <3>1 DEF KeysAreOwned
    <3> QED
      BY <1>a, <2>1, <2>7, <3>2 DEF ReplaysOf
  <2>9. ASSUME NEW k \in Keys, ~Free(k)', records'[k].response # None
        PROVE  records'[k].response \in Requests /\ StoresOf(k, records[k].response)'
    <3>1. CASE records'[k] = records[k]
      <4>1. records[k].response \in Requests /\ StoresOf(k, records[k].response)
        BY <1>1, <2>2, <2>9, <3>1 DEF KeysAreOwned
      <4> QED
        BY <1>a, <2>1, <2>7, <3>1, <4>1 DEF StoresOf
    <3>2. CASE records'[k] # records[k]
      <4>1. k = key /\ records'[k].response = r /\ records'[k].body = ask[r].body
        BY <1>a, <1>d, <2>2, <3>2
      <4> QED
        BY <1>a, <1>b, <1>e, <2>1, <4>1 DEF StoresOf
    <3> QED
      BY <3>1, <3>2
  <2>10. ASSUME NEW q \in past'
         PROVE  Push(q)' /\ pc'[q] = "done"
    <3>1. q \in Requests /\ Push(q) /\ pc[q] = "done"
      BY <1>1, <1>a, <2>10 DEF KeysAreOwned, TypeOK
    <3> QED
      BY <1>3, <1>e, <2>1, <3>1 DEF Only, Same
  <2>11. \A q \in Requests : answer'[q] = "replayed" =>
           Push(q)' /\ mine'[q].replay \in Requests /\ ReplaysOf(q, mine[q].replay)'
    BY <1>a, <2>1, <2>8
  <2>12. \A k \in Keys : ~Free(k)' /\ records'[k].response # None =>
           records'[k].response \in Requests /\ StoresOf(k, records[k].response)'
    BY <2>9
  <2>13. \A q \in Requests : Runs(q)' => records'[ask'[q].key] = OpenRecord(q)'
    BY <1>a, <2>6 DEF OpenRecord
  <2>14. \A q \in past' : Push(q)' /\ pc'[q] = "done"
    BY <2>10
  <2> QED
    BY <1>a, <2>4, <2>5, <2>11, <2>12, <2>13, <2>14 DEF KeysAreOwned
<1> USE DEF BeforeHops, AfterRecords
<1>5. pc'[r] = "done" /\ answer'[r] = "delivered"
  BY <1>e
<1>6. CompleteIfDelivered(r)' /\ PayloadUnlessLost(r)'
  BY <1>a, <1>b DEF CompleteIfDelivered, PayloadUnlessLost, Routed, Whole, Push
<1>7. TellsTheOutcome(r)'
  BY <1>1, <1>a, <1>b, <1>5 DEF RequestInv, TellsTheOutcome, RowFollowsTheSteps,
    TraceFollowsTheHops, Routed, Whole, Push, Told, Hidden, Final, Codes
<1>8. StepsRelyOnTheLast(r)' /\ PayloadFirst(r)' /\ RowFollowsTheSteps(r)'
  BY <1>1, <1>a, <1>b, <1>5 DEF StepsRelyOnTheLast, PayloadFirst, RowFollowsTheSteps, Push
<1>9. TraceFollowsTheHops(r)' /\ (r \in canceled' => r \in troubled')
  BY <1>1, <1>a, <1>5 DEF RequestInv, TraceFollowsTheHops
<1> QED
  BY <1>2, <1>3, <1>4, <1>6, <1>7, <1>8, <1>9, OthersKeep DEF RequestInv

-----------------------------------------------------------------------------
LEMMA StutterInv == IInv /\ UNCHANGED vars => IInv'
<1> SUFFICES ASSUME IInv, UNCHANGED vars PROVE IInv'
  OBVIOUS
<1> USE DEF vars, Push, Whole, Routed
<1>1. TypeOK' /\ KeysAreOwned'
  BY DEF IInv, TypeOK, KeysAreOwned, Owns, Runs, Free, OpenRecord, ReplaysOf, StoresOf
<1>2. ASSUME NEW r \in Requests PROVE RequestInv(r)'
  <2>1. RequestInv(r)
    BY DEF IInv
  <2> QED
    BY <2>1 DEF RequestInv, CompleteIfDelivered, TellsTheOutcome, PayloadUnlessLost,
      StepsRelyOnTheLast, PayloadFirst, RowFollowsTheSteps, TraceFollowsTheHops, Told, Hidden
<1> QED
  BY <1>1, <1>2 DEF IInv

LEMMA NextInv == IInv /\ [Next]_vars => IInv'
<1> SUFFICES ASSUME IInv, Next PROVE IInv'
  BY StutterInv
<1>1. ASSUME NEW r \in Requests, Execute(r)
      PROVE  IInv'
  BY <1>1, RefuseInv, InsertInv, DecideInv, BeginReadInv, ReadInv, QueryInv, BeginProcessingInv,
    HopInv, RecordInv, PutInv, InsertTransferInv, UndoInv, DeliverInv, FailExecutionInv DEF Execute
<1> QED
  BY <1>1, PullInv, ClaimInv, CompleteInv, CancelInv, StopInv, LapseInv DEF Next

-----------------------------------------------------------------------------
(* The strengthened invariant from which the others follow.                 *)
THEOREM Invariance == Spec => []IInv
<1> QED
  BY InitInv, NextInv, PTL DEF Spec

(* Every variable of a reachable state has its type.                        *)
THEOREM TypeCorrect == Spec => []TypeOK
<1>1. IInv => TypeOK
  BY DEF IInv
<1> QED
  BY <1>1, Invariance, PTL

(* A client of executeRoute is told of a delivery only after all of the     *)
(* scope went through every Service unchanged, and of a push only when a    *)
(* transfer and its payload are stored.                                     *)
THEOREM DeliveryIsCompleteAlways == Spec => []DeliveryIsComplete
<1>1. IInv => DeliveryIsComplete
  BY DEF IInv, RequestInv, DeliveryIsComplete
<1> QED
  BY <1>1, Invariance, PTL

(* In the life of an idempotency record sendQueryPath makes at most one     *)
(* transfer under its key, and it replays only what was delivered under the *)
(* record that it found, whichever calls fail.                              *)
THEOREM KeyTransfersOnceAlways == Spec => []KeyTransfersOnce
<1>1. IInv => KeyTransfersOnce
  <2> SUFFICES ASSUME IInv PROVE KeyTransfersOnce
    OBVIOUS
  <2>1. \A r, q \in Requests : OneTransfer(r, q)
    BY DEF IInv, KeysAreOwned, Owns, OneTransfer
  <2> QED
    BY <2>1 DEF IInv, KeysAreOwned, KeyTransfersOnce
<1> QED
  BY <1>1, Invariance, PTL

(* The row of an execution never tells of an outcome that its client was    *)
(* not told of or that executeRoute did not reach; with no failed call the  *)
(* row and the trace tell all of it.                                        *)
THEOREM ExecutionsTellTheOutcomeAlways == Spec => []ExecutionsTellTheOutcome
<1>1. IInv => ExecutionsTellTheOutcome
  BY DEF IInv, RequestInv, ExecutionsTellTheOutcome
<1> QED
  BY <1>1, Invariance, PTL

(* A transfer misses its payload only where the answer to its insert was    *)
(* lost and executeRoute deleted the payload.                               *)
THEOREM OnlyALostInsertOrphansAlways == Spec => []OnlyALostInsertOrphans
<1>1. IInv => OnlyALostInsertOrphans
  BY DEF IInv, RequestInv, OnlyALostInsertOrphans
<1> QED
  BY <1>1, Invariance, PTL

(* No step changes the row or the trace of an execution that is final,      *)
(* though TransitionExecution would overwrite it.                           *)
THEOREM FinalStatesStayAlways == Spec => FinalStatesStay
<1> DEFINE Stays == \A r \in Requests :
      executions[r] # NoExecution /\ executions[r].state \in Final =>
        executions'[r] = executions[r] /\ traces'[r] = traces[r]
<1>1. IInv /\ [Next]_vars => [Stays]_vars
  <2> SUFFICES ASSUME IInv, Next PROVE Stays
    OBVIOUS
  <2> SUFFICES ASSUME NEW q \in Requests, executions[q] # NoExecution, executions[q].state \in Final
               PROVE  executions'[q] = executions[q] /\ traces'[q] = traces[q]
    OBVIOUS
  <2>1. pc[q] \in {"complete", "done"} /\ TypeOK
    BY DEF IInv, RequestInv, RowFollowsTheSteps
  <2>2. ASSUME NEW r \in Requests, Execute(r)
        PROVE  executions'[q] = executions[q] /\ traces'[q] = traces[q]
    BY <2>1, <2>2 DEF TypeOK, Execute, Refuse, Insert, Decide, BeginRead, Read, Query,
      BeginProcessing, Hop, Record, Put, InsertTransfer, Undo, Deliver, FailExecution,
      Transition, rows
  <2>3. ASSUME NEW r \in Requests, Pull(r) \/ Claim(r) \/ Complete(r) \/ Cancel(r) \/ Stop(r)
        PROVE  executions'[q] = executions[q] /\ traces'[q] = traces[q]
    BY <2>3 DEF Pull, Claim, Complete, Cancel, Stop, rows
  <2>4. ASSUME NEW key \in Keys, Lapse(key)
        PROVE  executions'[q] = executions[q] /\ traces'[q] = traces[q]
    BY <2>4 DEF Lapse
  <2> QED
    BY <2>2, <2>3, <2>4 DEF Next
<1> QED
  BY <1>1, Invariance, PTL DEF Spec, FinalStatesStay
=============================================================================
