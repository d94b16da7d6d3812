--------------------------- MODULE RouteExecution ---------------------------
(***************************************************************************)
(* One query path's executions: executeRoute of                            *)
(* httpapi/handlers_execution.go with ExecuteHops of routes/service.go,    *)
(* under sendQueryPath, which claims an idempotency key first, or          *)
(* pullQueryPath.  Its calls of database and storage are steps of their    *)
(* own: each may fail, before or after it took effect, and all fail once   *)
(* the client is gone.  A key's record expires in time, and the key may    *)
(* then be claimed again.                                                  *)
(*                                                                         *)
(* PolicyRules says whom Authorize lets through and Transfers what becomes *)
(* of a transfer; a request, its execution and its transfer share a name.  *)
(***************************************************************************)
EXTENDS Naturals, Sequences, FiniteSets

CONSTANTS
  Requests,     (* the requests of the run                                 *)
  Asks,         (* what a request may ask for                              *)
  Keys,         (* idempotency keys                                        *)
  Bodies,       (* the queries that may be asked for                       *)
  Scopes,       (* the sizes of the assets that the path may have in scope *)
  Hops,         (* how many Services the path's route has                  *)
  MaxPayload,   (* the MaxPayloadBytes setting                             *)
  NoExecution,  (* no row in route_executions                              *)
  NoRecord,     (* the key was not used                                    *)
  None          (* nothing stored yet                                      *)

VARIABLES
  executions,   (* the rows of route_executions                            *)
  traces,       (* the rows of execution_hops, by execution                *)
  transfers,    (* the requests that have a row in transfers               *)
  objects,      (* the requests whose payload the storage service has      *)
  records,      (* the rows of idempotency_records                         *)
  ask,          (* what each request asks for                              *)
  scope,        (* the assets of each request's path                       *)
  pc,           (* the next call of each request                           *)
  mine,         (* what each request has in hand                           *)
  canceled,     (* the requests whose client is gone                       *)
  answer,       (* what each client was answered                           *)
  troubled,     (* history: requests that saw a call fail                  *)
  past          (* history: sends whose key's record has expired since     *)

rows == <<executions, traces, transfers, objects, records>>
vars == <<executions, traces, transfers, objects, records, ask, scope, pc, mine, canceled,
          answer, troubled, past>>

(* A pull of another owner's private path is not to learn that it exists.   *)
Ask == [mode: {"pull"}, hidden: BOOLEAN] \cup [mode: {"push"}, key: Keys, body: Bodies]

Final     == {"delivered", "failed"}
States    == {"authorizing", "reading", "processing"} \cup Final
Codes     == {"ASSET_UNAVAILABLE", "PAYLOAD_TOO_LARGE", "QUERY_INVALID", "NOT_AUTHORIZED",
              "SERVICE_HOP_FAILED", "STORAGE_PROVIDER_ERROR", "INVALID_REQUEST"}
Execution == [state: States, started: BOOLEAN, completed: BOOLEAN, code: Codes \cup {None}]

(* A payload is what was read, until a Service changes its bytes or its     *)
(* name and media type.                                                     *)
Payloads  == {"none", "as_read", "other_bytes", "other_envelope"}
HopResult == [index: 0..(Hops - 1), status: {"completed", "failed"}]

(* What a request has in hand: assets and bytes read, the payload, the      *)
(* results of the hops and how many are recorded, why it failed, and whose  *)
(* response it found stored.                                                *)
Hand   == [read: Nat, total: Nat, payload: Payloads, hops: Seq(HopResult), recorded: Nat,
           code: Codes \cup {None}, replay: Requests \cup {None}]
Stored == [body: Bodies, response: Requests \cup {None}, live: BOOLEAN]

Answers == {"none", "delivered", "failed", "lost", "key_reused", "in_progress", "replayed",
            "refused", "PATH_NOT_FOUND"} \cup Codes

Steps == {"start", "insert", "authorize", "begin_read", "read", "query", "begin_processing",
          "hop", "record", "put", "transfer", "undo", "deliver", "complete", "fail", "done"}

ASSUME InputsAreTyped ==
  /\ Asks \subseteq Ask /\ Scopes \subseteq Seq(Nat)
  /\ Hops \in Nat /\ MaxPayload \in Nat
  /\ NoExecution \notin Execution /\ None \notin Codes \cup Requests
  /\ NoRecord \notin Stored

Nothing == [read |-> 0, total |-> 0, payload |-> "none", hops |-> <<>>, recorded |-> 0,
            code |-> None, replay |-> None]

Init ==
  /\ executions = [r \in Requests |-> NoExecution]
  /\ traces = [r \in Requests |-> {}]
  /\ transfers = {} /\ objects = {}
  /\ records = [k \in Keys |-> NoRecord]
  /\ ask \in [Requests -> Asks]
  /\ scope \in [Requests -> Scopes]
  /\ pc = [r \in Requests |-> "start"]
  /\ mine = [r \in Requests |-> Nothing]
  /\ canceled = {}
  /\ answer = [r \in Requests |-> "none"]
  /\ troubled = {} /\ past = {}

-----------------------------------------------------------------------------
Goto(r, step) == pc' = [pc EXCEPT ![r] = step]

Answer(r, a) ==
  /\ Goto(r, "done")
  /\ answer' = [answer EXCEPT ![r] = a]

Push(r)   == ask[r].mode = "push"
Hidden(r) == ~Push(r) /\ ask[r].hidden

(* What a request is told when executeRoute returns an error.               *)
Told(r, code) == IF Hidden(r) THEN "PATH_NOT_FOUND" ELSE code

(* A call that does what it should, and one that fails; what it left behind *)
(* is for the action to say.                                                *)
Succeeds(r) == r \notin canceled /\ UNCHANGED troubled
Breaks(r)   == troubled' = troubled \cup {r}

(* failExecution with a code is the step "fail".                            *)
Fail(r, code) ==
  /\ mine' = [mine EXCEPT ![r].code = code]
  /\ Goto(r, "fail")

(* TransitionExecution, whose error every caller ignores.  It overwrites    *)
(* everything but the start time.                                           *)
Transition(r, state, code, starts) ==
  \/ /\ Succeeds(r)
     /\ executions' = [executions EXCEPT ![r] =
          [state |-> state, code |-> code, completed |-> state \in Final,
           started |-> @.started \/ starts]]
  \/ /\ Breaks(r)
     /\ UNCHANGED executions

-----------------------------------------------------------------------------
(* Without the path, or an initiating Brain, there is nothing to execute.   *)
Pull(r) ==
  /\ pc[r] = "start" /\ ~Push(r)
  /\ \/ Goto(r, "insert") /\ UNCHANGED answer
     \/ \E code \in {"PATH_NOT_FOUND", Told(r, "refused")} : Answer(r, code)
  /\ UNCHANGED <<rows, ask, scope, mine, canceled, troubled, past>>

(* A key is free without a record or with one that has expired, which       *)
(* CreateIdempotencyRecord takes over: nothing of what it held is left.     *)
Free(key) == ~(records[key] # NoRecord /\ records[key].live)

OpenRecord(r) == [body |-> ask[r].body, response |-> None, live |-> TRUE]

(* Seeded fault: a request that is still in progress is started again.      *)
ClaimUnanswered(r) ==
  /\ pc[r] = "start" /\ Push(r)
  /\ Succeeds(r)
  /\ LET record == records[ask[r].key] IN
     IF Free(ask[r].key) \/ record = OpenRecord(r)
       THEN /\ records' = [records EXCEPT ![ask[r].key] = OpenRecord(r)]
            /\ Goto(r, "insert")
            /\ UNCHANGED <<mine, answer>>
       ELSE /\ Answer(r, IF record.body # ask[r].body THEN "key_reused" ELSE "replayed")
            /\ mine' = [mine EXCEPT ![r].replay = record.response]
            /\ UNCHANGED records
  /\ UNCHANGED <<executions, traces, transfers, objects, ask, scope, canceled, past>>

(* startIdempotency: a request claims a key that is free; another is        *)
(* answered from what the one that claimed it has stored.                   *)
Claim(r) ==
  /\ pc[r] = "start" /\ Push(r)
  /\ LET key     == ask[r].key
         record  == records[key]
         claimed == [records EXCEPT ![key] = OpenRecord(r)]
     IN \/ /\ Free(key) /\ Succeeds(r)
           /\ records' = claimed
           /\ Goto(r, "insert")
           /\ UNCHANGED <<mine, answer>>
        \/ /\ ~Free(key) /\ Succeeds(r)
           /\ record.body # ask[r].body \/ record.response = None
           /\ Answer(r, IF record.body # ask[r].body THEN "key_reused" ELSE "in_progress")
           /\ UNCHANGED <<records, mine>>
        \/ /\ ~Free(key) /\ Succeeds(r)
           /\ record.body = ask[r].body /\ record.response # None
           /\ mine' = [mine EXCEPT ![r].replay = record.response]
           /\ Answer(r, "replayed")
           /\ UNCHANGED records
        \/ /\ Breaks(r)
           /\ records' \in {records, IF Free(key) THEN claimed ELSE records}
           /\ Answer(r, "failed")
           /\ UNCHANGED mine
  /\ UNCHANGED <<executions, traces, transfers, objects, ask, scope, canceled, past>>

(* A record outlives its TTL, a day: far longer than the request that has   *)
(* claimed the key runs.                                                    *)
Lapse(key) ==
  /\ ~Free(key)
  /\ \A r \in Requests : Push(r) /\ ask[r].key = key => pc[r] \in {"start", "done"}
  /\ records' = [records EXCEPT ![key].live = FALSE]
  /\ past' = past \cup {r \in Requests : Push(r) /\ ask[r].key = key /\ pc[r] = "done"}
  /\ UNCHANGED <<executions, traces, transfers, objects, ask, scope, pc, mine, canceled,
                 answer, troubled>>

(* What executeRoute asks before there is an execution; the key of a send   *)
(* is claimed by then.                                                      *)
Refuse(r) ==
  /\ pc[r] = "insert"
  /\ Answer(r, Told(r, "refused"))
  /\ UNCHANGED <<rows, ask, scope, mine, canceled, troubled, past>>

(* Seeded fault: the state is left to the column's default.                 *)
InsertByDefault(r) ==
  /\ pc[r] = "insert" /\ Succeeds(r)
  /\ executions' = [executions EXCEPT ![r] =
       [state |-> "created", started |-> FALSE, completed |-> FALSE, code |-> None]]
  /\ Goto(r, "authorize")
  /\ UNCHANGED <<traces, transfers, objects, records, ask, scope, mine, canceled, answer, past>>

(* InsertExecution.                                                         *)
Insert(r) ==
  /\ pc[r] = "insert"
  /\ LET row == [state |-> "authorizing", started |-> FALSE, completed |-> FALSE,
                 code |-> None]
     IN \/ /\ Succeeds(r)
           /\ executions' = [executions EXCEPT ![r] = row]
           /\ Goto(r, "authorize")
           /\ UNCHANGED answer
        \/ /\ Breaks(r)
           /\ executions' \in {executions, [executions EXCEPT ![r] = row]}
           /\ Answer(r, Told(r, "failed"))
  /\ UNCHANGED <<traces, transfers, objects, records, ask, scope, mine, canceled, past>>

(* Authorize decides.                                                       *)
Decide(r) ==
  /\ pc[r] = "authorize"
  /\ \/ Goto(r, "begin_read") /\ UNCHANGED mine
     \/ Fail(r, "NOT_AUTHORIZED")
  /\ UNCHANGED <<rows, ask, scope, canceled, answer, troubled, past>>

BeginRead(r) ==
  /\ pc[r] = "begin_read"
  /\ Transition(r, "reading", None, TRUE)
  /\ Goto(r, "read")
  /\ UNCHANGED <<traces, transfers, objects, records, ask, scope, mine, canceled, answer, past>>

(* The next asset: not available, not there, not what its checksum says or  *)
(* too large for what is left of the limit, all of which is one code.       *)
Read(r) ==
  /\ pc[r] = "read"
  /\ LET i == mine[r].read + 1 IN
     \/ /\ i > Len(scope[r])
        /\ mine' = [mine EXCEPT ![r].payload = "as_read"]
        /\ Goto(r, "query")
        /\ UNCHANGED troubled
     \/ /\ i <= Len(scope[r]) /\ mine[r].total + scope[r][i] <= MaxPayload /\ Succeeds(r)
        /\ mine' = [mine EXCEPT ![r].read = i, ![r].total = @ + scope[r][i]]
        /\ UNCHANGED pc
     \/ /\ i <= Len(scope[r]) /\ (Succeeds(r) \/ Breaks(r))
        /\ Fail(r, "ASSET_UNAVAILABLE")
  /\ UNCHANGED <<rows, ask, scope, canceled, answer, past>>

(* query.Execute answers, refuses the query, or finds its answer too large. *)
Query(r) ==
  /\ pc[r] = "query"
  /\ \/ Goto(r, "begin_processing") /\ UNCHANGED mine
     \/ \E code \in {"QUERY_INVALID", "PAYLOAD_TOO_LARGE"} : Fail(r, code)
  /\ UNCHANGED <<rows, ask, scope, canceled, answer, troubled, past>>

BeginProcessing(r) ==
  /\ pc[r] = "begin_processing"
  /\ Transition(r, "processing", None, TRUE)
  /\ Goto(r, "hop")
  /\ UNCHANGED <<traces, transfers, objects, records, ask, scope, mine, canceled, answer, past>>

Result(i, status) == [index |-> i, status |-> status]

(* Seeded fault: a Service is held to the bytes only.                       *)
HopComparingBytes(r) ==
  /\ pc[r] = "hop"
  /\ \/ /\ Len(mine[r].hops) = Hops
        /\ Goto(r, "record")
        /\ UNCHANGED mine
     \/ /\ Len(mine[r].hops) < Hops
        /\ \E output \in {"as_read", "other_envelope"} :
             mine' = [mine EXCEPT ![r].hops = Append(@, Result(Len(@), "completed")),
                                  ![r].payload = output]
        /\ UNCHANGED pc
  /\ UNCHANGED <<rows, ask, scope, canceled, answer, troubled, past>>

(* ExecuteHops, one Service: it returns an error or a payload, which is     *)
(* released only if it is the one that went in.  A client that is gone ends *)
(* the traversal.                                                           *)
Hop(r) ==
  /\ pc[r] = "hop"
  /\ LET i == Len(mine[r].hops) IN
     \/ /\ i = Hops
        /\ Goto(r, "record")
        /\ UNCHANGED mine
     \/ /\ i < Hops /\ r \in canceled
        /\ mine' = [mine EXCEPT ![r].payload = "none", ![r].code = "SERVICE_HOP_FAILED"]
        /\ Goto(r, "record")
     \/ /\ i < Hops /\ r \notin canceled
        /\ \E output \in Payloads :
             IF output = mine[r].payload
               THEN /\ mine' = [mine EXCEPT ![r].hops = Append(@, Result(i, "completed")),
                                            ![r].payload = output]
                    /\ UNCHANGED pc
               ELSE /\ mine' = [mine EXCEPT ![r].hops = Append(@, Result(i, "failed")),
                                            ![r].payload = "none",
                                            ![r].code = "SERVICE_HOP_FAILED"]
                    /\ Goto(r, "record")
  /\ UNCHANGED <<rows, ask, scope, canceled, answer, troubled, past>>

(* InsertExecutionHop for each result, whose errors are ignored.            *)
Record(r) ==
  /\ pc[r] = "record"
  /\ LET i == mine[r].recorded + 1 IN
     \/ /\ i <= Len(mine[r].hops)
        /\ \/ Succeeds(r) /\ traces' = [traces EXCEPT ![r] = @ \cup {mine[r].hops[i]}]
           \/ Breaks(r) /\ UNCHANGED traces
        /\ mine' = [mine EXCEPT ![r].recorded = i]
        /\ UNCHANGED pc
     \/ /\ i > Len(mine[r].hops)
        /\ Goto(r, IF mine[r].code # None THEN "fail"
                   ELSE IF Push(r) THEN "put" ELSE "deliver")
        /\ UNCHANGED <<traces, mine, troubled>>
  /\ UNCHANGED <<executions, transfers, objects, records, ask, scope, canceled, answer, past>>

(* Seeded fault: the payload is stored, if it is, while the row is made.    *)
PutUnchecked(r) ==
  /\ pc[r] = "put"
  /\ \/ Succeeds(r) /\ objects' = objects \cup {r}
     \/ Breaks(r) /\ objects' \in {objects, objects \cup {r}}
  /\ Goto(r, "transfer")
  /\ UNCHANGED <<executions, traces, transfers, records, ask, scope, mine, canceled, answer, past>>

(* A push: the payload goes to the storage service under a new path.        *)
Put(r) ==
  /\ pc[r] = "put"
  /\ \/ /\ Succeeds(r)
        /\ objects' = objects \cup {r}
        /\ Goto(r, "transfer")
        /\ UNCHANGED mine
     \/ /\ Breaks(r)
        /\ objects' \in {objects, objects \cup {r}}
        /\ Fail(r, "STORAGE_PROVIDER_ERROR")
  /\ UNCHANGED <<executions, traces, transfers, records, ask, scope, canceled, answer, past>>

(* InsertTransfer.  An error may come after the insert was committed.       *)
InsertTransfer(r) ==
  /\ pc[r] = "transfer"
  /\ \/ /\ Succeeds(r)
        /\ transfers' = transfers \cup {r}
        /\ Goto(r, "deliver")
     \/ /\ Breaks(r)
        /\ transfers' \in {transfers, transfers \cup {r}}
        /\ Goto(r, "undo")
  /\ UNCHANGED <<executions, traces, objects, records, ask, scope, mine, canceled, answer, past>>

(* After an error its payload is deleted; that it fails is ignored.         *)
Undo(r) ==
  /\ pc[r] = "undo"
  /\ \/ Succeeds(r) /\ objects' = objects \ {r}
     \/ Breaks(r) /\ UNCHANGED objects
  /\ Fail(r, "INVALID_REQUEST")
  /\ UNCHANGED <<executions, traces, transfers, records, ask, scope, canceled, answer, past>>

Deliver(r) ==
  /\ pc[r] = "deliver"
  /\ Transition(r, "delivered", None, TRUE)
  /\ IF Push(r)
       THEN Goto(r, "complete") /\ UNCHANGED answer
       ELSE Answer(r, "delivered")
  /\ UNCHANGED <<traces, transfers, objects, records, ask, scope, mine, canceled, past>>

(* Seeded fault: a response that cannot be stored fails the execution.      *)
CompleteOrFail(r) ==
  /\ pc[r] = "complete"
  /\ \/ /\ Succeeds(r)
        /\ records' = [records EXCEPT ![ask[r].key].response = r]
        /\ Answer(r, "delivered")
        /\ UNCHANGED mine
     \/ /\ Breaks(r)
        /\ Fail(r, "INVALID_REQUEST")
        /\ UNCHANGED <<records, answer>>
  /\ UNCHANGED <<executions, traces, transfers, objects, ask, scope, canceled, past>>

(* CompleteIdempotencyRecord, whose error is ignored.                       *)
Complete(r) ==
  /\ pc[r] = "complete"
  /\ \/ /\ Succeeds(r)
        /\ records' = [records EXCEPT ![ask[r].key].response = r]
     \/ /\ Breaks(r)
        /\ UNCHANGED records
  /\ Answer(r, "delivered")
  /\ UNCHANGED <<executions, traces, transfers, objects, ask, scope, mine, canceled, past>>

(* Seeded fault: only the client is told.                                   *)
FailQuietly(r) ==
  /\ pc[r] = "fail"
  /\ Answer(r, Told(r, mine[r].code))
  /\ UNCHANGED <<rows, ask, scope, mine, canceled, troubled, past>>

(* failExecution, and what a denial does in its place.                      *)
FailExecution(r) ==
  /\ pc[r] = "fail"
  /\ Transition(r, "failed", mine[r].code, FALSE)
  /\ Answer(r, Told(r, mine[r].code))
  /\ UNCHANGED <<traces, transfers, objects, records, ask, scope, mine, canceled, past>>

(* The client goes away, or the server stops: then the next call of the     *)
(* request is not answered, and no later one of it is made or takes effect. *)
Cancel(r) ==
  /\ pc[r] # "done" /\ r \notin canceled
  /\ canceled' = canceled \cup {r}
  /\ troubled' = troubled \cup {r}
  /\ UNCHANGED <<rows, ask, scope, pc, mine, answer, past>>

Stop(r) ==
  /\ r \in canceled /\ pc[r] # "done"
  /\ Answer(r, "lost")
  /\ UNCHANGED <<rows, ask, scope, mine, canceled, troubled, past>>

Execute(r) ==
  \/ Refuse(r) \/ Insert(r) \/ Decide(r) \/ BeginRead(r) \/ Read(r) \/ Query(r)
  \/ BeginProcessing(r) \/ Hop(r) \/ Record(r) \/ Put(r) \/ InsertTransfer(r) \/ Undo(r) \/ Deliver(r)
  \/ FailExecution(r)

Next ==
  \/ \E r \in Requests :
       Pull(r) \/ Claim(r) \/ Execute(r) \/ Complete(r) \/ Cancel(r) \/ Stop(r)
  \/ \E key \in Keys : Lapse(key)

Spec == Init /\ [][Next]_vars

-----------------------------------------------------------------------------
TypeOK ==
  /\ executions \in [Requests -> Execution \cup {NoExecution}]
  /\ traces \in [Requests -> SUBSET HopResult]
  /\ transfers \subseteq Requests /\ objects \subseteq Requests
  /\ records \in [Keys -> Stored \cup {NoRecord}]
  /\ ask \in [Requests -> Asks]
  /\ scope \in [Requests -> Scopes]
  /\ pc \in [Requests -> Steps]
  /\ mine \in [Requests -> Hand]
  /\ canceled \subseteq Requests /\ troubled \subseteq Requests /\ past \subseteq Requests
  /\ answer \in [Requests -> Answers]

(* A request has all of its scope, as it was read, and no hop failed; it    *)
(* has been through every Service.                                          *)
Whole(r) ==
  /\ mine[r].read = Len(scope[r]) /\ mine[r].payload = "as_read"
  /\ \A i \in DOMAIN mine[r].hops : mine[r].hops[i].status = "completed"
Routed(r) == Whole(r) /\ Len(mine[r].hops) = Hops

CompleteIfDelivered(r) ==
  answer[r] = "delivered" => Routed(r) /\ (Push(r) => r \in transfers \cap objects)

(* What is answered as delivered is all of the scope, changed by no Service *)
(* on the way, after every hop; a push has left a transfer with a payload.  *)
DeliveryIsComplete == \A r \in Requests : CompleteIfDelivered(r)

OneTransfer(r, q) ==
  /\ r \in transfers \ past /\ q \in transfers \ past
  /\ Push(r) /\ Push(q) /\ ask[r].key = ask[q].key
  => r = q

(* q is the send of which r's answer tells.                                 *)
ReplaysOf(r, q) ==
  /\ Push(q) /\ ask[q].key = ask[r].key /\ ask[q].body = ask[r].body
  /\ q \in transfers /\ answer[q] = "delivered"
  /\ q \in past => r \in past

(* As long as its record lives, a key makes at most one transfer, however   *)
(* often its send is retried and whatever fails: a second one takes the     *)
(* expiry of the record that the first one claimed.  A replay is of a       *)
(* delivered send of the same key and body, and of no record that had       *)
(* expired.                                                                 *)
KeyTransfersOnce ==
  /\ \A r, q \in Requests : OneTransfer(r, q)
  /\ \A r \in Requests : answer[r] = "replayed" =>
       mine[r].replay \in Requests /\ ReplaysOf(r, mine[r].replay)

TellsTheOutcome(r) ==
  executions[r] # NoExecution =>
    /\ executions[r].state = "delivered" =>
         /\ Routed(r) /\ (Push(r) => r \in transfers \cap objects)
         /\ answer[r] \in {"none", "delivered", "lost"}
    /\ executions[r].state = "failed" =>
         executions[r].code \in Codes /\ answer[r] = Told(r, executions[r].code)
    /\ pc[r] = "done" /\ r \notin troubled =>
         /\ executions[r].completed
         /\ executions[r].state = IF answer[r] = "delivered" THEN "delivered" ELSE "failed"
         /\ answer[r] = "delivered" => Cardinality(traces[r]) = Hops

(* An execution's row never tells of an outcome that was not, whichever     *)
(* calls fail: a delivery was whole and its client was told of nothing else,*)
(* and a failure is the one that the client was told of, or that was hidden *)
(* from it.  Unless a call failed, no row is left as if it were running.    *)
ExecutionsTellTheOutcome == \A r \in Requests : TellsTheOutcome(r)

(* Even when calls fail, a row is final only of a request that decided so,  *)
(* and what it says is then never changed.                                  *)
FinalStatesStay ==
  [][\A r \in Requests :
       executions[r] # NoExecution /\ executions[r].state \in Final =>
         executions'[r] = executions[r] /\ traces'[r] = traces[r]]_vars

PayloadUnlessLost(r) ==
  r \in transfers \ objects => r \in troubled /\ mine[r].code = "INVALID_REQUEST"

(* A transfer is without its payload only where the answer to its insert    *)
(* was lost, and its sender was then told that it could not be created.     *)
OnlyALostInsertOrphans == \A r \in Requests : PayloadUnlessLost(r)

(***************************************************************************)
(* Why the invariants hold: what each step of a request relies on.         *)
(***************************************************************************)

BeforeHops   == {"start", "insert", "authorize", "begin_read", "read", "query",
                 "begin_processing"}
AfterRecords == {"put", "transfer", "deliver", "complete"}

(* A request goes on only with all that the steps before were to obtain,    *)
(* and fails only with a code.                                              *)
StepsRelyOnTheLast(r) ==
  /\ pc[r] \in BeforeHops => mine[r].hops = <<>> /\ mine[r].read <= Len(scope[r])
  /\ pc[r] \in {"query", "begin_processing", "hop"} => Whole(r)
  /\ pc[r] = "hop" => Len(mine[r].hops) <= Hops
  /\ pc[r] \in AfterRecords \/ (pc[r] = "record" /\ mine[r].code = None) => Routed(r)
  /\ pc[r] \notin {"record", "fail", "done"} => mine[r].code = None
  /\ pc[r] = "fail" => mine[r].code # None
  /\ pc[r] # "done" => answer[r] = "none"

(* A transfer is made by a push whose payload is stored.                    *)
PayloadFirst(r) ==
  /\ pc[r] \in {"put", "transfer", "undo", "complete"} => Push(r)
  /\ r \in transfers => Push(r) /\ pc[r] \in {"undo", "deliver", "complete", "fail", "done"}
  /\ pc[r] = "transfer" => r \in objects
  /\ pc[r] \in {"deliver", "complete"} /\ Push(r) => r \in transfers \cap objects
  /\ pc[r] = "undo" => r \in troubled

(* There is a row while a request runs, and it is final only at the end.    *)
RowFollowsTheSteps(r) ==
  /\ pc[r] \in {"start", "insert"} => executions[r] = NoExecution
  /\ pc[r] \notin {"start", "insert", "done"} => executions[r] # NoExecution
  /\ executions[r] # NoExecution /\ executions[r].state \in Final =>
       pc[r] \in {"complete", "done"}
  /\ pc[r] = "complete" /\ r \notin troubled =>
       executions[r].state = "delivered" /\ executions[r].completed

(* A trace has a row for each hop recorded so far, unless a call failed.    *)
TraceFollowsTheHops(r) ==
  /\ \A i \in DOMAIN mine[r].hops : mine[r].hops[i].index = i - 1
  /\ pc[r] \in BeforeHops \cup {"hop"} => mine[r].recorded = 0
  /\ pc[r] = "record" => mine[r].recorded <= Len(mine[r].hops)
  /\ pc[r] \in AfterRecords => mine[r].recorded = Len(mine[r].hops)
  /\ r \notin troubled =>
       /\ IsFiniteSet(traces[r]) /\ Cardinality(traces[r]) = mine[r].recorded
       /\ \A h \in traces[r] : h.index < mine[r].recorded

RequestInv(r) ==
  /\ CompleteIfDelivered(r) /\ TellsTheOutcome(r) /\ PayloadUnlessLost(r)
  /\ StepsRelyOnTheLast(r) /\ PayloadFirst(r) /\ RowFollowsTheSteps(r)
  /\ TraceFollowsTheHops(r)
  /\ r \in canceled => r \in troubled

(* The request that claimed a key, as long as that matters.                 *)
Runs(r) == Push(r) /\ pc[r] \notin {"start", "done"}
Owns(r) == Runs(r) \/ (Push(r) /\ r \in transfers \ past)

(* The response that is stored under a key is of a delivered send.          *)
StoresOf(key, q) ==
  /\ q \in transfers \ past /\ answer[q] = "delivered"
  /\ Push(q) /\ ask[q].key = key /\ ask[q].body = records[key].body

(* A key is claimed once in the life of its record, and what is stored under*)
(* it was delivered.                                                        *)
KeysAreOwned ==
  /\ \A r \in Requests : Owns(r) => ~Free(ask[r].key)
  /\ \A r, q \in Requests : Owns(r) /\ Owns(q) /\ ask[r].key = ask[q].key => r = q
  /\ \A r \in Requests : Runs(r) => records[ask[r].key] = OpenRecord(r)
  /\ \A r \in Requests : answer[r] = "replayed" =>
       Push(r) /\ mine[r].replay \in Requests /\ ReplaysOf(r, mine[r].replay)
  /\ \A key \in Keys : ~Free(key) /\ records[key].response # None =>
       records[key].response \in Requests /\ StoresOf(key, records[key].response)
  /\ \A r \in past : Push(r) /\ pc[r] = "done"

(* The inductive invariant, from which KeyTransfersOnce follows.            *)
IInv == TypeOK /\ KeysAreOwned /\ \A r \in Requests : RequestInv(r)
=============================================================================
