-------------------------------- MODULE Chat --------------------------------
(* The chat of a Brain: getChat, postChat and clearChat of                  *)
(* handlers_network_chat_audit.go, the call of the model in openai/client.go*)
(* and the messages of store/audit_chat_network.go.  A post reads the       *)
(* newest messages, waits for the model, and appends its pair.              *)
EXTENDS Nodes

CONSTANTS
  HistoryLimit,    (* the CHAT_HISTORY_MESSAGES setting                    *)
  InitialMessages  (* the messages stored at the start                     *)

VARIABLES
  messages,        (* the messages' rows                                   *)
  prompt,          (* the messages each request has listed                 *)
  draft,           (* the rows of each open transaction                    *)
  written          (* history: the posts whose pair was committed          *)

chatVars == <<messages, prompt, draft, written>>

Message ==
  [post: Int, role: {"user", "assistant"}, at: Int, node: Nat, user: Users, id: Int]

(* The two rows of one post.                                                *)
Partner(m, n) == m.post = n.post /\ m.role # n.role

(* The ids that matter here: no two rows have the same, and one is on either*)
(* side of those of earlier rows.                                           *)
Ids(r, role) ==
  LET i == 2 * r - (IF role = "user" THEN 2 ELSE 1) IN {i, -i}

ASSUME ChatIsTyped ==
  /\ HistoryLimit \in Nat \ {0}
  /\ InitialMessages \subseteq Message /\ IsFiniteSet(InitialMessages)
  /\ \A m, n \in InitialMessages :
       m.id = n.id \/ (m.post = n.post /\ m.role = n.role) => m = n
  /\ \A m \in InitialMessages :
       /\ m.at <= 0 /\ m.post \notin Requests /\ m.node \in DOMAIN InitialNodes
       /\ \A r \in Requests, role \in {"user", "assistant"} : m.id \notin Ids(r, role)
       /\ \E n \in InitialMessages : Partner(m, n) /\ n.at = m.at /\ n.node = m.node /\ n.user = m.user

ChatInit ==
  /\ messages = InitialMessages
  /\ prompt = [r \in Requests |-> <<>>]
  /\ draft = [r \in Requests |-> {}]
  /\ written = {}

Conversation(id, user) == {m \in messages : m.node = id /\ m.user = user}

(* The two orders of ListChatMessages: both by time, by role and by id; the *)
(* ids are random.                                                          *)
Newer(m, n) ==
  \/ m.at > n.at
  \/ (m.at = n.at /\ m.role = "assistant" /\ n.role = "user")
  \/ (m.at = n.at /\ m.role = n.role /\ m.id > n.id)

(* Seeded fault: messages of one instant are listed by their ids.           *)
OlderById(m, n) == m.at < n.at \/ (m.at = n.at /\ m.id < n.id)

Older(m, n) ==
  \/ m.at < n.at
  \/ (m.at = n.at /\ m.role = "user" /\ n.role = "assistant")
  \/ (m.at = n.at /\ m.role = n.role /\ m.id < n.id)

Newest(rows, limit) == {m \in rows : Cardinality({n \in rows : Newer(n, m)}) < limit}

(* Every row behind those that are older.                                   *)
InOrder(rows) ==
  [i \in 1..Cardinality(rows) |->
     CHOOSE m \in rows : Cardinality({n \in rows : Older(n, m)}) = i - 1]

ListChatMessages(r) ==
  /\ pc[r] = "history"
  /\ prompt' = [prompt EXCEPT ![r] =
       InOrder(Newest(Conversation(target[r], caller[r]), HistoryLimit))]
  /\ IF Is(r, {"getChat"}) THEN Ends(r, "ok") ELSE Moves(r, "model")
  /\ UNCHANGED <<messages, draft, written, nodeVars, quiet>>

(* Respond: only a request that did not come through is sent again; a status*)
(* or a body that is no answer ends it.                                     *)
Respond(r) ==
  /\ pc[r] = "model"
  /\ \/ Moves(r, "begin") /\ UNCHANGED tries
     \/ Retries(r)
     \/ Moves(r, "auditFailure") /\ UNCHANGED tries
  /\ UNCHANGED <<events, now, chatVars, nodeVars>>

(* InsertChatPair.  Both rows get the instant at which the transaction      *)
(* began, and keep the Brain's row until it ends.                           *)
BeginPair(r) ==
  /\ pc[r] = "begin"
  /\ at' = [at EXCEPT ![r] = now]
  /\ Moves(r, "question")
  /\ UNCHANGED <<chatVars, nodeVars, quiet>>

Row(r, role, id) ==
  [post |-> r, role |-> role, at |-> at[r], node |-> target[r], user |-> caller[r], id |-> id]

(* Seeded fault: the two rows are written outside a transaction.            *)
InsertAlone(r) ==
  /\ pc[r] = "question"
  /\ \E id \in Ids(r, "user") : messages' = messages \cup {Row(r, "user", id)}
  /\ Moves(r, "answer")
  /\ UNCHANGED <<draft, prompt, written, nodeVars, quiet>>

InsertQuestion(r) ==
  /\ pc[r] = "question"
  /\ IF target[r] \in DOMAIN nodes
       THEN /\ \E id \in Ids(r, "user") : draft' = [draft EXCEPT ![r] = {Row(r, "user", id)}]
            /\ Moves(r, "answer")
       ELSE Ends(r, "failed") /\ UNCHANGED draft
  /\ UNCHANGED <<messages, prompt, written, nodeVars, quiet>>

(* An answer of more than 20000 characters violates a check.                *)
InsertAnswer(r) ==
  /\ pc[r] = "answer"
  /\ \/ /\ \E id \in Ids(r, "assistant") :
             draft' = [draft EXCEPT ![r] = @ \cup {Row(r, "assistant", id)}]
        /\ Moves(r, "commit")
     \/ /\ draft' = [draft EXCEPT ![r] = {}]
        /\ Ends(r, "failed")
  /\ UNCHANGED <<messages, prompt, written, nodeVars, quiet>>

CommitPair(r) ==
  /\ pc[r] = "commit"
  /\ messages' = messages \cup draft[r]
  /\ written' = written \cup {r}
  /\ draft' = [draft EXCEPT ![r] = {}]
  /\ Moves(r, "audit") \/ Ends(r, "failed")
  /\ UNCHANGED <<prompt, nodeVars, quiet>>

ClearChat(r) ==
  /\ pc[r] = "clear"
  /\ messages' = messages \ Conversation(target[r], caller[r])
  /\ Ends(r, "ok")
  /\ UNCHANGED <<prompt, draft, written, nodeVars, quiet>>

ChatStep(r) ==
  \/ ListChatMessages(r) \/ Respond(r) \/ InsertQuestion(r)
  \/ InsertAnswer(r) \/ CommitPair(r) \/ ClearChat(r)

(* The deletion of a node waits for the transactions that refer to it, and  *)
(* takes its messages along.                                                *)
Keeps(id)   == \E r \in Requests : \E m \in draft[r] : m.node = id
Cascade ==
  /\ messages' = {m \in messages : m.node \in DOMAIN nodes'}
  /\ UNCHANGED <<prompt, draft, written>>

RolledBack(r) ==
  /\ draft' = [draft EXCEPT ![r] = {}]
  /\ UNCHANGED <<messages, prompt, written>>

(* No question stands without its answer, nor an answer without its question*)
(* in the same conversation, whatever clears, deletions and failed posts run*)
(* in between.                                                              *)
PairsAreWhole ==
  \A m \in messages : \E n \in messages :
    Partner(m, n) /\ n.at = m.at /\ n.node = m.node /\ n.user = m.user

(* What the model is given is the newest of the conversation, in order, and *)
(* every answer stands behind its own question: only the question of the    *)
(* oldest answer may be cut off.  Pairs written in one instant are the      *)
(* exception: their questions come first and their answers after them.      *)
OneAtATime(rows) == \A m, n \in rows : m.at = n.at => m.post = n.post

PromptIsInOrder(p, rows) ==
  /\ Range(p) \subseteq rows
  /\ Len(p) = (IF Cardinality(rows) < HistoryLimit THEN Cardinality(rows) ELSE HistoryLimit)
  /\ \A m \in rows \ Range(p) : \A n \in Range(p) : m.at <= n.at
  /\ \A i, j \in DOMAIN p : i < j => p[i].at <= p[j].at /\ p[i] # p[j]
  /\ \A i, j \in DOMAIN p : Partner(p[i], p[j]) /\ p[i].role = "user" => i < j
  /\ OneAtATime(rows) =>
       \A i \in DOMAIN p :
         IF p[i].role = "user" THEN i + 1 \in DOMAIN p /\ Partner(p[i], p[i + 1])
                               ELSE i = 1 \/ Partner(p[i - 1], p[i])
=============================================================================
