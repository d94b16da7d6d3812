--------------------------------- MODULE Api ---------------------------------
(***************************************************************************)
(* What the handlers of httpapi/ share in the modules Sessions, Nodes,     *)
(* Canvas, AppConnections, Chat and Objects: a request asks for one thing, *)
(* goes through its handler's steps beside the others, and is answered     *)
(* once.  Workspace composes them.                                         *)
(***************************************************************************)
EXTENDS Integers, FiniteSets, SequencesExt

CONSTANTS
  Requests, (* the requests of the run                                     *)
  Mixes     (* what they may ask for together, what they may find, for how *)
            (* many minutes, and whether the server is started again       *)

VARIABLES
  mix,      (* what the run is made of; it never changes                   *)
  pc,       (* the next step of each request                               *)
  answer,   (* what each client was answered                               *)
  tries,    (* the calls a request has made of the provider it waits for   *)
  events,   (* the audit events                                            *)
  now       (* the clock of the server and of the database                 *)

apiVars == <<mix, pc, answer, tries, events, now>>
quiet   == <<tries, events, now>>

ASSUME RequestsAreNumbers ==
  /\ Requests \subseteq Nat \ {0}
  /\ \A x \in Mixes : x.until \in Nat

(* What each request asks for.                                              *)
ask == mix.asks

Is(r, ops) == ask[r].op \in ops

Moves(r, step) ==
  /\ pc' = [pc EXCEPT ![r] = step]
  /\ UNCHANGED <<mix, answer>>

Ends(r, a) ==
  /\ pc' = [pc EXCEPT ![r] = "done"]
  /\ answer' = [answer EXCEPT ![r] = a]
  /\ UNCHANGED mix

(* The first step of each handler behind requireSession.                    *)
FirstStep ==
  [signOut |-> "signOut", createNode |-> "create", deleteNode |-> "owner",
   addNode |-> "resolve", removeNode |-> "resolve",
   listApps |-> "owner", connect |-> "owner", disconnect |-> "owner",
   getChat |-> "owner", postChat |-> "owner", clearChat |-> "owner",
   preview |-> "owner", download |-> "owner"]

(* ... and behind the look-up of the Brain or Service that it is about.     *)
SecondStep ==
  [deleteNode |-> "delete", addNode |-> "add", removeNode |-> "remove",
   listApps |-> "routes", connect |-> "routes", disconnect |-> "routes",
   getChat |-> "history", postChat |-> "history", clearChat |-> "clear",
   preview |-> "asset", download |-> "asset"]

Started == [signIn |-> "signIn", put |-> "put", drop |-> "drop", none |-> "done"]

ApiInit ==
  /\ mix \in Mixes
  /\ pc = [r \in Requests |-> IF ask[r].op \in DOMAIN Started
                                THEN Started[ask[r].op] ELSE "session"]
  /\ answer = [r \in Requests |-> "none"]
  /\ tries = [r \in Requests |-> 0]
  /\ events = {}
  /\ now = 0

(* A call of a provider that did not come through is made once more.        *)
Retries(r) ==
  /\ tries[r] = 0
  /\ tries' = [tries EXCEPT ![r] = 1]
  /\ UNCHANGED <<mix, pc, answer>>

Tick ==
  /\ now < mix.until
  /\ now' = now + 1
  /\ UNCHANGED <<mix, pc, answer, tries, events>>
=============================================================================
