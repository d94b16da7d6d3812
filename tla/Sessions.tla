------------------------------ MODULE Sessions ------------------------------
(* Sign-in, sign-out and the session that every other request is made in:   *)
(* router.go and session_cookie.go over store/users_sessions.go.            *)
EXTENDS Api

CONSTANTS
  Users,           (* the demo users                                       *)
  InitialSessions, (* the sessions stored at the start, by their token     *)
  SessionLife      (* the life of a session, in minutes                    *)

VARIABLES
  sessions,        (* the sessions' rows, by their token                   *)
  caller,          (* the user each request is made by                     *)
  lastSeen,        (* last_seen_at as each request has read it             *)
  at               (* the instant each request has taken from a clock      *)

sessionVars == <<sessions, caller, lastSeen, at>>

(* The tokens are random and signed: the one that a sign-in makes is the    *)
(* request's own, and nobody has another.                                   *)
Tokens == Requests \cup DOMAIN InitialSessions

Session == [user: Users, seen: Nat, expires: Nat]

ASSUME SessionsAreTyped ==
  /\ SessionLife \in Nat \ {0}
  /\ Requests \cap DOMAIN InitialSessions = {}
  /\ InitialSessions \in [DOMAIN InitialSessions -> [user: Users, seen: {0}, expires: Nat]]
  /\ Users # {}

SessionsInit ==
  /\ sessions = InitialSessions
  /\ caller \in [Requests -> {CHOOSE u \in Users : TRUE}]
  /\ lastSeen = [r \in Requests |-> 0]
  /\ at = [r \in Requests |-> 0]

(* GetSessionByTokenHash finds neither what was deleted nor what expired.   *)
Live(token) == token \in DOMAIN sessions /\ sessions[token].expires > now

RequireSession(r) ==
  /\ pc[r] = "session"
  /\ LET token == ask[r].token IN
       IF Live(token)
         THEN /\ caller' = [caller EXCEPT ![r] = sessions[token].user]
              /\ lastSeen' = [lastSeen EXCEPT ![r] = sessions[token].seen]
              /\ Moves(r, "clock")
         ELSE /\ Ends(r, "not_authenticated")
              /\ UNCHANGED <<caller, lastSeen>>
  /\ UNCHANGED <<sessions, at, quiet>>

(* The handler reads its clock for the test and again for the update; as it *)
(* never runs back, a test that is made at the second instant tells the same.*)
ReadClock(r) ==
  /\ pc[r] = "clock"
  /\ IF now - lastSeen[r] >= 1
       THEN at' = [at EXCEPT ![r] = now] /\ Moves(r, "touch")
       ELSE Moves(r, FirstStep[ask[r].op]) /\ UNCHANGED at
  /\ UNCHANGED <<sessions, caller, lastSeen, quiet>>

(* Seeded fault: the update relies on the minute that the handler counted.  *)
TouchAlways(r) ==
  /\ pc[r] = "touch"
  /\ LET token == ask[r].token IN
       sessions' = IF token \in DOMAIN sessions
                     THEN [sessions EXCEPT ![token].seen = at[r]] ELSE sessions
  /\ Moves(r, FirstStep[ask[r].op])
  /\ UNCHANGED <<caller, lastSeen, at, quiet>>

(* The update repeats the handler's test on the row it finds; its error is  *)
(* dropped.                                                                 *)
TouchSession(r) ==
  /\ pc[r] = "touch"
  /\ LET token == ask[r].token IN
       \/ /\ token \in DOMAIN sessions
          /\ sessions[token].seen <= at[r] - 1 /\ sessions[token].expires > at[r]
          /\ sessions' = [sessions EXCEPT ![token].seen = at[r]]
       \/ UNCHANGED sessions
  /\ Moves(r, FirstStep[ask[r].op])
  /\ UNCHANGED <<caller, lastSeen, at, quiet>>

(* createSession takes the expiry from its clock before the row is written. *)
SignIn(r) ==
  /\ pc[r] = "signIn"
  /\ caller' = [caller EXCEPT ![r] = ask[r].user]
  /\ at' = [at EXCEPT ![r] = now + SessionLife]
  /\ Moves(r, "insertSession")
  /\ UNCHANGED <<sessions, lastSeen, quiet>>

CreateSession(r) ==
  /\ pc[r] = "insertSession"
  /\ IF at[r] > now
       THEN /\ sessions' =
                 [t \in DOMAIN sessions \cup {r} |->
                    IF t = r THEN [user |-> caller[r], seen |-> now, expires |-> at[r]]
                             ELSE sessions[t]]
            /\ Moves(r, "audit")
       ELSE Ends(r, "failed") /\ UNCHANGED sessions
  /\ UNCHANGED <<caller, lastSeen, at, quiet>>

(* deleteSession: the cookie is taken back whether or not the row is.       *)
SignOut(r) ==
  /\ pc[r] = "signOut"
  /\ \/ sessions' = [t \in DOMAIN sessions \ {ask[r].token} |-> sessions[t]]
     \/ UNCHANGED sessions
  /\ Ends(r, "ok")
  /\ UNCHANGED <<caller, lastSeen, at, quiet>>

SessionStep(r) ==
  \/ RequireSession(r) \/ ReadClock(r) \/ TouchSession(r)
  \/ SignIn(r) \/ CreateSession(r) \/ SignOut(r)

(* A session's last use never moves back, nor forward by less than a minute *)
(* or past its expiry, whatever order its requests' updates arrive in: the  *)
(* instant that a request writes was taken before others wrote theirs.      *)
SessionAdvances(token) ==
  token \in DOMAIN sessions \cap DOMAIN sessions' =>
    /\ sessions'[token].expires = sessions[token].expires
    /\ sessions'[token].seen # sessions[token].seen =>
         /\ sessions'[token].seen >= sessions[token].seen + 1
         /\ sessions'[token].seen < sessions[token].expires
=============================================================================
