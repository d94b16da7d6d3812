------------------------------- MODULE Objects -------------------------------
(* The object storage client, storage/client.go, under the limits that      *)
(* config.go and application/runtime.go let through, and the one handler    *)
(* that hands out what it reads: assetContent of handlers_assets.go.        *)
EXTENDS Nodes

CONSTANTS
  Ceiling,        (* MaxPayloadBytes, the limits' hard ceiling             *)
  DefaultLimits   (* [file, payload] of application.DefaultLimits          *)

VARIABLES
  limits,         (* MaxFileBytes and MaxPayloadBytes of the process       *)
  rows,           (* the byte_size of the assets' rows, by storage path    *)
  objects,        (* the size of the stored objects, by path               *)
  body,           (* the response each request reads: its size, and whether*)
                  (* its length was announced                              *)
  got             (* the bytes each request has read of it                 *)

objectVars == <<limits, rows, objects, body, got>>

ASSUME ObjectsAreTyped ==
  /\ Ceiling \in Nat \ {0}
  /\ DefaultLimits \in [file: 1..Ceiling, payload: {Ceiling}]
  /\ \A x \in Mixes : x.settings \subseteq Int /\ \A f \in x.rows : \A p \in DOMAIN f : f[p] \in 0..Ceiling

(* LoadFrom: an absent setting, 0, is the default's, one out of bounds      *)
(* refuses the start.                                                       *)
Loads(setting) == setting = 0 \/ setting \in 1..Ceiling

(* Seeded fault: the ceiling is applied and the default is not.             *)
FilledNever(value, default) == IF value > Ceiling THEN Ceiling ELSE value

Filled(value, default) == IF value <= 0 THEN default ELSE IF value > Ceiling THEN Ceiling ELSE value

WithDefaults(file, payload) ==
  [file |-> Filled(file, DefaultLimits.file), payload |-> Filled(payload, DefaultLimits.payload)]

Loaded == {WithDefaults(f, p) : f, p \in {s \in mix.settings : Loads(s)}}

MaxObjectBytes(l) == IF l.file > l.payload THEN l.file ELSE l.payload

NoBody == [want |-> 0, size |-> 0, under |-> DefaultLimits]

ObjectsInit ==
  /\ limits \in Loaded
  /\ rows \in mix.rows
  /\ objects = IF mix.stored THEN rows ELSE <<>>
  /\ body = [r \in Requests |-> NoBody]
  /\ got = [r \in Requests |-> 0]

GetAsset(r) ==
  /\ pc[r] = "asset"
  /\ LET path == ask[r].path IN
       IF path \in DOMAIN rows
         THEN /\ body' = [body EXCEPT ![r] =
                   [want |-> IF Is(r, {"preview"}) THEN limits.file + 1 ELSE rows[path],
                    size |-> 0, under |-> limits]]
              /\ Moves(r, "get")
         ELSE Ends(r, "not_found") /\ UNCHANGED body
  /\ UNCHANGED <<limits, rows, objects, got, quiet, nodeVars>>

(* Get: one retry of a call that failed or that the provider could not      *)
(* serve; then the length, if it is announced, is held against the bound.   *)
(* Here and in Read, too_big is the provider error with that cause.         *)
Get(r) ==
  /\ pc[r] = "get"
  /\ \/ Retries(r) /\ UNCHANGED body
     \/ Ends(r, "provider_error") /\ UNCHANGED <<tries, body>>
     \/ /\ ask[r].path \in DOMAIN objects
        /\ body' = [body EXCEPT ![r].size = objects[ask[r].path]]
        /\ \E announced \in BOOLEAN :
             IF announced /\ body'[r].size > MaxObjectBytes(limits)
               THEN Ends(r, "too_big") ELSE Moves(r, "read")
        /\ UNCHANGED tries
  /\ UNCHANGED <<limits, rows, objects, got, events, now, nodeVars>>

(* A download has promised the row's size when it starts to copy.  What the *)
(* preview makes of the bytes is left out.                                  *)
Cut(r, a) == Ends(r, IF Is(r, {"download"}) THEN "cut" ELSE a)

(* Seeded fault: the bounded reader ends the object where its bound ends.   *)
ReadToBound(r) ==
  /\ pc[r] = "read"
  /\ LET rest == {body[r].want - got[r], MaxObjectBytes(limits) - got[r], body[r].size - got[r]}
     IN  \/ 0 \in rest /\ Ends(r, "ok") /\ UNCHANGED got
         \/ \E n \in 1..Ceiling :
              /\ \A m \in rest : n <= m
              /\ got' = [got EXCEPT ![r] = @ + n]
              /\ Moves(r, "read")
         \/ Cut(r, "provider_error") /\ UNCHANGED got
  /\ UNCHANGED <<limits, rows, objects, body, quiet, nodeVars>>

(* One Read of boundedReadCloser behind the handler's LimitReader.  At its  *)
(* bound it asks for one byte more, to tell an end from an excess.          *)
Read(r) ==
  /\ pc[r] = "read"
  /\ LET left == body[r].want - got[r]
         room == MaxObjectBytes(limits) - got[r]
         rest == body[r].size - got[r]
     IN  \/ /\ left = 0 \/ rest = 0
            /\ IF left = 0 THEN Ends(r, "ok") ELSE Cut(r, "ok")
            /\ UNCHANGED got
         \/ /\ left > 0 /\ room = 0 /\ rest > 0
            /\ Cut(r, "too_big") /\ UNCHANGED got
         \/ \E n \in 1..Ceiling :
              /\ n <= left /\ n <= room /\ n <= rest
              /\ got' = [got EXCEPT ![r] = @ + n]
              /\ Moves(r, "read")
         \/ Cut(r, "provider_error") /\ UNCHANGED got
  /\ UNCHANGED <<limits, rows, objects, body, quiet, nodeVars>>

(* Put: never retried, and its answer may be lost.                          *)
Put(r) ==
  /\ pc[r] = "put"
  /\ body' = [body EXCEPT ![r] = [want |-> 0, size |-> ask[r].size, under |-> limits]]
  /\ IF ask[r].size > MaxObjectBytes(limits)
       THEN Ends(r, "too_big") /\ UNCHANGED objects
       ELSE \/ /\ objects' = [p \in DOMAIN objects \cup {ask[r].path} |->
                               IF p = ask[r].path THEN ask[r].size ELSE objects[p]]
               /\ Ends(r, "ok") \/ Ends(r, "provider_error")
            \/ Ends(r, "provider_error") /\ UNCHANGED objects
  /\ UNCHANGED <<limits, rows, got, quiet, nodeVars>>

(* Delete: retried as Get is.                                               *)
Drop(r) ==
  /\ pc[r] = "drop"
  /\ \/ /\ objects' = [p \in DOMAIN objects \ {ask[r].path} |-> objects[p]]
        /\ Ends(r, "ok") /\ UNCHANGED tries
     \/ /\ \/ UNCHANGED objects
           \/ objects' = [p \in DOMAIN objects \ {ask[r].path} |-> objects[p]]
        /\ Retries(r) \/ (Ends(r, "provider_error") /\ UNCHANGED tries)
  /\ UNCHANGED <<limits, rows, body, got, events, now, nodeVars>>

ObjectStep(r) == GetAsset(r) \/ Get(r) \/ Read(r) \/ Put(r) \/ Drop(r)

(* What is handed out as whole is whole, whether or not its length was      *)
(* announced, however its bytes came, and whatever bound the process was    *)
(* started with: a preview stops at one byte more than an upload may have.  *)
(* Nothing that the limits of the process admit is refused for its size.    *)
ReadsAreWhole ==
  \A r \in Requests :
    /\ answer[r] = "ok" /\ Is(r, {"download"}) => got[r] = body[r].size
    /\ answer[r] = "ok" /\ Is(r, {"preview"}) =>
         got[r] = body[r].size \/ (got[r] = body[r].want /\ got[r] > body[r].under.file)
    /\ answer[r] = "too_big" => /\ body[r].size > body[r].under.file
                               /\ body[r].size > body[r].under.payload
    /\ got[r] <= MaxObjectBytes(body[r].under)
=============================================================================
