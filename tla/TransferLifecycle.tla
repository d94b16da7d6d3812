------------------------- MODULE TransferLifecycle -------------------------
(***************************************************************************)
(* What a Transfer promises its two owners, with nothing said about locks, *)
(* transactions, object storage or retries: it is pending until exactly    *)
(* one decision is taken, accepting it registers an asset under a free     *)
(* object key in the same instant, and a client that is told of a decision *)
(* is told the decision that was taken.                                    *)
(***************************************************************************)
CONSTANTS
  Transfers,    (* transfers to one destination Brain                      *)
  ObjectKeys,   (* object keys of that Brain                               *)
  Requests,     (* the clients' requests                                   *)
  NoKey,        (* no object key                                           *)
  Free,         (* no asset has the object key                             *)
  Uploaded      (* the key's asset stores an upload, not a transfer        *)

VARIABLES
  status,       (* the transfers' decisions                                *)
  acceptedAs,   (* the object key an accepted transfer was given           *)
  brain,        (* whether the destination Brain is there                  *)
  assets,       (* the destination's assets: what each object key stores   *)
  told          (* the decisions each client was told of, at most one       *)

lifecycleVars == <<status, acceptedAs, brain, assets, told>>

Init ==
  /\ status = [t \in Transfers |-> "pending"]
  /\ acceptedAs = [t \in Transfers |-> NoKey]
  /\ brain = TRUE
  /\ assets = [k \in ObjectKeys |-> Free]
  /\ told = [r \in Requests |-> {}]

Accept(t, k) ==
  /\ status[t] = "pending"
  /\ brain /\ assets[k] = Free
  /\ status' = [status EXCEPT ![t] = "accepted"]
  /\ acceptedAs' = [acceptedAs EXCEPT ![t] = k]
  /\ assets' = [assets EXCEPT ![k] = t]
  /\ UNCHANGED <<brain, told>>

Reject(t) ==
  /\ status[t] = "pending"
  /\ status' = [status EXCEPT ![t] = "rejected"]
  /\ UNCHANGED <<acceptedAs, brain, assets, told>>

Expire(D) ==
  /\ \A t \in D : status[t] = "pending"
  /\ status' = [t \in Transfers |-> IF t \in D THEN "expired" ELSE status[t]]
  /\ UNCHANGED <<acceptedAs, brain, assets, told>>

(* The destination's owner manages the assets: uploads under a key, over   *)
(* whatever is there, and deletes an asset no transfer was accepted as.    *)
Upload(k) ==
  /\ brain
  /\ assets' = [assets EXCEPT ![k] = Uploaded]
  /\ UNCHANGED <<status, acceptedAs, brain, told>>

Remove(k) ==
  /\ \A t \in Transfers : acceptedAs[t] # k
  /\ assets' = [assets EXCEPT ![k] = Free]
  /\ UNCHANGED <<status, acceptedAs, brain, told>>

(* A Brain that a transfer was accepted into stays.                         *)
DeleteBrain ==
  /\ \A t \in Transfers : acceptedAs[t] = NoKey
  /\ brain' = FALSE
  /\ assets' = [k \in ObjectKeys |-> Free]
  /\ UNCHANGED <<status, acceptedAs, told>>

Tell(r, t) ==
  /\ told[r] = {}
  /\ status[t] \in {"accepted", "rejected"}
  /\ told' = [told EXCEPT ![r] = {[transfer |-> t, decision |-> status[t],
                                   objectKey |-> acceptedAs[t]]}]
  /\ UNCHANGED <<status, acceptedAs, brain, assets>>

Next ==
  \/ \E t \in Transfers, k \in ObjectKeys : Accept(t, k)
  \/ \E t \in Transfers : Reject(t)
  \/ \E D \in SUBSET Transfers : Expire(D)
  \/ \E k \in ObjectKeys : Upload(k) \/ Remove(k)
  \/ DeleteBrain
  \/ \E r \in Requests, t \in Transfers : Tell(r, t)

Spec == Init /\ [][Next]_lifecycleVars
=============================================================================
