---------------------------- MODULE MCTransfers ----------------------------
(* Small instances of Transfers for TLC. *)
EXTENDS Transfers, TLC

Symmetry == Permutations(Transfers) \cup Permutations(ObjectKeys)
              \cup Permutations(Requests) \cup Permutations(IdemKeys)
=============================================================================
