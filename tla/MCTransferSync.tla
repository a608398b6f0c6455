---------------------------- MODULE MCTransferSync ----------------------------
(* TransferSync on small instances. *)
EXTENDS TransferSync, TLC

Symmetry == Permutations(Ids) \cup Permutations(Clients)
=============================================================================
