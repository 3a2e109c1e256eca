---------------------------- MODULE MCSenderSelection -------------------------
(* Small instances of SenderSelection for TLC. *)
EXTENDS SenderSelection, TLC

SenderSymmetry == Permutations(Workers) \cup Permutations(Accounts)

=============================================================================
