-------------------------------- MODULE MCDoor ------------------------------
(* Symmetry of the messages of Door. *)
EXTENDS Door, TLC

Sym == Permutations(Message)
=============================================================================
