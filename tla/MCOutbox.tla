------------------------------ MODULE MCOutbox ------------------------------
(* Symmetry for the runs of Outbox. *)
EXTENDS Outbox, TLC

Sym == Permutations(Event) \cup Permutations(Relay)
=============================================================================
