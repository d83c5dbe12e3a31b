----------------------------- MODULE MCFactStore -----------------------------
(* Two facts of one (entity, attribute), one of them with an expiry of its own, *)
(* tainted and of low authority.                                                *)
EXTENDS FactStore, TLC

CONSTANTS n1, n2, k

TwoNotes == {n1, n2}
Keys     == n1 :> k @@ n2 :> k
Expiries == n1 :> None @@ n2 :> 2
Tiers    == n1 :> 0 @@ n2 :> 3

Sym == Permutations(Run) \cup Permutations(Compaction)
=============================================================================
