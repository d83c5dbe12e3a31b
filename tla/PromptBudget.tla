---------------------------- MODULE PromptBudget ----------------------------
(***************************************************************************)
(* How much of a conversation travels with the next question: the loop of  *)
(* thread_messages and of recent_messages over turns that each weigh       *)
(* something (tokens there, characters here).                              *)
(*                                                                         *)
(* X_Something is a mutant of X: X with a plausible mistake in it.         *)
(***************************************************************************)
EXTENDS Naturals, Sequences, SequencesExt, FiniteSets

CONSTANTS
    MaxWeight,   \* max_tokens, max_chars
    MaxShown     \* max_turns, limit

ASSUME BudgetAssumption == MaxWeight \in Nat /\ MaxShown \in Nat \ {0}

\* All the tokens, or all the characters, of all the turns.
Weight(s) == Cardinality(UNION {{k} \X (1..s[k].size) : k \in DOMAIN s})

\* Does the n-th still go in?  The first one always does.
Fitting(s, n) == n = 1 \/ Weight(SubSeq(s, 1, n)) <= MaxWeight

\* The loop over the turns breaks at the first that does not fit.
Taking(s) == SubSeq(s, 1, CHOOSE n \in 0..Len(s) : /\ \A k \in 1..n : Fitting(s, k)
                                                   /\ n = Len(s) \/ ~Fitting(s, n + 1))

FirstOf(s, n) == SubSeq(s, 1, IF Len(s) > n THEN n ELSE Len(s))
LastOf(s, n)  == SubSeq(s, (IF Len(s) > n THEN Len(s) - n ELSE 0) + 1, Len(s))

\* ORDER BY: the k-th is the one that k - 1 of them come before.
InOrder(S, Before(_, _)) ==
    [k \in 1..Cardinality(S) |->
        CHOOSE x \in S : Cardinality({y \in S : Before(y, x)}) = k - 1]

WithinBudget(s) == Len(s) <= MaxShown /\ (Weight(s) <= MaxWeight \/ Len(s) = 1)
=============================================================================
