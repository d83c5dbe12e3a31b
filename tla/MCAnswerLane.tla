---------------------------- MODULE MCAnswerLane ----------------------------
(* Values for the constants of AnswerLane: the envelopes the two plugins mint. *)
EXTENDS AnswerLane, TLC

Kind(r, p, a, u) == [routable |-> r, pullable |-> p, addressed |-> a, authorised |-> u]

Telegram == Kind(TRUE, FALSE, TRUE, TRUE)    \* a named principal in a chat
Stranger == Kind(TRUE, FALSE, TRUE, FALSE)   \* an untrusted sender
NoChat   == Kind(TRUE, FALSE, FALSE, TRUE)   \* an update without a chat id
Http     == Kind(TRUE, TRUE, FALSE, TRUE)    \* the API, read back by task id
Garbage  == Kind(FALSE, FALSE, FALSE, FALSE) \* bytes that are no envelope

Sym == Permutations(Task) \cup Permutations(Worker)

AllKinds      == {Telegram, Stranger, NoChat, Http, Garbage}
AnsweredKinds == {Telegram, Http}
=============================================================================
