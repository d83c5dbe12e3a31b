---------------------------- MODULE TurnContract ----------------------------
(***************************************************************************)
(* What the answering lane promises the customer whose turn the door       *)
(* accepted, without queues, replicas or failures: a turn is settled once, *)
(* it is settled as "done" only when it has been served, and it is dropped *)
(* only when no surface could ever have carried its answer.  Replies are   *)
(* at-least-once: one turn may collect several, even after it is settled.  *)
(* The detailed lane is AnswerLane, which is shown to implement this.      *)
(***************************************************************************)
CONSTANTS
    Task,        \* the turns of the customers
    Envelope     \* the kinds of envelope the door mints (see AnswerLane)

VARIABLES
    kind,        \* kind[t]: the envelope of turn t, fixed before it is asked
    turn,        \* "unknown", "accepted", "done" or "dropped"
    mute,        \* mute[t]: the model had nothing to say to t
    replies      \* the answers pushed to the customer of the turn

cvars == <<kind, turn, mute, replies>>

\* The turn has had what its surface and its sender are entitled to: nothing
\* for a sender without authority, an answer that can be read back on a
\* pullable surface, at least one pushed reply everywhere else, unless there
\* was nothing to say.
Served(t) == \/ ~kind[t].authorised
             \/ kind[t].pullable
             \/ mute[t]
             \/ replies[t] # {}

CInit == /\ kind \in [Task -> Envelope]
         /\ turn = [t \in Task |-> "unknown"]
         /\ mute = [t \in Task |-> FALSE]
         /\ replies = [t \in Task |-> {}]

CAccept(t) == /\ turn[t] = "unknown"
              /\ turn' = [turn EXCEPT ![t] = "accepted"]
              /\ UNCHANGED <<kind, mute, replies>>

\* Only an authorised sender with an address is ever talked to, and every
\* reply is a fresh answer.
CReply(t) == /\ turn[t] # "unknown"
             /\ kind[t].authorised /\ kind[t].addressed /\ ~kind[t].pullable
             /\ \E a \in replies'[t] \ replies[t] :
                   replies' = [replies EXCEPT ![t] = @ \cup {a}]
             /\ UNCHANGED <<kind, mute, turn>>

\* Only an authorised sender ever reaches a model that could fall silent.
CMute(t) == /\ turn[t] # "unknown"
            /\ kind[t].authorised
            /\ mute' = [mute EXCEPT ![t] = TRUE]
            /\ UNCHANGED <<kind, turn, replies>>

CDone(t) == /\ turn[t] = "accepted"
            /\ Served(t)
            /\ turn' = [turn EXCEPT ![t] = "done"]
            /\ UNCHANGED <<kind, mute, replies>>

CDrop(t) == /\ turn[t] = "accepted"
            /\ ~(kind[t].routable /\ kind[t].pullable)
            /\ turn' = [turn EXCEPT ![t] = "dropped"]
            /\ UNCHANGED <<kind, mute, replies>>

CNext == \E t \in Task : CAccept(t) \/ CReply(t) \/ CMute(t) \/ CDone(t) \/ CDrop(t)

CSpec == CInit /\ [][CNext]_cvars
=============================================================================
