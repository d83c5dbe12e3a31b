--------------------------- MODULE OutboxContract ---------------------------
(***************************************************************************)
(* What the transactional outbox promises the task that submits an event,  *)
(* whatever relays and brokers do: only events of committed transactions   *)
(* reach the stream, the stream only grows, and an event is written off as *)
(* published only once it is there.  An event may be there twice.          *)
(***************************************************************************)
EXTENDS Sequences

CONSTANT Event

VARIABLES
    submitted,   \* events of committed transactions
    settled,     \* events that will never be looked at again
    log          \* the stream

ovars == <<submitted, settled, log>>

OInit == submitted = {} /\ settled = {} /\ log = <<>>

OSubmit(e) == /\ submitted' = submitted \cup {e}
              /\ UNCHANGED <<settled, log>>

OStore(e) == /\ e \in submitted
             /\ log' = Append(log, e)
             /\ UNCHANGED <<submitted, settled>>

OSettle(e) == /\ e \in submitted
              /\ \E i \in DOMAIN log : log[i] = e
              /\ settled' = settled \cup {e}
              /\ UNCHANGED <<submitted, log>>

ONext == \E e \in Event : OSubmit(e) \/ OStore(e) \/ OSettle(e)

OSpec == OInit /\ [][ONext]_ovars
=============================================================================
