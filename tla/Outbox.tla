------------------------------- MODULE Outbox -------------------------------
(***************************************************************************)
(* The transactional outbox of otto.spine: Outbox.enqueue writes an event  *)
(* in its caller's transaction, and any number of relays move committed    *)
(* rows to the stream, each with                                           *)
(*                                                                         *)
(*   BEGIN; SELECT ... FOR UPDATE SKIP LOCKED; publish; UPDATE; COMMIT     *)
(*                                                                         *)
(* The broker forgets the ids it has stored when its duplicate window      *)
(* closes; a relay, its publish or its database session may fail at any    *)
(* point.  An event is a (task_id, seq) pair, which is also its            *)
(* Nats-Msg-Id, so enqueueing it again changes nothing.                    *)
(*                                                                         *)
(* A definition named X_Something is a mutant of X.                        *)
(***************************************************************************)
EXTENDS Naturals, Sequences

CONSTANTS
    Event,       \* (task_id, seq) pairs
    Relay,       \* relay processes
    NoRow,       \* what a relay without a row holds
    MaxAborts,   \* bound: transactions of callers rolled back
    MaxFaults,   \* bound: failures of relays, publishes and sessions
    MaxForgets   \* bound: ids that outlive the duplicate window

ASSUME OutboxAssumption ==
    /\ NoRow \notin Event
    /\ MaxAborts \in Nat /\ MaxFaults \in Nat /\ MaxForgets \in Nat

VARIABLES
    row,         \* row[e]: "none", "open" in a caller's transaction, "committed"
    born,        \* born[e]: created_at, the start of that transaction
    clock,       \* transactions started
    published,   \* rows with published_at set
    stage,       \* stage[r]: where relay r is in once()
    holds,       \* holds[r]: the row r selected
    session,     \* session[r]: r's transaction is alive, and its lock with it
    log,         \* the stream
    seen,        \* the ids the broker still remembers
    older,       \* older[e]: rows committed before e's transaction began
    owed,        \* owed[r]: unpublished rows when r's pass began
    aborts, faults, forgets

vars == <<row, born, clock, published, stage, holds, session, log, seen,
          older, owed, aborts, faults, forgets>>

callers == <<row, born, clock, older, aborts>>

TypeOK ==
    /\ row \in [Event -> {"none", "open", "committed"}]
    /\ born \in [Event -> Nat]
    /\ clock \in Nat
    /\ published \in SUBSET Event
    /\ stage \in [Relay -> {"idle", "select", "publish", "mark", "done"}]
    /\ holds \in [Relay -> Event \cup {NoRow}]
    /\ session \in [Relay -> BOOLEAN]
    /\ log \in Seq(Event)
    /\ seen \in SUBSET Event
    /\ older \in [Event -> SUBSET Event]
    /\ owed \in [Relay -> SUBSET Event]
    /\ aborts \in 0..MaxAborts
    /\ faults \in 0..MaxFaults
    /\ forgets \in 0..MaxForgets

Init ==
    /\ row = [e \in Event |-> "none"]
    /\ born = [e \in Event |-> 0]
    /\ clock = 0
    /\ published = {}
    /\ stage = [r \in Relay |-> "idle"]
    /\ holds = [r \in Relay |-> NoRow]
    /\ session = [r \in Relay |-> FALSE]
    /\ log = <<>>
    /\ seen = {}
    /\ older = [e \in Event |-> {}]
    /\ owed = [r \in Relay |-> {}]
    /\ aborts = 0 /\ faults = 0 /\ forgets = 0

Committed   == {e \in Event : row[e] = "committed"}
Unpublished == Committed \ published
Stored      == {log[i] : i \in DOMAIN log}
Fault       == faults < MaxFaults /\ faults' = faults + 1

-----------------------------------------------------------------------------
(* The callers' transactions and the broker.                               *)

\* enqueue inside a caller's transaction: created_at is the time it began.
Enqueue(e) ==
    /\ row[e] = "none"
    /\ row' = [row EXCEPT ![e] = "open"]
    /\ clock' = clock + 1
    /\ born' = [born EXCEPT ![e] = clock + 1]
    /\ older' = [older EXCEPT ![e] = Committed]
    /\ UNCHANGED <<published, stage, holds, session, log, seen, owed, aborts, faults, forgets>>

Commit(e) ==
    /\ row[e] = "open"
    /\ row' = [row EXCEPT ![e] = "committed"]
    /\ UNCHANGED <<born, clock, published, stage, holds, session, log, seen,
                   older, owed, aborts, faults, forgets>>

Rollback(e) ==
    /\ row[e] = "open"
    /\ aborts < MaxAborts
    /\ aborts' = aborts + 1
    /\ row' = [row EXCEPT ![e] = "none"]
    /\ UNCHANGED <<born, clock, published, stage, holds, session, log, seen,
                   older, owed, faults, forgets>>

\* The duplicate window closes over an id.
Forget(e) ==
    /\ e \in seen
    /\ forgets < MaxForgets
    /\ forgets' = forgets + 1
    /\ seen' = seen \ {e}
    /\ UNCHANGED <<callers, published, stage, holds, session, log, owed, faults>>

Deduplicated_NoMsgId(e) == FALSE

\* A publish carries its event's Nats-Msg-Id, so an id the broker remembers is
\* acknowledged and not stored again.
Deduplicated(e) == e \in seen

Store_Dropped(e) == UNCHANGED <<log, seen>>

Store(e) ==
    /\ log' = IF Deduplicated(e) THEN log ELSE Append(log, e)
    /\ seen' = seen \cup {e}

-----------------------------------------------------------------------------
(* One relay.                                                              *)

Locked_UntilPublished(e) ==
    \E r \in Relay : session[r] /\ holds[r] = e /\ stage[r] = "publish"

\* A row is locked by the transaction that selected it, as long as it lives.
Locked(e) == \E r \in Relay : session[r] /\ holds[r] = e

Candidates_Dirty == {e \in Event : row[e] # "none" /\ e \notin published /\ ~Locked(e)}

\* What the SELECT sees: committed, published_at IS NULL, SKIP LOCKED.
Candidates == {e \in Unpublished : ~Locked(e)}

Oldest_Newest(S) == {e \in S : \A f \in S : born[f] <= born[e]}

\* ORDER BY created_at LIMIT 1.
Oldest(S) == {e \in S : \A f \in S : born[e] <= born[f]}

\* Relay.once is called.
Begin(r) ==
    /\ stage[r] \in {"idle", "done"}
    /\ stage' = [stage EXCEPT ![r] = "select"]
    /\ owed' = [owed EXCEPT ![r] = Unpublished]
    /\ UNCHANGED <<callers, published, holds, session, log, seen, faults, forgets>>

\* _one opens its transaction: the oldest free row, or the pass is over.
Select(r) ==
    /\ stage[r] = "select"
    /\ \/ /\ Candidates = {}
          /\ stage' = [stage EXCEPT ![r] = "done"]
          /\ UNCHANGED <<holds, session>>
       \/ \E e \in Oldest(Candidates) :
          /\ stage' = [stage EXCEPT ![r] = "publish"]
          /\ holds' = [holds EXCEPT ![r] = e]
          /\ session' = [session EXCEPT ![r] = TRUE]
    /\ UNCHANGED <<callers, published, log, seen, owed, faults, forgets>>

EndOfTransaction_Leaked(r, next) ==
    /\ stage' = [stage EXCEPT ![r] = next]
    /\ UNCHANGED <<holds, session>>

\* The transaction is over, one way or the other.
EndOfTransaction(r, next) ==
    /\ stage' = [stage EXCEPT ![r] = next]
    /\ holds' = [holds EXCEPT ![r] = NoRow]
    /\ session' = [session EXCEPT ![r] = FALSE]

\* The publish: acknowledged, or an exception that ends the pass and rolls the
\* transaction back although the broker may have stored the message.
Publish(r) ==
    /\ stage[r] = "publish"
    /\ \/ /\ Store(holds[r])
          /\ stage' = [stage EXCEPT ![r] = "mark"]
          /\ UNCHANGED <<holds, session, faults>>
       \/ /\ Fault
          /\ EndOfTransaction(r, "idle")
          /\ \/ Store(holds[r])
             \/ UNCHANGED <<log, seen>>
    /\ UNCHANGED <<callers, published, owed, forgets>>

\* UPDATE and COMMIT; or the relay dies here (crash_after_publish), or the
\* commit lands and its answer is lost; a transaction whose session is gone
\* can only fail.
Mark(r) ==
    /\ stage[r] = "mark"
    /\ \/ /\ session[r]
          /\ published' = published \cup {holds[r]}
          /\ EndOfTransaction(r, "select")
          /\ UNCHANGED faults
       \/ /\ session[r]
          /\ Fault
          /\ published' \in {published, published \cup {holds[r]}}
          /\ EndOfTransaction(r, "idle")
       \/ /\ ~session[r]
          /\ EndOfTransaction(r, "idle")
          /\ UNCHANGED <<published, faults>>
    /\ UNCHANGED <<callers, log, seen, owed, forgets>>

\* Postgres drops r's session while r is waiting for the broker: the lock goes,
\* r does not know yet.
LoseSession(r) ==
    /\ stage[r] \in {"publish", "mark"}
    /\ session[r]
    /\ Fault
    /\ session' = [session EXCEPT ![r] = FALSE]
    /\ UNCHANGED <<callers, published, stage, holds, log, seen, owed, forgets>>

Pass(r) == Begin(r) \/ Select(r) \/ Publish(r) \/ Mark(r)

Next ==
    \/ \E e \in Event : Enqueue(e) \/ Commit(e) \/ Rollback(e) \/ Forget(e)
    \/ \E r \in Relay : Pass(r) \/ LoseSession(r)

Spec == Init /\ [][Next]_vars

\* Somebody calls once() again and again, and a pass that has begun goes on.
Fairness == \A r \in Relay : WF_vars(Pass(r))

FairSpec == Spec /\ Fairness

-----------------------------------------------------------------------------
(* What the outbox owes.                                                   *)

\* A row is written off only when its message is on the stream, and the stream
\* holds nothing of a transaction that did not commit: a task is "never lost"
\* between the database and the bus, and none is made up.
NothingLostOrInvented == published \subseteq Stored /\ Stored \subseteq Committed

Once == \A i, j \in DOMAIN log : log[i] = log[j] => i = j

\* Inside the duplicate window a re-publish is a no-op, whatever died and
\* whichever relay took over ("safe to crash mid-publish").
StoredOnce == forgets = 0 => Once

\* While nothing fails, every row is published once, however many relays run
\* and however soon the broker forgets: lock, publish and mark share one
\* transaction (Relay: "safe to run more than one instance concurrently").
CleanRunOnce == faults = 0 => Once

\* Two live transactions never hold the same row.
RowHeldOnce ==
    \A r, q \in Relay : r # q /\ session[r] /\ session[q] => holds[r] # holds[q]

\* One relay publishes in the order of the transactions: a row committed before
\* another's transaction began is on the stream before it.
OldestFirst == \A e \in Stored : older[e] \subseteq Stored

\* A pass that returns has published every row that was unpublished when it
\* began (once: "Drain everything currently unpublished").
DrainsWhatItSaw == \A r \in Relay : stage[r] = "done" => owed[r] \subseteq published

\* What one relay promises of a pass: the order of the transactions, and all of
\* what it found.
DrainsInOrder == OldestFirst /\ DrainsWhatItSaw

\* A committed row is published in the end, whatever fails on the way.
EventuallyPublished == \A e \in Event : row[e] = "committed" ~> e \in published

\* The outbox implements its contract.
Contract == INSTANCE OutboxContract WITH submitted <- Committed, settled <- published

KeepsOutboxContract == Contract!OSpec
=============================================================================
