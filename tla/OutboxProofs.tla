---------------------------- MODULE OutboxProofs ----------------------------
(***************************************************************************)
(* The outbox keeps its contract for every number of events, relays and    *)
(* failures, and publishes each row once as long as nothing fails.         *)
(*                                                                         *)
(* RelayInv says what a relay may rely on between two steps.  The part     *)
(* that makes the clean run inductive is FreshInv: while nothing has       *)
(* failed, a stored row is either marked or in the hands of the relay that *)
(* stored it, whose lock keeps every other relay away from it.             *)
(*                                                                         *)
(* Inside the duplicate window Remembers is enough: what is stored is      *)
(* remembered.  OrderInv is about one relay, which takes the oldest row.   *)
(***************************************************************************)
EXTENDS Outbox, TLAPS

RelayInv(r) ==
    /\ stage[r] \in {"publish", "mark"} => holds[r] \in Committed
    /\ stage[r] = "mark" => holds[r] \in Stored
    /\ session[r] => stage[r] \in {"publish", "mark"} /\ holds[r] \in Unpublished

FreshInv ==
    faults = 0 =>
        /\ Once
        /\ \A r \in Relay : stage[r] \in {"publish", "mark"} => session[r]
        /\ \A r \in Relay : stage[r] = "publish" => holds[r] \notin Stored
        /\ \A e \in Stored : \/ e \in published
                             \/ \E r \in Relay : stage[r] = "mark" /\ holds[r] = e

SafeInv ==
    /\ TypeOK
    /\ NothingLostOrInvented
    /\ RowHeldOnce
    /\ seen \subseteq Stored
    /\ \A r \in Relay : RelayInv(r)

OutboxInv == SafeInv /\ FreshInv

-----------------------------------------------------------------------------
LEMMA InitOutbox == Init => OutboxInv
<1> SUFFICES ASSUME Init PROVE OutboxInv
    OBVIOUS
<1>1. TypeOK
    BY OutboxAssumption DEF Init, TypeOK
<1>2. Stored = {}
    BY DEF Init, Stored
<1> QED BY <1>1, <1>2
        DEF Init, OutboxInv, SafeInv, FreshInv, NothingLostOrInvented, RowHeldOnce,
            RelayInv, Once

\* The stream holds one message more after a store, or the same ones.
LEMMA StoreGrows ==
    ASSUME NEW e \in Event, log \in Seq(Event), Store(e)
    PROVE  /\ log' \in Seq(Event)
           /\ Stored' \subseteq Stored \cup {e}
           /\ Stored \subseteq Stored'
           /\ log' = log \/ log' = Append(log, e)
<1>1. CASE log' = log
    BY <1>1 DEF Stored
<1>2. CASE log' = Append(log, e)
  <2>1. /\ DOMAIN log = 1..Len(log) /\ Len(log) \in Nat
        /\ DOMAIN log' = 1..(Len(log) + 1)
        /\ log'[Len(log) + 1] = e
        /\ \A i \in 1..Len(log) : log'[i] = log[i]
      BY <1>2
  <2>2. Stored' \subseteq Stored \cup {e}
      BY <2>1 DEF Stored
  <2>3. Stored \subseteq Stored'
      BY <2>1 DEF Stored
  <2> QED BY <1>2, <2>2, <2>3
<1> QED BY <1>1, <1>2 DEF Store

\* The message that was published is on the stream.
LEMMA StoreStores ==
    ASSUME NEW e \in Event, log \in Seq(Event), seen \subseteq Stored, Store(e)
    PROVE  e \in Stored'
<1>1. CASE e \in seen
    BY <1>1 DEF Store, Deduplicated, Stored
<1>2. CASE e \notin seen
  <2>1. log' = Append(log, e)
      BY <1>2 DEF Store, Deduplicated
  <2>2. Len(log) + 1 \in DOMAIN log' /\ log'[Len(log) + 1] = e
      BY <2>1
  <2> QED BY <2>2 DEF Stored
<1> QED BY <1>1, <1>2

\* The state is well typed whatever step is taken.
LEMMA TypeStep == TypeOK /\ (\A r \in Relay : RelayInv(r)) /\ [Next]_vars => TypeOK'
<1> SUFFICES ASSUME TypeOK, \A r \in Relay : RelayInv(r), [Next]_vars PROVE TypeOK'
    OBVIOUS
<1> USE OutboxAssumption DEF TypeOK
<1>1. ASSUME NEW e \in Event, Enqueue(e) PROVE TypeOK'
    BY <1>1 DEF Enqueue, Committed
<1>2. ASSUME NEW e \in Event, Commit(e) PROVE TypeOK'
    BY <1>2 DEF Commit
<1>3. ASSUME NEW e \in Event, Rollback(e) PROVE TypeOK'
    BY <1>3 DEF Rollback
<1>4. ASSUME NEW e \in Event, Forget(e) PROVE TypeOK'
    BY <1>4 DEF Forget, callers
<1>5. ASSUME NEW r \in Relay, Begin(r) PROVE TypeOK'
    BY <1>5 DEF Begin, callers, Unpublished, Committed
<1>6. ASSUME NEW r \in Relay, Select(r) PROVE TypeOK'
  <2>1. /\ stage' \in [Relay -> {"idle", "select", "publish", "mark", "done"}]
        /\ session' \in [Relay -> BOOLEAN]
      BY <1>6 DEF Select
  <2>2. Oldest(Candidates) \subseteq Event
      BY DEF Oldest, Candidates, Unpublished, Committed
  <2>3. holds' \in [Relay -> Event \cup {NoRow}]
      BY <1>6, <2>2 DEF Select
  <2> QED BY <1>6, <2>1, <2>3 DEF Select, callers
<1>7. ASSUME NEW r \in Relay, Publish(r) PROVE TypeOK'
  <2>1. holds[r] \in Event
      BY <1>7 DEF Publish, RelayInv, Committed
  <2>2. log' \in Seq(Event) /\ seen' \in SUBSET Event
      BY <1>7, <2>1, StoreGrows DEF Publish, Store
  <2>3. /\ stage' \in [Relay -> {"idle", "select", "publish", "mark", "done"}]
        /\ session' \in [Relay -> BOOLEAN]
        /\ holds' \in [Relay -> Event \cup {NoRow}]
      BY <1>7 DEF Publish, EndOfTransaction
  <2>4. faults' \in 0..MaxFaults
      BY <1>7 DEF Publish, Fault
  <2> QED BY <1>7, <2>2, <2>3, <2>4 DEF Publish, callers
<1>8. ASSUME NEW r \in Relay, Mark(r) PROVE TypeOK'
  <2>1. holds[r] \in Event
      BY <1>8 DEF Mark, RelayInv, Committed
  <2>2. /\ stage' \in [Relay -> {"idle", "select", "publish", "mark", "done"}]
        /\ session' \in [Relay -> BOOLEAN]
        /\ holds' \in [Relay -> Event \cup {NoRow}]
      BY <1>8 DEF Mark, EndOfTransaction
  <2>3. faults' \in 0..MaxFaults
      BY <1>8 DEF Mark, Fault
  <2>4. published' \in SUBSET Event
      BY <1>8, <2>1 DEF Mark
  <2> QED BY <1>8, <2>2, <2>3, <2>4 DEF Mark, callers
<1>9. ASSUME NEW r \in Relay, LoseSession(r) PROVE TypeOK'
    BY <1>9 DEF LoseSession, Fault, callers
<1>10. CASE UNCHANGED vars
    BY <1>10 DEF vars
<1> QED
    BY <1>1, <1>2, <1>3, <1>4, <1>5, <1>6, <1>7, <1>8, <1>9, <1>10 DEF Next, Pass

\* Locks, marks and the stream agree after every step.
LEMMA SafeStep == SafeInv /\ [Next]_vars => SafeInv'
<1> SUFFICES ASSUME SafeInv, [Next]_vars PROVE SafeInv'
    OBVIOUS
<1> USE DEF SafeInv
<1>0. TypeOK'
    BY TypeStep
<1> DEFINE Rest == /\ NothingLostOrInvented
                   /\ RowHeldOnce
                   /\ seen \subseteq Stored
                   /\ \A r \in Relay : RelayInv(r)
<1> SUFFICES Rest'
    BY <1>0
<1>1. ASSUME NEW e \in Event, \/ Enqueue(e) \/ Commit(e) \/ Rollback(e)
      PROVE  Rest'
  <2>1. /\ Committed \subseteq Committed'
        /\ UNCHANGED <<published, stage, holds, session, log, seen>>
      BY <1>1 DEF Enqueue, Commit, Rollback, Committed, TypeOK
  <2>2. Stored' = Stored
      BY <2>1 DEF Stored
  <2>3. Unpublished \subseteq Unpublished'
      BY <2>1 DEF Unpublished
  <2> QED BY <2>1, <2>2, <2>3 DEF NothingLostOrInvented, RowHeldOnce, RelayInv
<1>2. ASSUME NEW e \in Event, Forget(e) PROVE Rest'
  <2>1. /\ UNCHANGED <<row, published, stage, holds, session, log>>
        /\ seen' \subseteq seen
      BY <1>2 DEF Forget, callers
  <2> QED BY <2>1 DEF NothingLostOrInvented, RowHeldOnce, RelayInv, Stored, Unpublished, Committed
<1>3. ASSUME NEW r \in Relay, Begin(r) PROVE Rest'
  <2>1. /\ UNCHANGED <<row, published, holds, session, log, seen>>
        /\ stage[r] \in {"idle", "done"}
        /\ stage' = [stage EXCEPT ![r] = "select"]
      BY <1>3 DEF Begin, callers
  <2> QED BY <2>1 DEF NothingLostOrInvented, RowHeldOnce, RelayInv, Stored, Unpublished,
                      Committed, TypeOK
<1>4. ASSUME NEW r \in Relay, Select(r) PROVE Rest'
  <2>0. UNCHANGED <<row, published, log, seen>> /\ stage[r] = "select"
      BY <1>4 DEF Select, callers
  <2>1. Stored' = Stored /\ Unpublished' = Unpublished /\ Committed' = Committed
      BY <2>0 DEF Stored, Unpublished, Committed
  <2>2. CASE stage' = [stage EXCEPT ![r] = "done"] /\ UNCHANGED <<holds, session>>
      BY <2>0, <2>1, <2>2 DEF NothingLostOrInvented, RowHeldOnce, RelayInv, TypeOK
  <2>3. CASE \E e \in Oldest(Candidates) :
                 /\ stage' = [stage EXCEPT ![r] = "publish"]
                 /\ holds' = [holds EXCEPT ![r] = e]
                 /\ session' = [session EXCEPT ![r] = TRUE]
    <3>1. PICK e \in Candidates :
                 /\ stage' = [stage EXCEPT ![r] = "publish"]
                 /\ holds' = [holds EXCEPT ![r] = e]
                 /\ session' = [session EXCEPT ![r] = TRUE]
        BY <2>3 DEF Oldest
    <3>2. e \in Unpublished /\ ~Locked(e)
        BY <3>1 DEF Candidates
    <3>3. RowHeldOnce'
        BY <3>1, <3>2 DEF RowHeldOnce, Locked, TypeOK
    <3>4. \A q \in Relay : RelayInv(q)'
        BY <2>0, <2>1, <3>1, <3>2 DEF RelayInv, Unpublished, TypeOK
    <3> QED BY <2>0, <2>1, <3>3, <3>4 DEF NothingLostOrInvented
  <2> QED BY <1>4, <2>2, <2>3 DEF Select
<1>5. ASSUME NEW r \in Relay, Publish(r) PROVE Rest'
  <2>0. UNCHANGED <<row, published>> /\ stage[r] = "publish" /\ holds[r] \in Committed
      BY <1>5 DEF Publish, callers, RelayInv
  <2>1. Unpublished' = Unpublished /\ Committed' = Committed /\ holds[r] \in Event
      BY <2>0 DEF Unpublished, Committed
  <2>2. Store(holds[r]) => /\ Stored' \subseteq Stored \cup {holds[r]}
                           /\ Stored \subseteq Stored'
                           /\ holds[r] \in Stored'
      BY <2>1, StoreGrows, StoreStores DEF TypeOK
  <2>3. UNCHANGED <<log, seen>> => Stored' = Stored
      BY DEF Stored
  <2>4. Store(holds[r]) \/ UNCHANGED <<log, seen>>
      BY <1>5 DEF Publish
  <2>5. /\ Stored \subseteq Stored'
        /\ Stored' \subseteq Committed'
        /\ seen' \subseteq Stored'
      BY <2>0, <2>1, <2>2, <2>3, <2>4 DEF NothingLostOrInvented, Store
  <2>6. CASE /\ Store(holds[r])
             /\ stage' = [stage EXCEPT ![r] = "mark"]
             /\ UNCHANGED <<holds, session>>
      BY <2>0, <2>1, <2>2, <2>5, <2>6 DEF NothingLostOrInvented, RowHeldOnce, RelayInv, TypeOK
  <2>7. CASE EndOfTransaction(r, "idle")
      BY <2>0, <2>1, <2>5, <2>7
         DEF EndOfTransaction, NothingLostOrInvented, RowHeldOnce, RelayInv, TypeOK
  <2> QED BY <1>5, <2>6, <2>7 DEF Publish
<1>6. ASSUME NEW r \in Relay, Mark(r) PROVE Rest'
  <2>0. /\ UNCHANGED <<row, log, seen>>
        /\ stage[r] = "mark"
        /\ \E next \in {"idle", "select"} : EndOfTransaction(r, next)
      BY <1>6 DEF Mark, callers
  <2>1. Stored' = Stored /\ Committed' = Committed
      BY <2>0 DEF Stored, Committed
  <2>2. /\ published' = published \/ (session[r] /\ published' = published \cup {holds[r]})
        /\ holds[r] \in Stored
      BY <1>6 DEF Mark, RelayInv
  <2>3. \A q \in Relay \ {r} : session[q] => holds[q] \in Unpublished'
    <3>1. ASSUME NEW q \in Relay \ {r}, session[q] PROVE holds[q] \in Unpublished'
      <4>1. holds[q] \in Unpublished
          BY <3>1 DEF RelayInv
      <4>2. session[r] => holds[q] # holds[r]
          BY <3>1 DEF RowHeldOnce
      <4> QED BY <2>1, <2>2, <4>1, <4>2 DEF Unpublished
    <3> QED BY <3>1
  <2>4. \A q \in Relay : RelayInv(q)'
      BY <2>0, <2>1, <2>3 DEF EndOfTransaction, RelayInv, TypeOK
  <2>5. RowHeldOnce'
      BY <2>0 DEF EndOfTransaction, RowHeldOnce, TypeOK
  <2> QED BY <2>0, <2>1, <2>2, <2>4, <2>5 DEF NothingLostOrInvented
<1>7. ASSUME NEW r \in Relay, LoseSession(r) PROVE Rest'
  <2>1. /\ UNCHANGED <<row, published, stage, holds, log, seen>>
        /\ session' = [session EXCEPT ![r] = FALSE]
      BY <1>7 DEF LoseSession, callers
  <2> QED BY <2>1 DEF NothingLostOrInvented, RowHeldOnce, RelayInv, Stored, Unpublished,
                      Committed, TypeOK
<1>8. CASE UNCHANGED vars
    BY <1>8 DEF vars, NothingLostOrInvented, RowHeldOnce, RelayInv, Stored, Unpublished, Committed
<1> QED
    BY <1>1, <1>2, <1>3, <1>4, <1>5, <1>6, <1>7, <1>8 DEF Next, Pass

\* As long as nothing has failed, nothing is stored twice.
LEMMA FreshStep == SafeInv /\ FreshInv /\ [Next]_vars => FreshInv'
<1> SUFFICES ASSUME SafeInv, FreshInv, [Next]_vars, faults' = 0 PROVE FreshInv'
    BY DEF FreshInv
<1> USE DEF SafeInv
<1>0. faults = 0
  <2>1. faults' = faults \/ Fault
      BY DEF Next, Pass, Enqueue, Commit, Rollback, Forget, Begin, Select, Publish, Mark,
             LoseSession, vars
  <2> QED BY <2>1 DEF Fault, TypeOK
<1>00. ~Fault
    BY <1>0 DEF Fault
<1> DEFINE Rest == /\ Once
                   /\ \A r \in Relay : stage[r] \in {"publish", "mark"} => session[r]
                   /\ \A r \in Relay : stage[r] = "publish" => holds[r] \notin Stored
                   /\ \A e \in Stored : \/ e \in published
                                        \/ \E r \in Relay : stage[r] = "mark" /\ holds[r] = e
<1>000. Rest
    BY <1>0 DEF FreshInv
<1> SUFFICES Rest'
    BY DEF FreshInv
<1>1. ASSUME NEW e \in Event, \/ Enqueue(e) \/ Commit(e) \/ Rollback(e) \/ Forget(e)
      PROVE  Rest'
  <2>1. UNCHANGED <<published, stage, holds, session, log>>
      BY <1>1 DEF Enqueue, Commit, Rollback, Forget
  <2> QED BY <1>000, <2>1 DEF Once, Stored
<1>2. ASSUME NEW r \in Relay, Begin(r) PROVE Rest'
  <2>1. /\ UNCHANGED <<published, holds, session, log>>
        /\ stage[r] \in {"idle", "done"}
        /\ stage' = [stage EXCEPT ![r] = "select"]
      BY <1>2 DEF Begin
  <2>2. Stored' = Stored /\ (Once => Once')
      BY <2>1 DEF Stored, Once
  <2> QED BY <1>000, <2>1, <2>2 DEF TypeOK
<1>3. ASSUME NEW r \in Relay, Select(r) PROVE Rest'
  <2>0. UNCHANGED <<published, log>> /\ stage[r] = "select"
      BY <1>3 DEF Select
  <2>1. Stored' = Stored /\ (Once => Once')
      BY <2>0 DEF Stored, Once
  <2>2. CASE stage' = [stage EXCEPT ![r] = "done"] /\ UNCHANGED <<holds, session>>
      BY <1>000, <2>0, <2>1, <2>2 DEF TypeOK
  <2>3. CASE \E e \in Oldest(Candidates) :
                 /\ stage' = [stage EXCEPT ![r] = "publish"]
                 /\ holds' = [holds EXCEPT ![r] = e]
                 /\ session' = [session EXCEPT ![r] = TRUE]
    <3>1. PICK e \in Candidates :
                 /\ stage' = [stage EXCEPT ![r] = "publish"]
                 /\ holds' = [holds EXCEPT ![r] = e]
                 /\ session' = [session EXCEPT ![r] = TRUE]
        BY <2>3 DEF Oldest
    <3>2. e \notin Stored
      <4>1. e \notin published /\ ~Locked(e)
          BY <3>1 DEF Candidates, Unpublished
      <4>2. \A q \in Relay : stage[q] = "mark" => holds[q] # e
          BY <1>000, <4>1 DEF Locked
      <4> QED BY <1>000, <4>1, <4>2
    <3> QED BY <1>000, <2>0, <2>1, <3>1, <3>2 DEF TypeOK
  <2> QED BY <1>3, <2>2, <2>3 DEF Select
<1>4. ASSUME NEW r \in Relay, Publish(r) PROVE Rest'
  <2>0. /\ Store(holds[r])
        /\ stage' = [stage EXCEPT ![r] = "mark"]
        /\ UNCHANGED <<holds, session, published>>
        /\ stage[r] = "publish"
        /\ holds[r] \in Event
      BY <1>4, <1>00 DEF Publish, RelayInv, Committed
  <2>1. holds[r] \notin Stored
      BY <1>000, <2>0
  <2>2. /\ log \in Seq(Event)
        /\ log' = log \/ log' = Append(log, holds[r])
        /\ Stored' \subseteq Stored \cup {holds[r]}
        /\ Stored \subseteq Stored'
      BY <2>0, StoreGrows DEF TypeOK
  <2>3. Once'
    <3>1. CASE log' = log
        BY <1>000, <3>1 DEF Once
    <3>2. CASE log' = Append(log, holds[r])
      <4>1. \A i \in DOMAIN log : log[i] # holds[r]
          BY <2>1 DEF Stored
      <4> QED BY <1>000, <2>2, <3>2, <4>1 DEF Once
    <3> QED BY <2>2, <3>1, <3>2
  <2>4. \A q \in Relay \ {r} : session[q] => holds[q] # holds[r]
      BY <1>000, <2>0 DEF RowHeldOnce
  <2>5. \A q \in Relay : stage'[q] = "publish" => holds'[q] \notin Stored'
      BY <1>000, <2>0, <2>2, <2>4 DEF TypeOK
  <2>6. \A e \in Stored' : \/ e \in published'
                           \/ \E q \in Relay : stage'[q] = "mark" /\ holds'[q] = e
      BY <1>000, <2>0, <2>2 DEF TypeOK
  <2>7. \A q \in Relay : stage'[q] \in {"publish", "mark"} => session'[q]
      BY <1>000, <2>0 DEF TypeOK
  <2> QED BY <2>3, <2>5, <2>6, <2>7
<1>5. ASSUME NEW r \in Relay, Mark(r) PROVE Rest'
  <2>0. /\ stage[r] = "mark"
        /\ published' = published \cup {holds[r]}
        /\ EndOfTransaction(r, "select")
        /\ UNCHANGED log
      BY <1>5, <1>00, <1>000 DEF Mark
  <2>1. Stored' = Stored /\ (Once => Once')
      BY <2>0 DEF Stored, Once
  <2> QED BY <1>000, <2>0, <2>1 DEF EndOfTransaction, TypeOK
<1>6. ASSUME NEW r \in Relay, LoseSession(r) PROVE Rest'
    BY <1>6, <1>00 DEF LoseSession
<1>7. CASE UNCHANGED vars
    BY <1>000, <1>7 DEF vars, Once, Stored
<1> QED
    BY <1>1, <1>2, <1>3, <1>4, <1>5, <1>6, <1>7 DEF Next, Pass

-----------------------------------------------------------------------------
\* The invariant holds of every state of every behaviour.
THEOREM OutboxInvariant == Spec => []OutboxInv
<1>1. Init => OutboxInv
    BY InitOutbox
<1>2. OutboxInv /\ [Next]_vars => OutboxInv'
    BY SafeStep, FreshStep DEF OutboxInv
<1> QED BY <1>1, <1>2, PTL DEF Spec

\* Type correctness of the outbox.
THEOREM OutboxTyped == Spec => []TypeOK
<1>1. OutboxInv => TypeOK
    BY DEF OutboxInv, SafeInv
<1> QED BY <1>1, OutboxInvariant, PTL

\* A marked row is on the stream and the stream holds committed rows only,
\* whatever relays, publishes and sessions fail.
THEOREM NothingIsLostOrInvented == Spec => []NothingLostOrInvented
<1>1. OutboxInv => NothingLostOrInvented
    BY DEF OutboxInv, SafeInv
<1> QED BY <1>1, OutboxInvariant, PTL

\* No row is in two live transactions.
THEOREM RowsAreHeldOnce == Spec => []RowHeldOnce
<1>1. OutboxInv => RowHeldOnce
    BY DEF OutboxInv, SafeInv
<1> QED BY <1>1, OutboxInvariant, PTL

\* Without failures every row is stored once, for any number of relays and
\* however short the duplicate window is.
THEOREM CleanRunsPublishOnce == Spec => []CleanRunOnce
<1>1. OutboxInv => CleanRunOnce
    BY DEF OutboxInv, FreshInv, CleanRunOnce
<1> QED BY <1>1, OutboxInvariant, PTL

-----------------------------------------------------------------------------
\* The outbox starts where its contract starts.
LEMMA InitMaps == Init => Contract!OInit
BY DEF Init, Contract!OInit, Committed

\* Every step of the outbox is a step of the contract or leaves its view alone.
LEMMA StepMaps == OutboxInv /\ [Next]_vars => [Contract!ONext]_(Contract!ovars)
<1> SUFFICES ASSUME SafeInv, [Next]_vars
             PROVE  Contract!ONext \/ UNCHANGED Contract!ovars
    BY DEF OutboxInv
<1> USE DEF SafeInv
<1>1. ASSUME NEW e \in Event, Commit(e) PROVE Contract!ONext
  <2>1. Committed' = Committed \cup {e}
      BY <1>1 DEF Commit, Committed, TypeOK
  <2>2. Contract!OSubmit(e)
      BY <1>1, <2>1 DEF Commit, Contract!OSubmit
  <2> QED BY <2>2 DEF Contract!ONext
<1>2. ASSUME NEW e \in Event, \/ Enqueue(e) \/ Rollback(e) \/ Forget(e)
      PROVE  UNCHANGED Contract!ovars
  <2>1. Committed' = Committed
      BY <1>2 DEF Enqueue, Rollback, Forget, callers, Committed, TypeOK
  <2> QED BY <1>2, <2>1 DEF Enqueue, Rollback, Forget, Contract!ovars
<1>3. ASSUME NEW r \in Relay, \/ Begin(r) \/ Select(r) \/ LoseSession(r)
      PROVE  UNCHANGED Contract!ovars
  <2>1. Committed' = Committed
      BY <1>3 DEF Begin, Select, LoseSession, callers, Committed
  <2> QED BY <1>3, <2>1 DEF Begin, Select, LoseSession, Contract!ovars
<1>4. ASSUME NEW r \in Relay, Publish(r)
      PROVE  Contract!ONext \/ UNCHANGED Contract!ovars
  <2>1. /\ holds[r] \in Committed
        /\ holds[r] \in Event
        /\ Committed' = Committed
        /\ published' = published
      BY <1>4 DEF Publish, callers, RelayInv, Committed
  <2>2. log' = log \/ log' = Append(log, holds[r])
      BY <1>4 DEF Publish, Store
  <2>3. CASE log' = log
      BY <2>1, <2>3 DEF Contract!ovars
  <2>4. CASE log' = Append(log, holds[r])
    <3>1. Contract!OStore(holds[r])
        BY <2>1, <2>4 DEF Contract!OStore
    <3> QED BY <2>1, <3>1 DEF Contract!ONext
  <2> QED BY <2>2, <2>3, <2>4
<1>5. ASSUME NEW r \in Relay, Mark(r)
      PROVE  Contract!ONext \/ UNCHANGED Contract!ovars
  <2>1. /\ holds[r] \in Committed
        /\ holds[r] \in Event
        /\ holds[r] \in Stored
        /\ Committed' = Committed
        /\ log' = log
      BY <1>5 DEF Mark, callers, RelayInv, Committed
  <2>2. published' = published \/ published' = published \cup {holds[r]}
      BY <1>5 DEF Mark
  <2>3. CASE published' = published
      BY <2>1, <2>3 DEF Contract!ovars
  <2>4. CASE published' = published \cup {holds[r]}
    <3>1. Contract!OSettle(holds[r])
        BY <2>1, <2>4 DEF Contract!OSettle, Stored
    <3> QED BY <2>1, <3>1 DEF Contract!ONext
  <2> QED BY <2>2, <2>3, <2>4
<1>6. CASE UNCHANGED vars
    BY <1>6 DEF vars, Contract!ovars, Committed
<1> QED
    BY <1>1, <1>2, <1>3, <1>4, <1>5, <1>6 DEF Next, Pass

\* The outbox, with its relays and their failures, implements its contract.
THEOREM OutboxKeepsContract == Spec => KeepsOutboxContract
<1>1. Init => Contract!OInit
    BY InitMaps
<1>2. OutboxInv /\ [Next]_vars => [Contract!ONext]_(Contract!ovars)
    BY StepMaps
<1> QED
    BY <1>1, <1>2, OutboxInvariant, PTL DEF Spec, KeepsOutboxContract, Contract!OSpec

-----------------------------------------------------------------------------
\* Until the broker forgets an id, it remembers all it has stored.
Remembers == forgets = 0 => Once /\ Stored \subseteq seen

\* A publish inside the duplicate window adds a new id or nothing.
LEMMA StoreOnce ==
    ASSUME NEW e \in Event, log \in Seq(Event), Store(e), Once, Stored \subseteq seen
    PROVE  Once' /\ Stored' \subseteq seen'
<1>1. Stored' \subseteq seen'
  BY StoreGrows DEF Store
<1>2. CASE log' = log
  BY <1>1, <1>2 DEF Once
<1>3. CASE log' = Append(log, e) /\ e \notin seen
  <2>1. \A i \in DOMAIN log : log[i] # e
    BY <1>3 DEF Stored
  <2> QED BY <1>1, <1>3, <2>1 DEF Once
<1> QED BY <1>2, <1>3 DEF Store, Deduplicated

LEMMA RememberStep == SafeInv /\ Remembers /\ [Next]_vars => Remembers'
<1> SUFFICES ASSUME SafeInv, Remembers, [Next]_vars, forgets' = 0 PROVE Once' /\ Stored' \subseteq seen'
  BY DEF Remembers
<1>0. TypeOK
  BY DEF SafeInv
<1>1. ASSUME NEW e \in Event, Forget(e) PROVE FALSE
  BY <1>0, <1>1 DEF Forget, TypeOK
<1>2. CASE UNCHANGED <<log, seen, forgets>>
  BY <1>2 DEF Remembers, Once, Stored
<1>3. ASSUME NEW r \in Relay, Publish(r) PROVE Once' /\ Stored' \subseteq seen'
  <2>1. stage[r] = "publish" /\ UNCHANGED forgets /\ (Store(holds[r]) \/ UNCHANGED <<log, seen>>)
    BY <1>3 DEF Publish
  <2>2. holds[r] \in Event
    BY <2>1 DEF SafeInv, RelayInv, Committed
  <2>3. CASE UNCHANGED <<log, seen>>
    BY <1>2, <2>1, <2>3
  <2>4. CASE Store(holds[r])
    <3>1. Once /\ Stored \subseteq seen
      BY <2>1 DEF Remembers
    <3> QED BY <1>0, <2>2, <2>4, <3>1, StoreOnce DEF TypeOK
  <2> QED BY <2>1, <2>3, <2>4
<1>4. ASSUME NEW e \in Event, Enqueue(e) \/ Commit(e) \/ Rollback(e) PROVE UNCHANGED <<log, seen, forgets>>
  BY <1>4 DEF Enqueue, Commit, Rollback
<1>5. ASSUME NEW r \in Relay, Begin(r) \/ Select(r) \/ Mark(r) \/ LoseSession(r)
      PROVE  UNCHANGED <<log, seen, forgets>>
  BY <1>5 DEF Begin, Select, Mark, LoseSession
<1> QED BY <1>1, <1>2, <1>3, <1>4, <1>5 DEF Next, Pass, vars

\* Inside the duplicate window nothing is stored twice, whatever fails.
THEOREM StoredOnceInTheWindow == Spec => []StoredOnce
<1>1. Init => Remembers
  BY DEF Init, Remembers, Once, Stored
<1>2. OutboxInv /\ Remembers /\ [Next]_vars => Remembers'
  BY RememberStep DEF OutboxInv
<1>3. Remembers => StoredOnce
  BY DEF Remembers, StoredOnce
<1> QED BY <1>1, <1>2, <1>3, OutboxInvariant, PTL DEF Spec

-----------------------------------------------------------------------------
(* One relay.                                                              *)

\* What committed before e's transaction began is committed and was born before
\* it; what a relay is about to publish waits for nothing but itself; a pass
\* owes committed rows, and none when it is done.
OrderInv ==
    /\ \A e \in Event : born[e] <= clock
    /\ \A e \in Event : row[e] # "none" =>
           older[e] \subseteq Committed /\ \A f \in older[e] : born[f] < born[e]
    /\ OldestFirst
    /\ \A r \in Relay : stage[r] = "publish" => older[holds[r]] \subseteq Stored
    /\ \A r \in Relay : owed[r] \subseteq Committed
    /\ DrainsWhatItSaw

LEMMA OrderStep ==
    ASSUME NEW one, Relay = {one}, SafeInv, OrderInv, [Next]_vars
    PROVE  OrderInv'
<1>0. TypeOK /\ NothingLostOrInvented /\ one \in Relay /\ RelayInv(one)
  BY DEF SafeInv
<1>1. ASSUME NEW e \in Event, Enqueue(e) PROVE OrderInv'
  <2>1. /\ row[e] = "none" /\ clock' = clock + 1 /\ UNCHANGED <<published, stage, holds, log, owed>>
        /\ row'[e] = "open" /\ born'[e] = clock + 1 /\ older'[e] = Committed
        /\ \A f \in Event \ {e} : row'[f] = row[f] /\ born'[f] = born[f] /\ older'[f] = older[f]
    BY <1>0, <1>1 DEF Enqueue, TypeOK
  <2>2. Committed' = Committed /\ Stored' = Stored /\ e \notin Committed /\ e \notin Stored
    BY <1>0, <2>1 DEF Committed, Stored, NothingLostOrInvented
  <2>3. \A f \in Event : born'[f] <= clock'
    BY SMTT(30), <1>0, <2>1 DEF OrderInv, TypeOK
  <2>4. ASSUME NEW f \in Event, row'[f] # "none"
        PROVE  older'[f] \subseteq Committed' /\ \A g \in older'[f] : born'[g] < born'[f]
    <3>1. \A g \in Committed : g \in Event /\ born'[g] = born[g] /\ born[g] <= clock /\ born[g] \in Nat
      BY <1>0, <2>1, <2>2 DEF Committed, OrderInv, TypeOK
    <3>2. CASE f = e
      BY <1>0, <2>1, <2>2, <3>1, <3>2 DEF TypeOK
    <3>3. CASE f # e
      BY <2>1, <2>2, <2>4, <3>1, <3>3 DEF OrderInv
    <3> QED BY <3>2, <3>3
  <2>5. OldestFirst'
    BY <1>0, <2>1, <2>2 DEF OldestFirst, OrderInv, NothingLostOrInvented, Committed
  <2>6. stage'[one] = "publish" => older'[holds'[one]] \subseteq Stored'
    <3>1. stage[one] = "publish" => holds[one] \in Committed
      BY <1>0 DEF RelayInv
    <3> QED BY <1>0, <2>1, <2>2, <3>1 DEF OrderInv, Committed
  <2>7. owed'[one] \subseteq Committed' /\ DrainsWhatItSaw'
    BY <1>0, <2>1, <2>2 DEF OrderInv, DrainsWhatItSaw
  <2> QED BY <2>3, <2>4, <2>5, <2>6, <2>7 DEF OrderInv
<1>2. ASSUME NEW e \in Event, Commit(e) \/ Rollback(e) PROVE OrderInv'
  <2>1. /\ row[e] = "open" /\ row'[e] \in {"none", "committed"}
        /\ \A f \in Event \ {e} : row'[f] = row[f]
        /\ UNCHANGED <<born, clock, older, published, stage, holds, log, owed>>
    BY <1>0, <1>2 DEF Commit, Rollback, TypeOK
  <2>2. Committed \subseteq Committed' /\ Stored' = Stored
    BY <2>1 DEF Committed, Stored
  <2>3. \A f \in Event : row'[f] # "none" => row[f] # "none"
    BY <2>1
  <2> QED BY <2>1, <2>2, <2>3 DEF OrderInv, OldestFirst, DrainsWhatItSaw
<1>3. CASE \/ \E e \in Event : Forget(e)
           \/ LoseSession(one)
           \/ UNCHANGED vars
  <2>1. UNCHANGED <<row, born, clock, older, published, stage, holds, log, owed>>
    BY <1>3 DEF Forget, LoseSession, vars, callers
  <2>2. Committed' = Committed /\ Stored' = Stored
    BY <2>1 DEF Committed, Stored
  <2> QED BY <2>1, <2>2 DEF OrderInv, OldestFirst, DrainsWhatItSaw
<1>4. ASSUME Begin(one) PROVE OrderInv'
  <2>1. /\ UNCHANGED <<row, born, clock, older, published, holds, log>>
        /\ stage'[one] = "select" /\ owed'[one] = Unpublished
    BY <1>0, <1>4 DEF Begin, callers, TypeOK
  <2>2. Committed' = Committed /\ Stored' = Stored /\ Unpublished \subseteq Committed
    BY <2>1 DEF Committed, Stored, Unpublished
  <2> QED BY <2>1, <2>2 DEF OrderInv, OldestFirst, DrainsWhatItSaw
<1>5. ASSUME Select(one) PROVE OrderInv'
  <2>1. /\ stage[one] = "select" /\ UNCHANGED <<row, born, clock, older, published, log, owed>>
    BY <1>5 DEF Select, callers
  <2>2. Committed' = Committed /\ Stored' = Stored
    BY <2>1 DEF Committed, Stored
  <2>3. Candidates = Unpublished
    BY <1>0, <2>1 DEF Candidates, Locked, RelayInv
  <2>4. CASE Candidates = {} /\ stage' = [stage EXCEPT ![one] = "done"] /\ UNCHANGED holds
    <3>1. stage'[one] = "done" /\ owed[one] \subseteq published
      BY <1>0, <2>3, <2>4 DEF TypeOK, OrderInv, Unpublished
    <3> QED BY <2>1, <2>2, <2>4, <3>1 DEF OrderInv, OldestFirst, DrainsWhatItSaw
  <2>5. ASSUME NEW e \in Oldest(Candidates), stage' = [stage EXCEPT ![one] = "publish"],
               holds' = [holds EXCEPT ![one] = e]
        PROVE  OrderInv'
    <3>1. stage'[one] = "publish" /\ holds'[one] = e
      BY <1>0, <2>5 DEF TypeOK
    <3>2. e \in Committed /\ \A f \in Unpublished : born[e] <= born[f]
      BY <2>3 DEF Oldest, Unpublished
    <3>3. ASSUME NEW f \in older[e] PROVE f \in Stored
      <4>1. f \in Committed /\ born[f] < born[e] /\ f \in Event /\ e \in Event
        BY <3>2 DEF OrderInv, Committed
      <4>2. born[f] \in Nat /\ born[e] \in Nat
        BY <1>0, <4>1 DEF TypeOK
      <4>3. f \in published
        BY <3>2, <4>1, <4>2 DEF Unpublished
      <4> QED BY <1>0, <4>3 DEF NothingLostOrInvented
    <3> QED BY <2>1, <2>2, <3>1, <3>3 DEF OrderInv, OldestFirst, DrainsWhatItSaw
  <2> QED BY <1>5, <2>4, <2>5 DEF Select
<1>6. ASSUME Publish(one) PROVE OrderInv'
  <2>1. /\ stage[one] = "publish" /\ UNCHANGED <<row, born, clock, older, published, owed>>
        /\ Store(holds[one]) \/ UNCHANGED <<log, seen>>
        /\ stage'[one] \in {"mark", "idle"}
    BY <1>0, <1>6 DEF Publish, EndOfTransaction, callers, TypeOK
  <2>2. Committed' = Committed /\ holds[one] \in Event
    BY <1>0, <2>1 DEF Committed, RelayInv
  <2>3. Stored \subseteq Stored' /\ Stored' \subseteq Stored \cup {holds[one]}
    <3>1. CASE Store(holds[one])
      BY <1>0, <2>2, <3>1, StoreGrows DEF TypeOK
    <3>2. CASE UNCHANGED <<log, seen>>
      BY <3>2 DEF Stored
    <3> QED BY <2>1, <3>1, <3>2
  <2>4. OldestFirst'
    <3>1. older[holds[one]] \subseteq Stored
      BY <1>0, <2>1 DEF OrderInv
    <3> QED BY <2>1, <2>3, <3>1 DEF OrderInv, OldestFirst
  <2> QED BY <2>1, <2>2, <2>4 DEF OrderInv, DrainsWhatItSaw
<1>7. ASSUME Mark(one) PROVE OrderInv'
  <2>1. /\ UNCHANGED <<row, born, clock, older, log, owed>>
        /\ stage'[one] \in {"idle", "select"}
    BY <1>0, <1>7 DEF Mark, EndOfTransaction, callers, TypeOK
  <2>2. Committed' = Committed /\ Stored' = Stored
    BY <2>1 DEF Committed, Stored
  <2> QED BY <2>1, <2>2 DEF OrderInv, OldestFirst, DrainsWhatItSaw
<1> QED BY <1>1, <1>2, <1>3, <1>4, <1>5, <1>6, <1>7 DEF Next, Pass

\* A single relay publishes in the order of the transactions and drains what it
\* found, whatever fails.
THEOREM OneRelayDrainsInOrder ==
    ASSUME NEW one, Relay = {one}
    PROVE  Spec => []DrainsInOrder
<1>1. Init => OrderInv
  BY DEF Init, OrderInv, OldestFirst, DrainsWhatItSaw, Stored, Committed
<1>2. OutboxInv /\ OrderInv /\ [Next]_vars => OrderInv'
  BY OrderStep DEF OutboxInv
<1>3. OrderInv => DrainsInOrder
  BY DEF OrderInv, DrainsInOrder
<1> QED BY <1>1, <1>2, <1>3, OutboxInvariant, PTL DEF Spec
=============================================================================
