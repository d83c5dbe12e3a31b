----------------------------- MODULE DoorProofs -----------------------------
(***************************************************************************)
(* Proofs about Door for any messages, credentials and bounds: type        *)
(* correctness, 202 is never a lie, one copy per task, nobody comes in     *)
(* unvouched, and a message's copies are paid for with failures.  DoorInv  *)
(* says how far a delivery can be without its proofs; CopiesInv is the     *)
(* account of a message's copies.                                          *)
(***************************************************************************)
EXTENDS Door, FiniteSetTheorems, TLAPS

\* What a thread past a check has shown, or will find at the next one.
Shown(d) ==
    /\ phase[d] = "lookup" /\ row[cred[d[1]]] = "active" => d \in vouched
    /\ phase[d] \notin {"absent", "lookup", "answered"} => d \in vouched
    /\ phase[d] \notin {"absent", "lookup", "prepare", "answered"} => cred[d[1]] \in Fits

Checked == \A d \in Delivery : Shown(d)

DoorInv == TypeOK /\ Checked /\ AcceptedIsStored /\ TaskStoredOnce /\ OnlyTheVouchedFor

-----------------------------------------------------------------------------
LEMMA DeliveryParts ==
    /\ \A d \in Delivery : d[1] \in Message
    /\ \A m \in Message, k \in 1..MaxDeliveries : <<m, k>> \in Delivery
BY DEF Delivery

LEMMA InitDoorInv == Init => DoorInv
<1> SUFFICES ASSUME Init PROVE DoorInv
  OBVIOUS
<1>1. TypeOK
  BY DoorAssumption DEF Init, TypeOK, Phase
<1>2. Checked /\ AcceptedIsStored /\ TaskStoredOnce /\ OnlyTheVouchedFor
  BY DEF Init, Checked, Shown, AcceptedIsStored, TaskStoredOnce, OnlyTheVouchedFor
<1> QED BY <1>1, <1>2 DEF DoorInv

\* One thread takes a step: it stays vouched for, and claims or stores a task
\* only together and only when vouched for.
LEMMA OneThreadKeepsInv ==
    ASSUME DoorInv, TypeOK', NEW d \in Delivery, UNCHANGED <<cred, row>>,
           vouched \subseteq vouched',
           \A e \in Delivery : e # d => phase'[e] = phase[e] /\ status'[e] = status[e],
           Shown(d)',
           stream' = stream \/ (Stored(d) /\ d \in vouched /\ cred[d[1]] \in Fits),
           status'[d] = 202 => status[d] = 202 \/ Stored(d)
    PROVE  DoorInv'
<1>0. TypeOK /\ Checked /\ AcceptedIsStored /\ TaskStoredOnce /\ OnlyTheVouchedFor
  BY DEF DoorInv
<1>1. Checked'
  BY <1>0 DEF Checked, Shown
<1>2. /\ \A e \in Delivery : e # d => stream'[e] = stream[e]
      /\ stream'[d] = stream[d] \/ stream'[d] = 1
      /\ Stored(d) => stream'[d] = 1
  BY <1>0 DEF Stored, TypeOK
<1>3. stream[d] \in Nat
  BY <1>0 DEF TypeOK
<1>4. AcceptedIsStored'
  BY <1>0, <1>2, <1>3 DEF AcceptedIsStored
<1>5. TaskStoredOnce'
  BY <1>0, <1>2 DEF TaskStoredOnce
<1>6. OnlyTheVouchedFor'
  <2> SUFFICES ASSUME NEW e \in Delivery, stream'[e] > 0
               PROVE  e \in vouched' /\ cred[e[1]] \in Fits
    BY DEF OnlyTheVouchedFor
  <2>1. CASE e = d /\ stream' # stream
    BY <2>1
  <2>2. CASE e # d \/ stream' = stream
    BY <1>0, <1>2, <2>2 DEF OnlyTheVouchedFor
  <2> QED BY <2>1, <2>2
<1> QED BY <1>1, <1>4, <1>5, <1>6 DEF DoorInv

\* What going on and being answered do to the threads.
LEMMA Steps ==
    ASSUME TypeOK, NEW d \in Delivery
    PROVE  /\ \A p : Goes(d, p) => /\ phase'[d] = p /\ status'[d] = status[d]
                                  /\ \A e \in Delivery : e # d => phase'[e] = phase[e]
                                                              /\ status'[e] = status[e]
           /\ \A s : Answer(d, s) => /\ phase'[d] = "answered" /\ status'[d] = s
                                    /\ \A e \in Delivery : e # d => phase'[e] = phase[e]
                                                                /\ status'[e] = status[e]
BY DEF Goes, Answer, TypeOK

LEMMA NextTyped == TypeOK /\ [Next]_vars => TypeOK'
<1> SUFFICES ASSUME TypeOK, [Next]_vars PROVE TypeOK'
  OBVIOUS
<1> USE DoorAssumption
<1>0. Fault => faults' \in 0..MaxFaults
  BY DEF Fault, TypeOK
<1>1. \A d \in Delivery, p \in Phase :
         Goes(d, p) => /\ phase' \in [Delivery -> Phase]
                       /\ status' \in [Delivery -> {0, 200, 202} \cup Refused]
  BY DEF Goes, TypeOK
<1>2. \A d \in Delivery, s \in {200, 202} \cup Refused :
         Answer(d, s) => /\ phase' \in [Delivery -> Phase]
                         /\ status' \in [Delivery -> {0, 200, 202} \cup Refused]
  BY DEF Answer, TypeOK, Phase
<1>3. ASSUME NEW m \in Message, Deliver(m) PROVE TypeOK'
  <2>1. heard[m] + 1 \in 1..MaxDeliveries
    BY <1>3 DEF Deliver, TypeOK
  <2>2. <<m, heard[m] + 1>> \in Delivery
    BY <2>1, DeliveryParts
  <2>3. Goes(<<m, heard[m] + 1>>, "lookup")
    BY <1>3 DEF Deliver
  <2>4. heard' \in [Message -> 0..MaxDeliveries]
    BY <1>3, <2>1 DEF Deliver, TypeOK
  <2>5. vouched' \subseteq Delivery
    BY <1>3, <2>2 DEF Deliver, TypeOK
  <2>6. faults' \in 0..MaxFaults
    BY <1>0, <1>3 DEF Deliver, TypeOK
  <2>7. "lookup" \in Phase
    BY DEF Phase
  <2>8. UNCHANGED <<cred, row, loop, up, stream, edits>>
    BY <1>3 DEF Deliver
  <2> QED BY <1>1, <2>2, <2>3, <2>4, <2>5, <2>6, <2>7, <2>8 DEF TypeOK
<1>4. ASSUME NEW c \in Credential, Edit(c) PROVE TypeOK'
  <2>1. row' \in [Credential -> {"none", "active", "disabled"}]
    BY <1>4 DEF Edit, TypeOK
  <2>2. vouched' \subseteq Delivery
    BY <1>4 DEF Edit, TypeOK
  <2>3. edits' \in 0..MaxEdits
    BY <1>4 DEF Edit, TypeOK
  <2> QED BY <1>4, <2>1, <2>2, <2>3 DEF Edit, TypeOK
<1>5. ASSUME NEW d \in Delivery, Lookup(d) PROVE TypeOK'
  <2>1. Answer(d, 401) \/ Answer(d, 403) \/ Answer(d, 500) \/ Goes(d, "prepare")
    BY <1>5 DEF Lookup
  <2>2. /\ phase' \in [Delivery -> Phase]
        /\ status' \in [Delivery -> {0, 200, 202} \cup Refused]
    BY <1>1, <1>2, <2>1 DEF Phase, Refused
  <2>3. faults' \in 0..MaxFaults
    BY <1>0, <1>5 DEF Lookup, TypeOK
  <2> QED BY <1>5, <2>2, <2>3 DEF Lookup, TypeOK
<1>6. ASSUME NEW d \in Delivery, Prepare(d) PROVE TypeOK'
  <2>1. Answer(d, 401) \/ Answer(d, 503) \/ Answer(d, 400) \/ Answer(d, 200) \/ Goes(d, "publish")
    BY <1>6 DEF Prepare
  <2>2. /\ phase' \in [Delivery -> Phase]
        /\ status' \in [Delivery -> {0, 200, 202} \cup Refused]
    BY <1>1, <1>2, <2>1 DEF Phase, Refused
  <2> QED BY <1>6, <2>2 DEF Prepare, TypeOK
<1>7. ASSUME NEW d \in Delivery, Start(d) PROVE TypeOK'
  <2>1. Goes(d, "publishing") \/ Goes(d, "reconnecting") \/ Goes(d, "retrying")
    BY <1>7 DEF Start, Wants
  <2>2. /\ phase' \in [Delivery -> Phase]
        /\ status' \in [Delivery -> {0, 200, 202} \cup Refused]
    BY <1>1, <2>1 DEF Phase
  <2> QED BY <1>7, <2>2 DEF Start, TypeOK
<1>8. ASSUME NEW d \in Delivery, Collide(d) PROVE TypeOK'
  <2>1. Goes(d, "reconnect") \/ Answer(d, 503)
    BY <1>8 DEF Collide
  <2>2. /\ phase' \in [Delivery -> Phase]
        /\ status' \in [Delivery -> {0, 200, 202} \cup Refused]
    BY <1>1, <1>2, <2>1 DEF Phase, Refused
  <2> QED BY <1>8, <2>2 DEF Collide, TypeOK
<1>9. ASSUME NEW d \in Delivery, Publish(d) PROVE TypeOK'
  <2>1. Goes(d, "reconnect") \/ Answer(d, 503) \/ Answer(d, 202)
    BY <1>9 DEF Publish, Failed, Succeeded
  <2>2. /\ phase' \in [Delivery -> Phase]
        /\ status' \in [Delivery -> {0, 200, 202} \cup Refused]
    BY <1>1, <1>2, <2>1 DEF Phase, Refused
  <2>3. stream' \in [Delivery -> Nat]
    BY <1>9 DEF Publish, Stored, TypeOK
  <2>4. faults' \in 0..MaxFaults /\ up' \in BOOLEAN
    BY <1>0, <1>9 DEF Publish, TypeOK
  <2> QED BY <1>9, <2>2, <2>3, <2>4 DEF Publish, TypeOK
<1>10. ASSUME NEW d \in Delivery, Reconnect(d) PROVE TypeOK'
  <2>1. Goes(d, "retry") \/ Answer(d, 503)
    BY <1>10 DEF Reconnect
  <2>2. /\ phase' \in [Delivery -> Phase]
        /\ status' \in [Delivery -> {0, 200, 202} \cup Refused]
    BY <1>1, <1>2, <2>1 DEF Phase, Refused
  <2>3. faults' \in 0..MaxFaults /\ up' \in BOOLEAN
    BY <1>0, <1>10 DEF Reconnect, TypeOK
  <2> QED BY <1>10, <2>2, <2>3 DEF Reconnect, TypeOK
<1>11. CASE Drop
  BY <1>0, <1>11 DEF Drop, TypeOK
<1>12. CASE UNCHANGED vars
  BY <1>12 DEF vars, TypeOK
<1> QED BY <1>3, <1>4, <1>5, <1>6, <1>7, <1>8, <1>9, <1>10, <1>11, <1>12 DEF Next, Handle

LEMMA NextKeepsDoorInv == DoorInv /\ [Next]_vars => DoorInv'
<1> SUFFICES ASSUME DoorInv, [Next]_vars PROVE DoorInv'
  OBVIOUS
<1> USE DoorAssumption
<1>0. TypeOK /\ Checked /\ AcceptedIsStored /\ TaskStoredOnce /\ OnlyTheVouchedFor
  BY DEF DoorInv
<1>1. TypeOK'
  BY <1>0, NextTyped
<1>2. ASSUME NEW m \in Message, Deliver(m) PROVE DoorInv'
  <2>1. PICK d \in Delivery : d = <<m, heard[m] + 1>>
    BY <1>0, <1>2, DeliveryParts DEF Deliver, TypeOK
  <2>2. Goes(d, "lookup") /\ UNCHANGED <<cred, row, stream>>
        /\ vouched' = IF row[cred[m]] = "active" THEN vouched \cup {d} ELSE vouched
    BY <1>2, <2>1 DEF Deliver
  <2>3. Shown(d)'
    BY <1>0, <2>1, <2>2, Steps DEF Shown
  <2> QED BY <1>0, <1>1, <2>1, <2>2, <2>3, Steps, OneThreadKeepsInv
<1>3. ASSUME NEW c \in Credential, Edit(c) PROVE DoorInv'
  <2>1. UNCHANGED <<cred, phase, status, stream>> /\ vouched \subseteq vouched'
    BY <1>3 DEF Edit
  <2>2. PICK s \in {"none", "active", "disabled"} \ {row[c]} :
            /\ row' = [row EXCEPT ![c] = s]
            /\ vouched' = IF s = "active"
                  THEN vouched \cup {d \in Delivery : cred[d[1]] = c /\ phase[d] = "lookup"}
                  ELSE vouched
    BY <1>3 DEF Edit
  <2>3. Checked'
    <3> SUFFICES ASSUME NEW d \in Delivery PROVE Shown(d)'
      BY DEF Checked
    <3>1. cred[d[1]] \in Credential
      BY <1>0, DeliveryParts DEF TypeOK
    <3>2. CASE cred[d[1]] = c
      BY <1>0, <2>1, <2>2, <3>1, <3>2 DEF Checked, Shown, TypeOK
    <3>3. CASE cred[d[1]] # c
      BY <1>0, <2>1, <2>2, <3>1, <3>3 DEF Checked, Shown, TypeOK
    <3> QED BY <3>2, <3>3
  <2> QED BY <1>0, <1>1, <2>1, <2>3
          DEF DoorInv, AcceptedIsStored, TaskStoredOnce, OnlyTheVouchedFor
<1>4. ASSUME NEW d \in Delivery, Lookup(d) PROVE DoorInv'
  <2>1. /\ UNCHANGED <<cred, row, vouched, stream>>
        /\ \/ Answer(d, 401) \/ Answer(d, 403) \/ Answer(d, 500)
           \/ Admitted(cred[d[1]]) /\ Goes(d, "prepare")
    BY <1>4 DEF Lookup
  <2>2. Admitted(cred[d[1]]) => d \in vouched
    BY <1>0, <1>4 DEF Lookup, Admitted, Checked, Shown
  <2>3. Shown(d)'
    BY <1>0, <2>1, <2>2, Steps DEF Shown
  <2> QED BY <1>0, <1>1, <2>1, <2>3, Steps, OneThreadKeepsInv
<1>5. ASSUME NEW d \in Delivery, Prepare(d) PROVE DoorInv'
  <2>1. /\ UNCHANGED <<cred, row, vouched, stream>>
        /\ \/ Answer(d, 401) \/ Answer(d, 503) \/ Answer(d, 400) \/ Answer(d, 200)
           \/ cred[d[1]] \in Fits /\ Goes(d, "publish")
    BY <1>5 DEF Prepare, Proven
  <2>2. d \in vouched
    BY <1>0, <1>5 DEF Prepare, Checked, Shown
  <2>3. Shown(d)'
    BY <1>0, <2>1, <2>2, Steps DEF Shown
  <2> QED BY <1>0, <1>1, <2>1, <2>3, Steps, OneThreadKeepsInv
<1>6. ASSUME NEW d \in Delivery, Start(d) \/ Collide(d) \/ Publish(d) \/ Reconnect(d)
      PROVE  DoorInv'
  <2>1. /\ UNCHANGED <<cred, row, vouched>>
        /\ phase[d] \in {"publish", "publishing", "reconnect", "reconnecting",
                         "retry", "retrying"}
        /\ \/ UNCHANGED stream
           \/ Stored(d)
    BY <1>6 DEF Start, Wants, Collide, Publish, Reconnect
  <2>2. \/ \E p \in {"publishing", "reconnecting", "retrying", "reconnect", "retry"} : Goes(d, p)
        \/ Answer(d, 503)
        \/ Answer(d, 202) /\ Stored(d)
    <3>1. CASE Start(d)
      BY <3>1 DEF Start, Wants
    <3>2. CASE Collide(d)
      BY <3>2 DEF Collide
    <3>3. CASE Publish(d)
      BY <3>3 DEF Publish, Failed, Succeeded
    <3>4. CASE Reconnect(d)
      BY <3>4 DEF Reconnect
    <3> QED BY <1>6, <3>1, <3>2, <3>3, <3>4
  <2>3. d \in vouched /\ cred[d[1]] \in Fits
    BY <1>0, <2>1 DEF Checked, Shown
  <2>4. Shown(d)'
    BY <2>1, <2>3 DEF Shown
  <2>5. status'[d] = 202 => status[d] = 202 \/ Stored(d)
    BY <1>0, <2>2, Steps
  <2>6. \A e \in Delivery : e # d => phase'[e] = phase[e] /\ status'[e] = status[e]
    BY <1>0, <2>2, Steps
  <2> QED BY <1>1, <2>1, <2>3, <2>4, <2>5, <2>6, OneThreadKeepsInv
<1>7. ASSUME Drop \/ UNCHANGED vars PROVE DoorInv'
  <2>1. UNCHANGED <<cred, row, vouched, phase, status, stream>>
    BY <1>7 DEF Drop, vars
  <2> QED BY <1>0, <1>1, <2>1
          DEF DoorInv, Checked, Shown, AcceptedIsStored, TaskStoredOnce, OnlyTheVouchedFor
<1> QED BY <1>2, <1>3, <1>4, <1>5, <1>6, <1>7 DEF Next, Handle

\* DoorInv is an invariant of every behaviour of the door.
THEOREM DoorInvariant == Spec => []DoorInv
BY InitDoorInv, NextKeepsDoorInv, PTL DEF Spec

-----------------------------------------------------------------------------
\* The door is well typed for any messages, credentials and bounds.
THEOREM DoorTyped == Spec => []TypeOK
<1>1. DoorInv => TypeOK
  BY DEF DoorInv
<1> QED BY <1>1, DoorInvariant, PTL

\* 202 is never a lie, whatever the threads do to each other and to the bus.
THEOREM TwoOhTwoIsTrue == Spec => []AcceptedIsStored
<1>1. DoorInv => AcceptedIsStored
  BY DEF DoorInv
<1> QED BY <1>1, DoorInvariant, PTL

\* A task is stored once, whichever of its two attempts landed.
THEOREM RetriesAreStoredOnce == Spec => []TaskStoredOnce
<1>1. DoorInv => TaskStoredOnce
  BY DEF DoorInv
<1> QED BY <1>1, DoorInvariant, PTL

\* Nobody comes in on a binding that was never active while it waited, nor on a
\* secret the process does not hold.
THEOREM NobodyUnvouched == Spec => []OnlyTheVouchedFor
<1>1. DoorInv => OnlyTheVouchedFor
  BY DEF DoorInv
<1> QED BY <1>1, DoorInvariant, PTL

-----------------------------------------------------------------------------
(* What each further copy of a message is paid for with: the copies it has *)
(* on the stream, the deliveries that may still make one or be followed by *)
(* one for nothing, and its first delivery while that is to come.          *)

CopiesOf(m) == {d \in Delivery : d[1] = m /\ stream[d] > 0}

InTheDoor(d) == phase[d] \notin {"absent", "answered"}

\* A delivery that is under way, or was the last and was refused.
LiveOf(m) == {d \in Delivery : /\ d[1] = m
                               /\ \/ InTheDoor(d)
                                  \/ status[d] \in Refused /\ d[2] = heard[m]}

Expected(m) == IF heard[m] = 0 THEN 1 ELSE 0

PaidMessage(m) ==
    Cardinality(CopiesOf(m)) + Cardinality(LiveOf(m)) + Expected(m) <= 1 + faults

\* An answer ends a delivery, and what has not come has no phase.
InOrder(d) == /\ status[d] # 0 => phase[d] = "answered"
              /\ d[2] > heard[d[1]] => phase[d] = "absent"

CopiesInv == /\ \A m \in Message : PaidMessage(m)
             /\ \A d \in Delivery : InOrder(d)

LEMMA DeliveriesAreFinite ==
    ASSUME NEW m \in Message, NEW S, S \subseteq {d \in Delivery : d[1] = m}
    PROVE  IsFiniteSet(S) /\ Cardinality(S) \in Nat
<1>1. IsFiniteSet(1..MaxDeliveries)
  BY DoorAssumption, FS_Interval
<1>2. IsFiniteSet({m} \X (1..MaxDeliveries))
  BY <1>1, FS_Singleton, FS_Product
<1>3. S \subseteq {m} \X (1..MaxDeliveries)
  BY DEF Delivery
<1> QED BY <1>2, <1>3, FS_Subset, FS_CardinalityType

LEMMA PaidSums ==
    ASSUME TypeOK, NEW m \in Message
    PROVE  /\ Cardinality(CopiesOf(m)) \in Nat /\ Cardinality(LiveOf(m)) \in Nat
           /\ IsFiniteSet(CopiesOf(m)) /\ IsFiniteSet(LiveOf(m))
           /\ Cardinality(CopiesOf(m)') \in Nat /\ Cardinality(LiveOf(m)') \in Nat
           /\ Expected(m) \in {0, 1} /\ faults \in Nat /\ heard[m] \in 0..MaxDeliveries
<1>1. /\ CopiesOf(m) \subseteq {d \in Delivery : d[1] = m}
      /\ LiveOf(m) \subseteq {d \in Delivery : d[1] = m}
      /\ CopiesOf(m)' \subseteq {d \in Delivery : d[1] = m}
      /\ LiveOf(m)' \subseteq {d \in Delivery : d[1] = m}
  BY DEF CopiesOf, LiveOf
<1>2. faults \in Nat /\ heard[m] \in 0..MaxDeliveries
  BY DoorAssumption DEF TypeOK
<1> QED BY <1>1, <1>2, DeliveriesAreFinite DEF Expected

LEMMA AddAtMostOne ==
    ASSUME NEW S, IsFiniteSet(S), NEW x
    PROVE  /\ IsFiniteSet(S \cup {x}) /\ Cardinality(S \cup {x}) \in Nat
           /\ Cardinality(S \cup {x}) <= Cardinality(S) + 1
<1>1. /\ IsFiniteSet(S \cup {x}) /\ Cardinality(S) \in Nat /\ Cardinality(S \cup {x}) \in Nat
      /\ Cardinality(S \cup {x}) = IF x \in S THEN Cardinality(S) ELSE Cardinality(S) + 1
  BY FS_AddElement, FS_CardinalityType
<1> QED BY <1>1

Has(S, d) == IF d \in S THEN 1 ELSE 0

\* Two sets of a message's deliveries that differ in one of them at most.
LEMMA DifferInOne ==
    ASSUME NEW m \in Message, NEW S, NEW T, NEW d \in Delivery,
           S \subseteq {e \in Delivery : e[1] = m}, T \subseteq {e \in Delivery : e[1] = m},
           \A e \in Delivery : e # d => (e \in S <=> e \in T)
    PROVE  Cardinality(T) = Cardinality(S) + Has(T, d) - Has(S, d)
<1>1. /\ IsFiniteSet(S) /\ Cardinality(S) \in Nat
      /\ Cardinality(S \cup {d}) = IF d \in S THEN Cardinality(S) ELSE Cardinality(S) + 1
      /\ Cardinality(S \ {d}) = IF d \in S THEN Cardinality(S) - 1 ELSE Cardinality(S)
  BY DeliveriesAreFinite, FS_AddElement, FS_RemoveElement
<1>2. CASE d \in T
  <2>1. T = S \cup {d}
    BY <1>2
  <2> QED BY <1>1, <1>2, <2>1 DEF Has
<1>3. CASE d \notin T
  <2>1. T = S \ {d}
    BY <1>3
  <2> QED BY <1>1, <1>3, <2>1 DEF Has
<1> QED BY <1>2, <1>3

\* A thread's own step leaves every other delivery alone; it may leave a copy
\* of its task behind, and then it is over or something failed.
LEMMA HandleOnce ==
    ASSUME TypeOK, NEW d \in Delivery, Handle(d)
    PROVE  /\ UNCHANGED heard
           /\ InTheDoor(d)
           /\ \A e \in Delivery : e # d => /\ phase'[e] = phase[e] /\ status'[e] = status[e]
                                           /\ stream'[e] = stream[e]
           /\ status'[d] # status[d] => phase'[d] = "answered"
           /\ \/ faults' = faults /\ stream'[d] = stream[d]
              \/ faults' = faults /\ phase'[d] = "answered" /\ status'[d] = 202
              \/ faults' = faults + 1
<1> USE Steps DEF Fault
<1>1. CASE Lookup(d)
  BY <1>1 DEF Lookup, InTheDoor
<1>2. CASE Prepare(d)
  BY <1>2 DEF Prepare, InTheDoor
<1>3. CASE Start(d)
  BY <1>3 DEF Start, Wants, InTheDoor
<1>4. CASE Collide(d)
  BY <1>4 DEF Collide, InTheDoor
<1>5. CASE Publish(d)
  <2>1. \A e \in Delivery : e # d => stream'[e] = stream[e]
    BY <1>5 DEF Publish, Stored, TypeOK
  <2>2. CASE up /\ Stored(d) /\ Succeeded(d) /\ UNCHANGED <<up, faults>>
    BY <1>5, <2>1, <2>2 DEF Publish, Succeeded, InTheDoor
  <2>3. CASE ~up /\ Failed(d) /\ UNCHANGED <<stream, up, faults>>
    BY <1>5, <2>3 DEF Publish, Failed, InTheDoor
  <2>4. CASE up /\ Fault /\ up' \in BOOLEAN /\ Failed(d) /\ (Stored(d) \/ UNCHANGED stream)
    BY <1>5, <2>1, <2>4 DEF Publish, Failed, InTheDoor
  <2> QED BY <1>5, <2>2, <2>3, <2>4 DEF Publish
<1>6. CASE Reconnect(d)
  BY <1>6 DEF Reconnect, InTheDoor
<1> QED BY <1>1, <1>2, <1>3, <1>4, <1>5, <1>6 DEF Handle

LEMMA HandlePaid ==
    ASSUME TypeOK, CopiesInv, NEW d \in Delivery, Handle(d)
    PROVE  CopiesInv'
<1>1. /\ UNCHANGED heard /\ InTheDoor(d)
      /\ \A e \in Delivery : e # d => /\ phase'[e] = phase[e] /\ status'[e] = status[e]
                                      /\ stream'[e] = stream[e]
      /\ status'[d] # status[d] => phase'[d] = "answered"
      /\ \/ faults' = faults /\ stream'[d] = stream[d]
         \/ faults' = faults /\ phase'[d] = "answered" /\ status'[d] = 202
         \/ faults' = faults + 1
  BY HandleOnce
<1>2. ASSUME NEW e \in Delivery PROVE InOrder(e)'
  <2>1. InOrder(e)
    BY DEF CopiesInv
  <2>2. CASE e # d
    BY <1>1, <2>1, <2>2 DEF InOrder
  <2>3. CASE e = d
    BY <1>1, <2>1, <2>3 DEF InOrder, InTheDoor
  <2> QED BY <2>2, <2>3
<1>3. ASSUME NEW m \in Message PROVE PaidMessage(m)'
  <2>1. PaidMessage(m) /\ Expected(m)' = Expected(m)
    BY <1>1 DEF CopiesInv, Expected
  <2>3. /\ CopiesOf(m) \subseteq {e \in Delivery : e[1] = m}
        /\ LiveOf(m) \subseteq {e \in Delivery : e[1] = m}
        /\ CopiesOf(m)' \subseteq {e \in Delivery : e[1] = m}
        /\ LiveOf(m)' \subseteq {e \in Delivery : e[1] = m}
    BY DEF CopiesOf, LiveOf
  <2>4. PICK c, l : c = CopiesOf(m)' /\ l = LiveOf(m)'
    OBVIOUS
  <2>5. /\ Cardinality(c) = Cardinality(CopiesOf(m)) + Has(c, d) - Has(CopiesOf(m), d)
        /\ Cardinality(l) = Cardinality(LiveOf(m)) + Has(l, d) - Has(LiveOf(m), d)
    <3>1. c \subseteq {e \in Delivery : e[1] = m} /\ l \subseteq {e \in Delivery : e[1] = m}
      BY <2>3, <2>4
    <3>2. /\ \A e \in Delivery : e # d => (e \in CopiesOf(m) <=> e \in c)
          /\ \A e \in Delivery : e # d => (e \in LiveOf(m) <=> e \in l)
      BY <1>1, <2>4 DEF CopiesOf, LiveOf, InTheDoor
    <3>3. Cardinality(c) = Cardinality(CopiesOf(m)) + Has(c, d) - Has(CopiesOf(m), d)
      <4> HIDE DEF CopiesOf, LiveOf
      <4> DEFINE old == CopiesOf(m)
      <4>1. old \subseteq {e \in Delivery : e[1] = m} /\ \A e \in Delivery : e # d => (e \in old <=> e \in c)
        BY <2>3, <3>2
      <4> HIDE DEF old
      <4>2. Cardinality(c) = Cardinality(old) + Has(c, d) - Has(old, d)
        BY <3>1, <4>1, DifferInOne
      <4> QED BY <4>2 DEF old
    <3>4. Cardinality(l) = Cardinality(LiveOf(m)) + Has(l, d) - Has(LiveOf(m), d)
      BY <2>3, <3>1, <3>2, DifferInOne
    <3> QED BY <3>3, <3>4
  <2>6. Has(c, d) + Has(l, d) + faults
          <= Has(CopiesOf(m), d) + Has(LiveOf(m), d) + faults'
    <3>1. CASE d[1] # m
      <4>1. d \notin CopiesOf(m) /\ d \notin c /\ d \notin LiveOf(m) /\ d \notin l
        BY <2>3, <2>4, <3>1
      <4>2. faults' = faults \/ faults' = faults + 1
        BY <1>1
      <4> QED BY <4>1, <4>2, PaidSums DEF Has
    <3>2. CASE d[1] = m
      <4>1. d \in LiveOf(m)
        BY <1>1, <3>2 DEF LiveOf
      <4>2. CASE faults' = faults /\ stream'[d] = stream[d]
        <5>1. d \in c <=> d \in CopiesOf(m)
          BY <2>4, <3>2, <4>2 DEF CopiesOf
        <5> QED BY <4>1, <4>2, <5>1, PaidSums DEF Has
      <4>3. CASE faults' = faults /\ phase'[d] = "answered" /\ status'[d] = 202
        <5>1. d \notin l
          BY <2>4, <4>3 DEF LiveOf, InTheDoor, Refused
        <5> QED BY <4>1, <4>3, <5>1, PaidSums DEF Has
      <4>4. CASE faults' = faults + 1
        BY <4>1, <4>4, PaidSums DEF Has
      <4> QED BY <1>1, <4>2, <4>3, <4>4
    <3> QED BY <3>1, <3>2
  <2>7. faults' \in Nat
    BY <1>1, PaidSums
  <2>8. Cardinality(c) + Cardinality(l) + Expected(m) <= 1 + faults'
    <3>1. /\ Has(c, d) \in {0, 1} /\ Has(l, d) \in {0, 1}
          /\ Has(CopiesOf(m), d) \in {0, 1} /\ Has(LiveOf(m), d) \in {0, 1}
      BY DEF Has
    <3> QED BY <2>1, <2>5, <2>6, <2>7, <3>1, PaidSums DEF PaidMessage
  <2> QED BY <2>1, <2>4, <2>8 DEF PaidMessage
<1> QED BY <1>2, <1>3 DEF CopiesInv

LEMMA DeliverPaid ==
    ASSUME TypeOK, CopiesInv, NEW m \in Message, Deliver(m)
    PROVE  CopiesInv'
<1> DEFINE k == heard[m] + 1
<1>1. /\ k \in 1..MaxDeliveries /\ <<m, k>> \in Delivery
      /\ heard' = [heard EXCEPT ![m] = k] /\ UNCHANGED <<stream, status>>
      /\ phase' = [phase EXCEPT ![<<m, k>>] = "lookup"]
      /\ \/ k = 1 /\ faults' = faults
         \/ k > 1 /\ status[<<m, heard[m]>>] \in Refused /\ faults' = faults
         \/ k > 1 /\ faults' = faults + 1
  BY DeliveryParts DEF Deliver, Goes, Fault, TypeOK
<1>2. heard'[m] = k /\ \A u \in Message : u # m => heard'[u] = heard[u]
  BY <1>1 DEF TypeOK
<1>3. phase'[<<m, k>>] = "lookup" /\ \A e \in Delivery : e # <<m, k>> => phase'[e] = phase[e]
  BY <1>1 DEF TypeOK
<1>4. ASSUME NEW e \in Delivery PROVE InOrder(e)'
  <2>1. InOrder(e) /\ e[1] \in Message /\ e[2] \in 1..MaxDeliveries /\ e = <<e[1], e[2]>>
    BY DEF CopiesInv, Delivery
  <2>2. CASE e = <<m, k>>
    BY <1>1, <1>2, <2>1, <2>2, PaidSums DEF InOrder
  <2>3. CASE e # <<m, k>>
    BY <1>1, <1>2, <1>3, <2>1, <2>3, PaidSums DEF InOrder
  <2> QED BY <2>2, <2>3
<1>5. ASSUME NEW u \in Message PROVE PaidMessage(u)'
  <2>1. PaidMessage(u) /\ CopiesOf(u)' = CopiesOf(u)
    BY <1>1 DEF CopiesInv, CopiesOf
  <2>2. CASE u # m
    <3>1. LiveOf(u)' = LiveOf(u) /\ Expected(u)' = Expected(u)
      BY <1>1, <1>2, <1>3, <2>2 DEF LiveOf, InTheDoor, Expected
    <3>2. faults' = faults \/ faults' = faults + 1
      BY <1>1
    <3> QED BY <2>1, <3>1, <3>2, PaidSums DEF PaidMessage
  <2>3. CASE u = m
    <3>1. Expected(m)' = 0
      BY <1>1, <1>2, PaidSums DEF Expected
    <3>2. LiveOf(m)' \subseteq LiveOf(m) \cup {<<m, k>>}
      <4> SUFFICES ASSUME NEW e \in LiveOf(m)', e # <<m, k>> PROVE e \in LiveOf(m)
        OBVIOUS
      <4>1. e \in Delivery /\ e[1] = m /\ e[2] \in 1..MaxDeliveries /\ e = <<m, e[2]>>
        BY DEF LiveOf, Delivery
      <4>2. e[2] # k
        BY <4>1
      <4> QED BY <1>1, <1>2, <1>3, <4>1, <4>2 DEF LiveOf, InTheDoor
    <3>3. /\ IsFiniteSet(LiveOf(m) \cup {<<m, k>>})
          /\ Cardinality(LiveOf(m) \cup {<<m, k>>}) <= Cardinality(LiveOf(m)) + 1
          /\ Cardinality(LiveOf(m) \cup {<<m, k>>}) \in Nat
      BY PaidSums, AddAtMostOne
    <3>4. Cardinality(LiveOf(m)') <= Cardinality(LiveOf(m)) + 1
      BY <3>2, <3>3, PaidSums, FS_Subset
    <3>5. CASE k = 1
      BY <1>1, <2>1, <2>3, <3>1, <3>4, <3>5, PaidSums DEF PaidMessage, Expected
    <3>6. CASE k > 1 /\ faults' = faults + 1
      BY <1>1, <2>1, <2>3, <3>1, <3>4, <3>6, PaidSums DEF PaidMessage, Expected
    <3>7. CASE k > 1 /\ faults' = faults /\ status[<<m, heard[m]>>] \in Refused
      <4> DEFINE last == <<m, heard[m]>>
      <4>1. last \in Delivery /\ heard[m] # 0 /\ heard[m] # k /\ heard[m] \in Nat
        BY <3>7, PaidSums, DeliveryParts
      <4>2. last \in LiveOf(m)
        BY <3>7, <4>1 DEF LiveOf
      <4>3. phase[last] = "answered" /\ last # <<m, k>>
        BY <3>7, <4>1 DEF CopiesInv, InOrder, Refused
      <4>4. last \notin LiveOf(m)'
        BY <1>2, <1>3, <4>1, <4>3 DEF LiveOf, InTheDoor
      <4>5. LiveOf(m)' \subseteq (LiveOf(m) \ {last}) \cup {<<m, k>>}
        BY <3>2, <4>4
      <4>6. /\ IsFiniteSet(LiveOf(m) \ {last})
            /\ Cardinality(LiveOf(m) \ {last}) = Cardinality(LiveOf(m)) - 1
        BY <4>2, PaidSums, FS_RemoveElement
      <4>7. /\ IsFiniteSet((LiveOf(m) \ {last}) \cup {<<m, k>>})
            /\ Cardinality((LiveOf(m) \ {last}) \cup {<<m, k>>}) <= Cardinality(LiveOf(m))
        <5> DEFINE rest == LiveOf(m) \ {last}
        <5>1. IsFiniteSet(rest) /\ Cardinality(rest) = Cardinality(LiveOf(m)) - 1
          BY <4>6
        <5> HIDE DEF rest
        <5>2. IsFiniteSet(rest \cup {<<m, k>>}) /\ Cardinality(rest \cup {<<m, k>>}) \in Nat
              /\ Cardinality(rest \cup {<<m, k>>}) <= Cardinality(rest) + 1
          BY <5>1, AddAtMostOne
        <5>3. Cardinality(rest \cup {<<m, k>>}) <= Cardinality(LiveOf(m))
          BY <5>1, <5>2, PaidSums
        <5> QED BY <5>2, <5>3 DEF rest
      <4>8. Cardinality(LiveOf(m)') <= Cardinality(LiveOf(m))
        <5>1. Cardinality((LiveOf(m) \ {last}) \cup {<<m, k>>}) \in Nat
          BY <4>7, FS_CardinalityType
        <5>2. Cardinality(LiveOf(m)') <= Cardinality((LiveOf(m) \ {last}) \cup {<<m, k>>})
          BY <4>5, <4>7, FS_Subset
        <5> QED BY <4>7, <5>1, <5>2, PaidSums
      <4> QED BY <2>1, <2>3, <3>1, <3>7, <4>8, PaidSums DEF PaidMessage
    <3> QED BY <1>1, <3>5, <3>6, <3>7
  <2> QED BY <2>2, <2>3
<1> QED BY <1>4, <1>5 DEF CopiesInv

\* What touches no delivery makes no copy.
LEMMA CopiesFrame ==
    ASSUME TypeOK, CopiesInv, UNCHANGED <<heard, phase, status, stream>>,
           faults' = faults \/ faults' = faults + 1
    PROVE  CopiesInv'
<1>1. \A d \in Delivery : InOrder(d)'
  BY DEF CopiesInv, InOrder
<1>2. ASSUME NEW m \in Message PROVE PaidMessage(m)'
  <2>1. CopiesOf(m)' = CopiesOf(m) /\ LiveOf(m)' = LiveOf(m) /\ Expected(m)' = Expected(m)
    BY DEF CopiesOf, LiveOf, InTheDoor, Expected
  <2> QED BY <2>1, PaidSums DEF CopiesInv, PaidMessage
<1> QED BY <1>1, <1>2 DEF CopiesInv

\* Every copy of a message after its first has a failure behind it.
THEOREM EveryCopyIsPaidFor == Spec => []CopiesArePaidFor
<1>1. Init => CopiesInv
  <2> SUFFICES ASSUME Init PROVE CopiesInv
    OBVIOUS
  <2>1. ASSUME NEW m \in Message PROVE PaidMessage(m)
    <3>1. CopiesOf(m) = {} /\ LiveOf(m) = {}
      BY DEF Init, CopiesOf, LiveOf, InTheDoor, Refused
    <3> QED BY <3>1, FS_EmptySet DEF Init, PaidMessage, Expected
  <2>2. \A d \in Delivery : InOrder(d)
    BY DEF Init, InOrder
  <2> QED BY <2>1, <2>2 DEF CopiesInv
<1>2. TypeOK /\ CopiesInv /\ [Next]_vars => CopiesInv'
  <2> SUFFICES ASSUME TypeOK, CopiesInv, [Next]_vars PROVE CopiesInv'
    OBVIOUS
  <2>1. ASSUME NEW c \in Credential, Edit(c) PROVE CopiesInv'
    BY <2>1, CopiesFrame DEF Edit
  <2>2. CASE Drop
    BY <2>2, CopiesFrame DEF Drop, Fault
  <2>3. CASE UNCHANGED vars
    BY <2>3, CopiesFrame DEF vars
  <2> QED BY <2>1, <2>2, <2>3, HandlePaid, DeliverPaid DEF Next
<1>3. TypeOK /\ CopiesInv => CopiesArePaidFor
  <2> SUFFICES ASSUME TypeOK, CopiesInv, NEW m \in Message
               PROVE  Cardinality(CopiesOf(m)) <= 1 + faults
    BY DEF CopiesArePaidFor, CopiesOf
  <2> QED BY PaidSums DEF CopiesInv, PaidMessage
<1> QED BY <1>1, <1>2, <1>3, DoorTyped, PTL DEF Spec
=============================================================================
