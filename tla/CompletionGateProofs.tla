------------------------ MODULE CompletionGateProofs ------------------------
(***************************************************************************)
(* Proofs about CompletionGate for any tasks, claims, packages, deadline   *)
(* and bounds: type correctness, and the four safety properties of the     *)
(* gate from one inductive invariant, GateInv.                             *)
(*                                                                         *)
(* The argument: nonces number the registrations (Numbered), a verdict is  *)
(* earned by exactly one of them (Earned), only verdicts the verifier      *)
(* signed are ever stored (Stored), and while a registration is open       *)
(* nothing has been stored under its nonce (Unspent).                      *)
(***************************************************************************)
EXTENDS CompletionGate, TLAPS

\* Every request carries a nonce of its own, minted already.
Numbered ==
    /\ \A q \in requests : q.nonce <= nonces
    /\ \A q, r \in requests : q.nonce = r.nonce => q = r

\* The request a registration handed to the verifier.
Asked(t) == [task |-> t, claims |-> pending[t].claims, own |-> pending[t].own,
             nonce |-> pending[t].nonce]

Registered ==
    \A t \in Task : state[t] \in {"awaiting_verdict", "completed"} => Asked(t) \in requests

\* What it took to sign v on request q.
EarnedBy(v, q) ==
    /\ v.task = q.task /\ v.claims = q.claims /\ v.nonce = q.nonce
    /\ ~q.own /\ v.sound
    /\ v.result = "pass" =>
          /\ v.claims # {} /\ v.claims \subseteq Judged \cup True
          /\ v.soft = (v.claims \cap Judged # {})

Earned == \A v \in issued : \E q \in requests : EarnedBy(v, q)

Stored == \A i \in DOMAIN store : store[i] \in issued

Unspent ==
    \A t \in Task : state[t] = "awaiting_verdict" =>
        \A i \in DOMAIN store : store[i].nonce # pending[t].nonce

GateInv ==
    /\ TypeOK /\ Numbered /\ Registered /\ Earned /\ Stored /\ Unspent
    /\ OneRecordPerNonce /\ CompletedHasItsVerdict

-----------------------------------------------------------------------------
\* What may arrive is typed, and what is sound among it was signed.
LEMMA ArrivingTyped ==
    ASSUME TypeOK, NEW v \in Arriving
    PROVE  v \in Verdict /\ (v.sound => v \in issued)
<1>1. CASE v \in issued
  BY <1>1 DEF TypeOK
<1>2. CASE v \notin issued
  <2>1. PICK w \in issued : v \in Damaged(w)
    BY <1>2 DEF Arriving
  <2>2. w \in Verdict
    BY DEF TypeOK
  <2>3. v = [w EXCEPT !.result = "pass", !.sound = FALSE]
        \/ v = [w EXCEPT !.soft = FALSE, !.sound = FALSE]
    BY <2>1 DEF Damaged
  <2> QED BY <2>2, <2>3 DEF Verdict
<1> QED BY <1>1, <1>2

\* The state of the store after one more record.
LEMMA Appended ==
    ASSUME TypeOK, NEW v \in Verdict
    PROVE  /\ Append(store, v) \in Seq(Verdict)
           /\ DOMAIN Append(store, v) = DOMAIN store \cup {Len(store) + 1}
           /\ \A i \in DOMAIN store : Append(store, v)[i] = store[i]
           /\ Append(store, v)[Len(store) + 1] = v
           /\ Len(store) + 1 \notin DOMAIN store
BY DEF TypeOK

LEMMA InitGateInv == Init => GateInv
BY GateAssumption
   DEF Init, GateInv, TypeOK, Numbered, Registered, Earned, Stored, Unspent,
       OneRecordPerNonce, CompletedHasItsVerdict, Pending, NoPending

LEMMA AwaitVerdictKeepsInv ==
    ASSUME GateInv, NEW t \in Task, NEW p \in Package, NEW own \in BOOLEAN,
           AwaitVerdict(t, p, own)
    PROVE  GateInv'
<1> DEFINE q == [task |-> t, claims |-> p, own |-> own, nonce |-> nonces + 1]
<1>0. /\ TypeOK /\ Numbered /\ Registered /\ Earned /\ Stored /\ Unspent
      /\ OneRecordPerNonce /\ CompletedHasItsVerdict
  BY DEF GateInv
<1>1. /\ pending' = [pending EXCEPT ![t] = [claims |-> p, own |-> own,
                                          nonce |-> nonces + 1, consumed |-> FALSE]]
      /\ state' = [state EXCEPT ![t] = "awaiting_verdict"]
      /\ requests' = requests \cup {q}
      /\ nonces' = nonces + 1
      /\ born' \in {born, [born EXCEPT ![t] = clock]}
      /\ UNCHANGED <<issued, store, announced, clock, restarts>>
  BY DEF AwaitVerdict, Minted
<1>2. p \in SUBSET Claim /\ nonces \in Nat /\ q \in Request
  BY <1>0, GateAssumption DEF TypeOK, Request
<1>3. TypeOK'
  <2>1. state' \in [Task -> {"unknown", "awaiting_verdict", "completed", "needs_human"}]
    BY <1>0, <1>1 DEF TypeOK
  <2>2. pending' \in [Task -> Pending]
    BY <1>0, <1>1, <1>2 DEF TypeOK, Pending
  <2>3. born' \in [Task -> Nat]
    BY <1>0, <1>1 DEF TypeOK
  <2> QED BY <1>0, <1>1, <1>2, <2>1, <2>2, <2>3 DEF TypeOK
<1>4. Numbered'
  BY <1>0, <1>1, <1>2 DEF Numbered, TypeOK, Request
<1>5. Registered'
  <2> SUFFICES ASSUME NEW u \in Task, state'[u] \in {"awaiting_verdict", "completed"}
               PROVE  Asked(u)' \in requests'
    BY DEF Registered
  <2>1. CASE u = t
    BY <1>0, <1>1, <2>1 DEF TypeOK, Asked
  <2>2. CASE u # t
    BY <1>0, <1>1, <2>2 DEF TypeOK, Asked, Registered
  <2> QED BY <2>1, <2>2
<1>6. Earned' /\ Stored'
  BY <1>0, <1>1 DEF Earned, EarnedBy, Stored
<1>7. \A i \in DOMAIN store : store[i].nonce <= nonces
  BY <1>0 DEF Stored, Earned, EarnedBy, Numbered
<1>8. Unspent'
  <2> SUFFICES ASSUME NEW u \in Task, state'[u] = "awaiting_verdict",
                      NEW i \in DOMAIN store
               PROVE  store[i].nonce # pending'[u].nonce
    BY <1>1 DEF Unspent
  <2>1. CASE u = t
    <3>1. pending'[u].nonce = nonces + 1
      BY <1>0, <1>1, <2>1 DEF TypeOK
    <3>2. store[i].nonce \in Nat
      BY <1>0 DEF TypeOK, Stored, Verdict
    <3> QED BY <1>2, <1>7, <3>1, <3>2
  <2>2. CASE u # t
    BY <1>0, <1>1, <2>2 DEF TypeOK, Unspent
  <2> QED BY <2>1, <2>2
<1>9. OneRecordPerNonce'
  BY <1>0, <1>1 DEF OneRecordPerNonce
<1>10. CompletedHasItsVerdict'
  <2> SUFFICES ASSUME NEW u \in Task, state'[u] = "completed"
               PROVE  \E v \in Recorded' :
                        /\ v.sound /\ v.result = "pass" /\ v.task = u
                        /\ v.nonce = pending'[u].nonce /\ v.claims = pending'[u].claims
                        /\ ~(v.soft /\ u \in Strict)
    BY DEF CompletedHasItsVerdict
  <2>1. u # t /\ state[u] = "completed" /\ pending'[u] = pending[u]
    BY <1>0, <1>1 DEF TypeOK
  <2> QED BY <1>0, <1>1, <2>1 DEF CompletedHasItsVerdict, Recorded
<1> QED BY <1>3, <1>4, <1>5, <1>6, <1>8, <1>9, <1>10 DEF GateInv

LEMMA IssueKeepsInv ==
    ASSUME GateInv, NEW q \in requests, Issue(q)
    PROVE  GateInv'
<1>0. /\ TypeOK /\ Numbered /\ Registered /\ Earned /\ Stored /\ Unspent
      /\ OneRecordPerNonce /\ CompletedHasItsVerdict
  BY DEF GateInv
<1>1. PICK passed \in [q.claims -> BOOLEAN], soft \in BOOLEAN :
          /\ \A c \in q.claims : passed[c] \in Checked(c)
          /\ IF AllPassed(q.claims, passed) THEN soft = (q.claims \cap Judged # {})
             ELSE soft => q.claims \cap Judged # {}
          /\ issued' = issued \cup
                {[task |-> q.task, claims |-> q.claims, nonce |-> q.nonce,
                  result |-> IF AllPassed(q.claims, passed) THEN "pass" ELSE "fail",
                  soft |-> soft, sound |-> TRUE]}
  BY DEF Issue
<1> DEFINE w == [task |-> q.task, claims |-> q.claims, nonce |-> q.nonce,
                 result |-> IF AllPassed(q.claims, passed) THEN "pass" ELSE "fail",
                 soft |-> soft, sound |-> TRUE]
<1>2. ~q.own /\ issued' = issued \cup {w}
      /\ UNCHANGED <<state, born, pending, nonces, requests, store, announced,
                     clock, restarts>>
  BY <1>1 DEF Issue, MayCertify
<1>3. q \in Request
  BY <1>0 DEF TypeOK
<1>4. w \in Verdict
  BY <1>3 DEF Request, Verdict
<1>5. TypeOK'
  <2>1. issued' \in SUBSET Verdict
    BY <1>0, <1>2, <1>4 DEF TypeOK
  <2> QED BY <1>0, <1>2, <2>1 DEF TypeOK
<1>6. EarnedBy(w, q)
  <2>1. CASE AllPassed(q.claims, passed)
    <3>1. q.claims # {} /\ \A c \in q.claims : passed[c]
      BY <2>1 DEF AllPassed
    <3>2. q.claims \subseteq Judged \cup True
      BY <1>1, <3>1 DEF Checked
    <3>3. soft = (q.claims \cap Judged # {})
      BY <1>1, <2>1
    <3> QED BY <1>2, <3>1, <3>2, <3>3 DEF EarnedBy
  <2>2. CASE ~AllPassed(q.claims, passed)
    BY <1>2, <2>2 DEF EarnedBy
  <2> QED BY <2>1, <2>2
<1>7. Earned'
  <2> SUFFICES ASSUME NEW v \in issued'
               PROVE  \E r \in requests' : EarnedBy(v, r)
    BY DEF Earned, EarnedBy
  <2>1. CASE v \in issued
    BY <1>0, <1>2, <2>1 DEF Earned
  <2>2. CASE v = w
    BY <1>2, <1>6, <2>2
  <2> QED BY <1>2, <2>1, <2>2
<1>8. Numbered' /\ Registered' /\ Stored'
  BY <1>0, <1>2 DEF Numbered, Registered, Asked, Stored
<1>9. Unspent' /\ OneRecordPerNonce' /\ CompletedHasItsVerdict'
  BY <1>0, <1>2 DEF Unspent, OneRecordPerNonce, CompletedHasItsVerdict, Recorded
<1> QED BY <1>5, <1>7, <1>8, <1>9 DEF GateInv

\* The part of the invariant that a verdict applied to t can disturb: the state
\* and the registration of t, and the store, which may gain v.
LEMMA ApplyKeepsInv ==
    ASSUME GateInv, NEW t \in Task, NEW v \in Arriving,
           Awaiting(t), Admissible(t, v),
           UNCHANGED <<nonces, requests, issued>>,
           store' \in {store, Append(store, v)}, TypeOK',
           NEW s \in {"completed", "needs_human"},
           state' = [state EXCEPT ![t] = s],
           pending' \in {pending, [pending EXCEPT ![t].consumed = TRUE]},
           s = "completed" => /\ store' = Append(store, v) /\ v.result = "pass"
                              /\ ~(v.soft /\ t \in Strict)
    PROVE  GateInv'
<1>0. /\ TypeOK /\ Numbered /\ Registered /\ Earned /\ Stored /\ Unspent
      /\ OneRecordPerNonce /\ CompletedHasItsVerdict
  BY DEF GateInv
<1>1. v \in Verdict /\ v \in issued
  BY <1>0, ArrivingTyped DEF Admissible
<1>2. /\ v.sound /\ v.task = t /\ v.nonce = pending[t].nonce
      /\ v.claims = pending[t].claims
  BY DEF Admissible
<1>3. \A u \in Task : /\ pending'[u].nonce = pending[u].nonce
                      /\ pending'[u].claims = pending[u].claims
                      /\ pending'[u].own = pending[u].own
  BY SMTT(30), <1>0 DEF TypeOK, Pending
<1>4. \A u \in Task : state'[u] = IF u = t THEN s ELSE state[u]
  BY <1>0 DEF TypeOK
<1>5. state[t] = "awaiting_verdict"
  BY DEF Awaiting
<1>6. /\ \A i \in DOMAIN store : i \in DOMAIN store' /\ store'[i] = store[i]
      /\ \A i \in DOMAIN store' : i \in DOMAIN store \/ (i = Len(store) + 1 /\ store'[i] = v)
  BY <1>0, <1>1, Appended
<1>7. Numbered' /\ Earned'
  BY <1>0 DEF Numbered, Earned, EarnedBy
<1>8. Registered'
  BY <1>0, <1>3, <1>4, <1>5 DEF Registered, Asked
<1>9. Stored'
  BY <1>0, <1>1, <1>6 DEF Stored
<1>10. Unspent'
  <2> SUFFICES ASSUME NEW u \in Task, state'[u] = "awaiting_verdict",
                      NEW i \in DOMAIN store'
               PROVE  store'[i].nonce # pending'[u].nonce
    BY DEF Unspent
  <2>1. u # t /\ state[u] = "awaiting_verdict"
    BY <1>4
  <2>2. Asked(u) # Asked(t) /\ Asked(u) \in requests /\ Asked(t) \in requests
    BY <1>0, <1>5, <2>1 DEF Registered, Asked
  <2>3. pending[u].nonce # pending[t].nonce
    BY <1>0, <2>2 DEF Numbered, Asked
  <2>4. CASE i \in DOMAIN store
    BY <1>0, <1>3, <1>6, <2>1, <2>4 DEF Unspent
  <2>5. CASE store'[i] = v
    BY <1>2, <1>3, <2>3, <2>5
  <2> QED BY <1>6, <2>4, <2>5
<1>11. OneRecordPerNonce'
  <2>1. \A i \in DOMAIN store : store[i].nonce # v.nonce
    BY <1>0, <1>2, <1>5 DEF Unspent
  <2> SUFFICES ASSUME NEW i \in DOMAIN store', NEW j \in DOMAIN store',
                      store'[i].nonce = store'[j].nonce
               PROVE  i = j
    BY DEF OneRecordPerNonce
  <2>2. CASE i \in DOMAIN store /\ j \in DOMAIN store
    BY <1>0, <1>6, <2>2 DEF OneRecordPerNonce
  <2>3. CASE i \notin DOMAIN store \/ j \notin DOMAIN store
    BY <1>6, <2>1, <2>3
  <2> QED BY <2>2, <2>3
<1>12. CompletedHasItsVerdict'
  <2>1. \A u \in Recorded : u \in Recorded'
    BY <1>6 DEF Recorded
  <2> SUFFICES ASSUME NEW u \in Task, state'[u] = "completed"
               PROVE  \E w \in Recorded' :
                        /\ w.sound /\ w.result = "pass" /\ w.task = u
                        /\ w.nonce = pending'[u].nonce /\ w.claims = pending'[u].claims
                        /\ ~(w.soft /\ u \in Strict)
    BY DEF CompletedHasItsVerdict
  <2>2. CASE u = t
    <3>1. store' = Append(store, v) /\ v.result = "pass" /\ ~(v.soft /\ t \in Strict)
      BY <1>4, <2>2
    <3>2. v \in Recorded'
      BY <1>0, <1>1, <3>1, Appended DEF Recorded
    <3> QED BY <1>2, <1>3, <2>2, <3>1, <3>2
  <2>3. CASE u # t
    BY <1>0, <1>3, <1>4, <2>1, <2>3 DEF CompletedHasItsVerdict
  <2> QED BY <2>2, <2>3
<1> QED BY <1>7, <1>8, <1>9, <1>10, <1>11, <1>12 DEF GateInv

\* The sweep, a restart and the passing of time leave requests, verdicts and
\* records alone and open no registration.
LEMMA QuietKeepsInv ==
    ASSUME GateInv, ExpireOverdue \/ Restart \/ Tick \/ UNCHANGED vars
    PROVE  GateInv'
<1>0. /\ TypeOK /\ Numbered /\ Registered /\ Earned /\ Stored /\ Unspent
      /\ OneRecordPerNonce /\ CompletedHasItsVerdict
  BY DEF GateInv
<1>1. UNCHANGED <<nonces, requests, issued, store>>
  BY DEF ExpireOverdue, Restart, Tick, vars
<1>2. \A t \in Task : state'[t] \in {"awaiting_verdict", "completed"} =>
                        state'[t] = state[t] /\ pending'[t] = pending[t]
  BY <1>0 DEF ExpireOverdue, Restart, Tick, vars, TypeOK
<1>3. TypeOK'
  <2>1. CASE ExpireOverdue
    BY <1>0, <2>1 DEF ExpireOverdue, TypeOK
  <2>2. CASE Restart
    BY <1>0, <2>2 DEF Restart, TypeOK, NoPending, Pending
  <2>3. CASE Tick \/ UNCHANGED vars
    BY <1>0, <2>3 DEF Tick, vars, TypeOK
  <2> QED BY <2>1, <2>2, <2>3
<1>4. Numbered' /\ Earned' /\ Stored' /\ OneRecordPerNonce'
  BY <1>0, <1>1 DEF Numbered, Earned, EarnedBy, Stored, OneRecordPerNonce
<1>5. Registered' /\ Unspent'
  BY <1>0, <1>1, <1>2 DEF Registered, Asked, Unspent
<1>6. CompletedHasItsVerdict'
  BY <1>0, <1>1, <1>2 DEF CompletedHasItsVerdict, Recorded
<1> QED BY <1>3, <1>4, <1>5, <1>6 DEF GateInv

LEMMA SubmitKeepsInv ==
    ASSUME GateInv, NEW t \in Task, NEW v \in Arriving, Submit(t, v)
    PROVE  GateInv'
<1>0. TypeOK /\ v \in Verdict
  BY ArrivingTyped DEF GateInv
<1>1. Append(store, v) \in Seq(Verdict)
  BY <1>0, Appended
<1>2. [pending EXCEPT ![t].consumed = TRUE] \in [Task -> Pending]
  BY <1>0 DEF TypeOK, Pending
<1>3. CASE Refuse(t, v)
  BY <1>3, QuietKeepsInv DEF Refuse
<1>4. CASE Fail(t, v)
  <2>1. TypeOK'
    BY <1>0, <1>1, <1>4 DEF Fail, Announce, TypeOK
  <2> QED BY <1>4, <2>1, ApplyKeepsInv DEF Fail
<1>5. CASE Pass(t, v) /\ store' = Append(store, v) /\ Completing(t)
  <2>1. TypeOK'
    <3>1. state' \in [Task -> {"unknown", "awaiting_verdict", "completed", "needs_human"}]
      BY <1>0, <1>5 DEF Completing, TypeOK
    <3>2. announced' \in SUBSET Verdict
      BY <1>0, <1>5 DEF Pass, Announce, TypeOK
    <3> QED BY <1>0, <1>1, <1>2, <1>5, <3>1, <3>2 DEF Pass, Completing, TypeOK
  <2> QED BY <1>5, <2>1, ApplyKeepsInv DEF Pass, Completing, MustBeHard
<1>6. CASE /\ Pass(t, v)
           /\ store' \in {store, Append(store, v)}
           /\ state' = [state EXCEPT ![t] = "needs_human"]
           /\ UNCHANGED <<pending, announced>>
  <2>1. TypeOK'
    BY <1>0, <1>1, <1>6 DEF Pass, TypeOK
  <2> QED BY <1>6, <2>1, ApplyKeepsInv DEF Pass
<1>7. Pass(t, v) => \/ store' = Append(store, v) /\ Completing(t)
                    \/ /\ store' \in {store, Append(store, v)}
                       /\ state' = [state EXCEPT ![t] = "needs_human"]
                       /\ UNCHANGED <<pending, announced>>
  BY DEF Pass
<1> QED BY <1>3, <1>4, <1>5, <1>6, <1>7 DEF Submit

LEMMA NextKeepsInv == GateInv /\ [Next]_vars => GateInv'
BY AwaitVerdictKeepsInv, IssueKeepsInv, SubmitKeepsInv, QuietKeepsInv DEF Next

\* GateInv is an invariant of every behaviour of the gate.
THEOREM GateInvariant == Spec => []GateInv
BY InitGateInv, NextKeepsInv, PTL DEF Spec

-----------------------------------------------------------------------------
\* The gate is well typed, whatever arrives.
THEOREM GateTyped == Spec => []TypeOK
<1>1. GateInv => TypeOK
  BY DEF GateInv
<1> QED BY <1>1, GateInvariant, PTL

\* A nonce is recorded at most once, whatever is replayed, reworked or restarted.
THEOREM NoncesAreSpentOnce == Spec => []OneRecordPerNonce
<1>1. GateInv => OneRecordPerNonce
  BY DEF GateInv
<1> QED BY <1>1, GateInvariant, PTL

\* Every completed task has the hard, signed, recorded verdict it needs.
THEOREM CompletionRestsOnARecord == Spec => []CompletedHasItsVerdict
<1>1. GateInv => CompletedHasItsVerdict
  BY DEF GateInv
<1> QED BY <1>1, GateInvariant, PTL

\* What a completed task claimed is so, and another than its builder checked it.
THEOREM CompletionIsTrue == Spec => []CompletedIsTrue
<1>1. GateInv => CompletedIsTrue
  <2> SUFFICES ASSUME GateInv, NEW t \in Task, state[t] = "completed"
               PROVE  /\ pending[t].claims # {}
                      /\ pending[t].claims \ Judged \subseteq True
                      /\ t \in Strict => pending[t].claims \cap Judged = {}
                      /\ ~pending[t].own
    BY DEF CompletedIsTrue
  <2>1. PICK v \in Recorded :
            /\ v.sound /\ v.result = "pass" /\ v.task = t
            /\ v.nonce = pending[t].nonce /\ v.claims = pending[t].claims
            /\ ~(v.soft /\ t \in Strict)
    BY DEF GateInv, CompletedHasItsVerdict
  <2>2. v \in issued
    BY DEF GateInv, Stored, Recorded
  <2>3. PICK q \in requests : EarnedBy(v, q)
    BY <2>2 DEF GateInv, Earned
  <2>4. Asked(t) \in requests
    BY DEF GateInv, Registered
  <2>5. q = Asked(t)
    BY <2>1, <2>3, <2>4 DEF GateInv, Numbered, EarnedBy, Asked
  <2> QED BY <2>1, <2>3, <2>5 DEF EarnedBy, Asked
<1> QED BY <1>1, GateInvariant, PTL

\* Nothing is completed but from awaiting_verdict, by the step that records why.
THEOREM CompletionIsOneStep == Spec => CompletesOnlyFromAwaiting
<1>1. ASSUME TypeOK, [Next]_vars
      PROVE  [\A t \in Task : state[t] # "completed" /\ state'[t] = "completed" =>
                /\ state[t] = "awaiting_verdict"
                /\ Len(store') = Len(store) + 1 /\ store'[Len(store')].task = t]_vars
  <2> SUFFICES ASSUME Next, NEW t \in Task, state[t] # "completed", state'[t] = "completed"
               PROVE  /\ state[t] = "awaiting_verdict"
                      /\ Len(store') = Len(store) + 1 /\ store'[Len(store')].task = t
    BY <1>1
  <2>1. ~(\E u \in Task, p \in Package, own \in BOOLEAN : AwaitVerdict(u, p, own))
    BY <1>1 DEF AwaitVerdict, TypeOK
  <2>2. ~(\E q \in requests : Issue(q)) /\ ~Tick /\ ~ExpireOverdue /\ ~Restart
    BY <1>1 DEF Issue, Tick, ExpireOverdue, Restart, TypeOK
  <2>3. PICK u \in Task, v \in Arriving : Submit(u, v)
    BY <2>1, <2>2 DEF Next
  <2>4. v \in Verdict
    BY <1>1, ArrivingTyped
  <2>5. Pass(u, v) /\ u = t /\ store' = Append(store, v)
    BY <1>1, <2>3 DEF Submit, Refuse, Fail, Pass, vars, TypeOK, Completing
  <2> QED BY <1>1, <2>4, <2>5, Appended DEF Pass, Awaiting, Admissible, TypeOK
<1> QED BY <1>1, GateTyped, PTL DEF Spec, CompletesOnlyFromAwaiting
=============================================================================
