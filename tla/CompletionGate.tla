--------------------------- MODULE CompletionGate ---------------------------
(***************************************************************************)
(* The verification plane of otto.verify: a builder registers its claims,  *)
(* the independent verifier checks them and signs a verdict, and the gate  *)
(* admits the task to "completed" only on a verdict that is signed, for    *)
(* this task, carrying its current nonce and the hash of its claims.       *)
(*                                                                         *)
(* Verdicts travel: the gate may see any verdict ever issued, at any time, *)
(* any number of times, for any task, or a damaged copy of it.  A claim    *)
(* package stands for its own hash, and "sound" for a signature that       *)
(* verifies under a trusted key.                                           *)
(*                                                                         *)
(* A definition named X_Something is a mutant of X.                        *)
(***************************************************************************)
EXTENDS Naturals, Sequences, FiniteSets

CONSTANTS
    Task,
    Claim,
    True,          \* the claims that are so
    Judged,        \* the claims only another model can check (text_judgment)
    Package,       \* the claim packages builders register
    Strict,        \* the tasks whose ceiling is T2 or T3
    Deadline,      \* deadline_s, the same for every task
    MaxTime,       \* bound: the clock
    MaxNonces,     \* bound: claim packages registered
    MaxVerdicts,   \* bound: verdicts issued
    MaxRestarts    \* bound: deaths of the process that holds the gate

ASSUME GateAssumption ==
    /\ True \subseteq Claim /\ Judged \subseteq Claim /\ Strict \subseteq Task
    /\ Package \subseteq SUBSET Claim
    /\ Deadline \in Nat /\ MaxTime \in Nat /\ MaxNonces \in Nat
    /\ MaxVerdicts \in Nat /\ MaxRestarts \in Nat

VARIABLES
    state,      \* state[t]: the task's state, "unknown" when the gate has none
    born,       \* born[t]: created_at
    pending,    \* pending[t]: the registered claims, whether the builder is the
                \* verifier itself (its key or its name), the nonce, nonce_consumed
    nonces,     \* nonces minted so far; nonce 0 belongs to nobody
    requests,   \* what the verifier may be asked to check
    issued,     \* verdicts the verifier signed
    store,      \* the verdict store: the verdicts recorded, in order
    announced,  \* verdicts published on the bus
    clock, restarts

vars == <<state, born, pending, nonces, requests, issued, store, announced,
          clock, restarts>>

Pending == [claims : SUBSET Claim, own : BOOLEAN, nonce : Nat, consumed : BOOLEAN]
Request == [task : Task, claims : SUBSET Claim, own : BOOLEAN, nonce : Nat]
Verdict == [task : Task, claims : SUBSET Claim, nonce : Nat,
            result : {"pass", "fail"}, soft : BOOLEAN, sound : BOOLEAN]

NoPending == [claims |-> {}, own |-> FALSE, nonce |-> 0, consumed |-> FALSE]

TypeOK ==
    /\ state \in [Task -> {"unknown", "awaiting_verdict", "completed", "needs_human"}]
    /\ born \in [Task -> Nat]
    /\ pending \in [Task -> Pending]
    /\ nonces \in Nat
    /\ requests \in SUBSET Request
    /\ issued \in SUBSET Verdict
    /\ store \in Seq(Verdict)
    /\ announced \in SUBSET Verdict
    /\ clock \in Nat
    /\ restarts \in Nat

Init ==
    /\ state = [t \in Task |-> "unknown"]
    /\ born = [t \in Task |-> 0]
    /\ pending = [t \in Task |-> NoPending]
    /\ nonces = 0
    /\ requests = {} /\ issued = {} /\ store = <<>> /\ announced = {}
    /\ clock = 0 /\ restarts = 0

Recorded == {store[i] : i \in DOMAIN store}

-----------------------------------------------------------------------------
(* The builder and the verifier.                                           *)

Minted_Constant(n) == 1

\* secrets.token_hex: a nonce nobody has seen.
Minted(n) == n + 1

\* await_verdict: whatever the task was before, it now awaits a verdict on
\* this package.  The task object is the one the gate knew, or a new one.
AwaitVerdict(t, p, own) ==
    LET nonce == Minted(nonces) IN
    /\ nonces < MaxNonces
    /\ clock + Deadline < MaxTime
    /\ born' \in {born, [born EXCEPT ![t] = clock]}
    /\ state[t] = "unknown" => born'[t] = clock
    /\ nonces' = nonces + 1
    /\ pending' = [pending EXCEPT ![t] =
                      [claims |-> p, own |-> own, nonce |-> nonce, consumed |-> FALSE]]
    /\ state' = [state EXCEPT ![t] = "awaiting_verdict"]
    /\ requests' = requests \cup {[task |-> t, claims |-> p, own |-> own, nonce |-> nonce]}
    /\ UNCHANGED <<issued, store, announced, clock, restarts>>

Checked_FailOpen(c) == BOOLEAN

\* _check: a deterministic method may fail for want of a source, but passes
\* only what is so; the verify lane may be wrong either way.
Checked(c) == IF c \in Judged \cup True THEN BOOLEAN ELSE {FALSE}

AllPassed_Vacuous(p, passed) == \A c \in p : passed[c]
AllPassed(p, passed) == p # {} /\ \A c \in p : passed[c]

MayCertify_Anything(q) == TRUE

\* SelfCertificationError: the verifier refuses what it built itself.
MayCertify(q) == ~q.own

\* issue_verdict: check every claim, sign one verdict.  A package with no
\* claims fails, and a pass that rests on the verify lane is soft.
Issue(q) ==
    /\ MayCertify(q)
    /\ Cardinality(issued) < MaxVerdicts
    /\ \E passed \in [q.claims -> BOOLEAN], soft \in BOOLEAN :
          /\ \A c \in q.claims : passed[c] \in Checked(c)
          /\ IF AllPassed(q.claims, passed) THEN soft = (q.claims \cap Judged # {})
             ELSE soft => q.claims \cap Judged # {}
          /\ issued' = issued \cup
                {[task |-> q.task, claims |-> q.claims, nonce |-> q.nonce,
                  result |-> IF AllPassed(q.claims, passed) THEN "pass" ELSE "fail",
                  soft |-> soft, sound |-> TRUE]}
    /\ UNCHANGED <<state, born, pending, nonces, requests, store, announced,
                   clock, restarts>>

-----------------------------------------------------------------------------
(* The gate.                                                               *)

\* A verdict the signature of which no longer fits.
Damaged(v) == {[v EXCEPT !.result = "pass", !.sound = FALSE],
               [v EXCEPT !.soft = FALSE, !.sound = FALSE]}

Arriving == issued \cup UNION {Damaged(v) : v \in issued}

Admissible_Unsigned(t, v) ==
    /\ v.task = t
    /\ ~pending[t].consumed /\ v.nonce = pending[t].nonce
    /\ v.claims = pending[t].claims
Admissible_AnyNonce(t, v) == v.sound /\ v.task = t /\ v.claims = pending[t].claims
Admissible_AnyClaims(t, v) ==
    /\ v.sound
    /\ v.task = t
    /\ ~pending[t].consumed

\* The checks of submit_verdict, in the order that decides only the reason: a
\* trusted key and its signature, the task, the nonce, the claims.
Admissible(t, v) ==
    /\ v.sound
    /\ v.task = t
    /\ ~pending[t].consumed /\ v.nonce = pending[t].nonce
    /\ v.claims = pending[t].claims

MustBeHard_Never(t) == FALSE
MustBeHard(t) == t \in Strict

\* The bus may refuse a verdict: the exception leaves submit_verdict, and the
\* state it has already written stays.
Announce(v) == announced' \in {announced, announced \cup {v}}

Awaiting(t) == state[t] = "awaiting_verdict"

\* submit_verdict refused: UNKNOWN_TASK, NOT_AWAITING_VERDICT, FORGED_*,
\* MALFORMED_SIGNATURE, REPLAYED_*, TAMPERED_CLAIM_HASH and
\* SOFT_VERDICT_INSUFFICIENT leave everything as it was.
Refuse(t, v) ==
    /\ \/ ~Awaiting(t)
       \/ ~Admissible(t, v)
       \/ v.result = "pass" /\ v.soft /\ MustBeHard(t)
    /\ UNCHANGED vars

\* A verdict that fails the claims: best effort to record it, then announce it.
Fail(t, v) ==
    /\ Awaiting(t)
    /\ Admissible(t, v)
    /\ v.result = "fail"
    /\ state' = [state EXCEPT ![t] = "needs_human"]
    /\ store' \in {store, Append(store, v)}
    /\ Announce(v)
    /\ UNCHANGED <<born, pending, nonces, requests, issued, clock, restarts>>

Completing(t) ==
    /\ pending' = [pending EXCEPT ![t].consumed = TRUE]
    /\ state' = [state EXCEPT ![t] = "completed"]

\* A pass: recorded first, or not completed at all.  An unreachable store may
\* have kept the record it could not confirm.
Pass(t, v) ==
    /\ Awaiting(t)
    /\ Admissible(t, v)
    /\ v.result = "pass"
    /\ ~(v.soft /\ MustBeHard(t))
    /\ \/ /\ store' = Append(store, v)
          /\ Completing(t)
          /\ Announce(v)
       \/ /\ store' \in {store, Append(store, v)}          \* STORE_UNREACHABLE
          /\ state' = [state EXCEPT ![t] = "needs_human"]
          /\ UNCHANGED <<pending, announced>>
    /\ UNCHANGED <<born, nonces, requests, issued, clock, restarts>>

Submit(t, v) == Refuse(t, v) \/ Fail(t, v) \/ Pass(t, v)

Overdue_Never(t) == state[t] = "unknown" /\ clock > born[t] + Deadline
Overdue(t) == Awaiting(t) /\ clock > born[t] + Deadline

\* expire_overdue, one sweep over all tasks.
ExpireOverdue ==
    /\ \E t \in Task : Overdue(t)
    /\ state' = [t \in Task |-> IF Overdue(t) THEN "needs_human" ELSE state[t]]
    /\ UNCHANGED <<born, pending, nonces, requests, issued, store, announced,
                   clock, restarts>>

\* The gate's tasks are in memory; the store, the verdicts and the world stay.
Restart ==
    /\ restarts < MaxRestarts
    /\ restarts' = restarts + 1
    /\ state' = [t \in Task |-> "unknown"]
    /\ pending' = [t \in Task |-> NoPending]
    /\ UNCHANGED <<born, nonces, requests, issued, store, announced, clock>>

Tick ==
    /\ clock < MaxTime
    /\ clock' = clock + 1
    /\ UNCHANGED <<state, born, pending, nonces, requests, issued, store,
                   announced, restarts>>

Next ==
    \/ \E t \in Task, p \in Package, own \in BOOLEAN : AwaitVerdict(t, p, own)
    \/ \E q \in requests : Issue(q)
    \/ \E t \in Task, v \in Arriving : Submit(t, v)
    \/ ExpireOverdue \/ Restart \/ Tick

Spec == Init /\ [][Next]_vars

\* Time passes and the sweep is run; nobody owes the gate a verdict.
Fairness == WF_vars(Tick) /\ WF_vars(ExpireOverdue)

FairSpec == Spec /\ Fairness

-----------------------------------------------------------------------------
(* What the verification plane owes.                                       *)

\* A completed task has a verdict in the durable store that is about this very
\* registration of it: signed, hard where the ceiling asks for it, on exactly
\* its claims and its nonce ("never silently completable while the record of
\* why it completed cannot be written", store.py).
CompletedHasItsVerdict ==
    \A t \in Task : state[t] = "completed" =>
        \E v \in Recorded :
            /\ v.sound /\ v.result = "pass" /\ v.task = t
            /\ v.nonce = pending[t].nonce /\ v.claims = pending[t].claims
            /\ ~(v.soft /\ t \in Strict)

\* What a completed task claimed is so: at least one claim, every claim that has
\* a deterministic method true, and on a strict task no claim without one, and
\* it is not the verifier's own work.  No replay, no rework, no other task's
\* verdict and no unreachable source leads around it ("no code path from an
\* exception to a pass", verifier.py).
CompletedIsTrue ==
    \A t \in Task : state[t] = "completed" =>
        /\ pending[t].claims # {}
        /\ pending[t].claims \ Judged \subseteq True
        /\ t \in Strict => pending[t].claims \cap Judged = {}
        /\ ~pending[t].own

\* One registration, one recorded verdict: a nonce is never spent twice, not
\* on a pass after a fail, not after a rework and not after a restart.
OneRecordPerNonce ==
    \A i, j \in DOMAIN store : store[i].nonce = store[j].nonce => i = j

\* A task is completed from awaiting_verdict only, and on a verdict recorded in
\* that very step (P1: "the sole transition into completed").
CompletesOnlyFromAwaiting ==
    [][\A t \in Task : state[t] # "completed" /\ state'[t] = "completed" =>
           /\ state[t] = "awaiting_verdict"
           /\ Len(store') = Len(store) + 1 /\ store'[Len(store')].task = t]_vars

\* An absent verdict never leaves a task waiting for ever.
NobodyWaitsForEver ==
    \A t \in Task : state[t] = "awaiting_verdict" ~> state[t] # "awaiting_verdict"

\* Completion is never silent: the verdict a completed task rests on was
\* announced on the bus ("every failure mode leaves the task un-completable and
\* visibly so (needs_human), never silently complete", ledger.py).
CompletedIsAnnounced ==
    \A t \in Task : state[t] = "completed" =>
        \E v \in announced : v.task = t /\ v.nonce = pending[t].nonce
=============================================================================
