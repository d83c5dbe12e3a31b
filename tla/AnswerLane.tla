----------------------------- MODULE AnswerLane -----------------------------
(***************************************************************************)
(* The answering lane of the one door: otto.ingress.worker pulling from    *)
(* the durable consumer "otto-answer", with boot.pipeline.answer_envelope  *)
(* as the work it does and memory.conversation as the record it leaves.    *)
(*                                                                         *)
(*   door --accept--> OTTO_TASKS --fetch--> replica --route--> answer      *)
(*                        ^                                      |         *)
(*                        +--- nak / ack-wait ---- deliver <-- record      *)
(*                                                    |                    *)
(*                                             ack / term                  *)
(*                                                                         *)
(* Every replica handles its batch one message at a time, and everything a *)
(* replica knows about a message is lost when it dies.  The texts are      *)
(* abstracted: an answer is the number of the attempt that produced it,    *)
(* which is what tells two answers to one turn apart.                      *)
(*                                                                         *)
(* A definition named X_Something is a mutant of X: X with a plausible     *)
(* mistake in it, there to show that a property notices the mistake.       *)
(***************************************************************************)
EXTENDS Naturals, FiniteSets

CONSTANTS
    Task,         \* accepted turns, by task id (a fresh ULID each)
    Worker,       \* the replicas of the lane
    Envelope,     \* the kinds of envelope on the stream
    Batch,        \* BATCH: how many messages one fetch may take
    MaxFaults,    \* bound: failures of any kind in one behaviour
    MaxEdits,     \* bound: operator edits of channel_binding rows
    SlowAnswers   \* may the ack wait run out under a replica that is alive?

\* What the lane reads of an envelope: does it parse and does some plugin serve
\* its source; is that surface read back rather than pushed to; does it carry
\* a reply address; does its effective tier reach the note tool.
EnvelopeKind == [routable   : BOOLEAN,
                 pullable   : BOOLEAN,
                 addressed  : BOOLEAN,
                 authorised : BOOLEAN]

ASSUME LaneAssumption ==
    /\ IsFiniteSet(Worker)
    /\ Envelope \subseteq EnvelopeKind
    /\ \A e \in Envelope : e.pullable => ~e.addressed
    /\ Batch \in Nat \ {0}
    /\ MaxFaults \in Nat
    /\ MaxEdits \in Nat
    /\ SlowAnswers \in BOOLEAN

VARIABLES
    kind,       \* kind[t]: the envelope of t
    msg,        \* msg[t]: where the stream and the consumer have t
    job,        \* job[w][t]: what replica w is doing with its copy of t
    outbound,   \* outbound[t]: the row t names has an outbound reference
    tries,      \* tries[t]: completed model answers for t
    blank,      \* blank[t]: those of them that had nothing to say
    facts,      \* facts[t]: rows of otto_facts written for t
    recorded,   \* recorded[t]: the answer in otto_turns, 0 for no row
    sent,       \* sent[t]: the answers the channel delivered
    faults,     \* failures so far
    edits       \* operator edits so far

vars == <<kind, msg, job, outbound, tries, blank, facts, recorded, sent, faults, edits>>

Stages == {"none", "fetched", "answer", "record", "deliver", "settle"}

\* push: the delivery secret was resolved when the message was routed;
\* draft: the answer in hand; verdict: what the replica will tell the server.
Job == [stage : Stages, push : BOOLEAN, draft : Nat,
        verdict : {"none", "ack", "nak", "term"}]

NoJob   == [stage |-> "none",    push |-> FALSE, draft |-> 0, verdict |-> "none"]
Fetched == [stage |-> "fetched", push |-> FALSE, draft |-> 0, verdict |-> "none"]

TypeOK ==
    /\ kind \in [Task -> Envelope]
    /\ msg \in [Task -> {"absent", "ready", "pending", "acked", "termed"}]
    /\ job \in [Worker -> [Task -> Job]]
    /\ outbound \in [Task -> BOOLEAN]
    /\ tries \in [Task -> Nat]
    /\ blank \in [Task -> SUBSET Nat]
    /\ facts \in [Task -> Nat]
    /\ recorded \in [Task -> Nat]
    /\ sent \in [Task -> SUBSET Nat]
    /\ faults \in 0..MaxFaults
    /\ edits \in 0..MaxEdits

Init ==
    /\ kind \in [Task -> Envelope]
    /\ msg = [t \in Task |-> "absent"]
    /\ job = [w \in Worker |-> [t \in Task |-> NoJob]]
    /\ outbound \in [Task -> BOOLEAN]
    /\ tries = [t \in Task |-> 0]
    /\ blank = [t \in Task |-> {}]
    /\ facts = [t \in Task |-> 0]
    /\ recorded = [t \in Task |-> 0]
    /\ sent = [t \in Task |-> {}]
    /\ faults = 0
    /\ edits = 0

Holders(t) == {w \in Worker : job[w][t].stage # "none"}
Idle(w)    == \A t \in Task : job[w][t].stage = "none"
InHand(w)  == {t \in Task : job[w][t].stage \notin {"none", "fetched"}}

Fault == faults < MaxFaults /\ faults' = faults + 1

Becomes(w, t, j) == job' = [job EXCEPT ![w][t] = j]

Decide_AckAnyway(w, t, v) ==
    Becomes(w, t, [job[w][t] EXCEPT !.stage = "settle",
                                    !.verdict = IF v = "nak" THEN "ack" ELSE v])
Decide_NeverAck(w, t, v) ==
    Becomes(w, t, [job[w][t] EXCEPT !.stage = "settle",
                                    !.verdict = IF v = "ack" THEN "nak" ELSE v])
Decide_RetryPoison(w, t, v) ==
    Becomes(w, t, [job[w][t] EXCEPT !.stage = "settle",
                                    !.verdict = IF v = "term" THEN "nak" ELSE v])

\* The replica has made up its mind about t; the call to the server is next.
Decide(w, t, v) ==
    Becomes(w, t, [job[w][t] EXCEPT !.stage = "settle", !.verdict = v])

-----------------------------------------------------------------------------
(* The surroundings: the door, the server, the operator.                   *)

\* The door stored the turn's envelope (EventGateway answered 202).
Accept(t) ==
    /\ msg[t] = "absent"
    /\ msg' = [msg EXCEPT ![t] = "ready"]
    /\ UNCHANGED <<kind, job, outbound, tries, blank, facts, recorded, sent, faults, edits>>

\* The ack wait runs out: over nobody (the replica died or lost its call), or
\* over a replica that is still busy with its batch.
AckWait(t) ==
    /\ msg[t] = "pending"
    /\ IF Holders(t) = {} THEN UNCHANGED faults ELSE SlowAnswers /\ Fault
    /\ msg' = [msg EXCEPT ![t] = "ready"]
    /\ UNCHANGED <<kind, job, outbound, tries, blank, facts, recorded, sent, edits>>

\* An operator adds or removes a row's outbound_secret_ref.
EditBinding(t) ==
    /\ edits < MaxEdits
    /\ edits' = edits + 1
    /\ outbound' = [outbound EXCEPT ![t] = ~@]
    /\ UNCHANGED <<kind, msg, job, tries, blank, facts, recorded, sent, faults>>

\* The server's side of ack, nak and term: the first final word stands, and a
\* nak makes a message deliverable again only while it is unsettled.
AfterVerdict(m, v) ==
    IF m \notin {"ready", "pending"} THEN m
    ELSE CASE v = "ack"  -> "acked"
           [] v = "term" -> "termed"
           [] OTHER      -> "ready"

-----------------------------------------------------------------------------
(* One replica.                                                            *)

Delivered_OwnDurable(S) == msg

\* What the consumer every replica shares makes of a fetch.
Delivered(S) == [t \in Task |-> IF t \in S THEN "pending" ELSE msg[t]]

\* run_once: nothing left of the last batch, take up to BATCH messages.
Fetch(w) ==
    /\ Idle(w)
    /\ \E S \in SUBSET {t \in Task : msg[t] = "ready"} :
          /\ S # {}
          /\ Cardinality(S) <= Batch
          /\ msg' = Delivered(S)
          /\ job' = [job EXCEPT ![w] =
                        [t \in Task |-> IF t \in S THEN Fetched ELSE NoJob]]
    /\ UNCHANGED <<kind, outbound, tries, blank, facts, recorded, sent, faults, edits>>

Unservable_Unpushable(t) ==
    ~kind[t].routable \/ ~kind[t].addressed \/ ~outbound[t]

\* A message nobody serves, or one that could only be pushed and has no address
\* or no outbound reference.
Unservable(t) ==
    \/ ~kind[t].routable
    \/ ~kind[t].pullable /\ (~kind[t].addressed \/ ~outbound[t])

\* _handle up to the model: what can never be served is terminated, a missing
\* secret is worth a retry, everything else goes to the model.
Route(w, t) ==
    /\ job[w][t].stage = "fetched"
    /\ InHand(w) = {}
    /\ \/ /\ Unservable(t)
          /\ Decide(w, t, "term")
          /\ UNCHANGED faults
       \/ /\ ~Unservable(t)
          /\ Becomes(w, t, [job[w][t] EXCEPT !.stage = "answer", !.push = outbound[t]])
          /\ UNCHANGED faults
       \/ /\ ~Unservable(t) /\ outbound[t]
          /\ Fault                                        \* SecretNotFound
          /\ Decide(w, t, "nak")
    /\ UNCHANGED <<kind, msg, outbound, tries, blank, facts, recorded, sent, edits>>

\* The tool gateway admits the note tool for this sender's effective tier.
MayBeAnswered(t) == kind[t].authorised

\* answer_envelope, up to its memory writes: a sender whose tier does not
\* reach the note tool gets no model and no reply; a model or lane that
\* raises is a nak; otherwise there is a new answer, which may be blank.
Answer(w, t) ==
    /\ job[w][t].stage = "answer"
    /\ \/ /\ ~MayBeAnswered(t)
          /\ Decide(w, t, "ack")
          /\ UNCHANGED <<tries, blank, faults>>
       \/ /\ MayBeAnswered(t)
          /\ tries' = [tries EXCEPT ![t] = @ + 1]
          /\ \/ UNCHANGED blank
             \/ blank' = [blank EXCEPT ![t] = @ \cup {tries[t] + 1}]
          /\ Becomes(w, t, [job[w][t] EXCEPT !.stage = "record", !.draft = tries[t] + 1])
          /\ UNCHANGED faults
       \/ /\ Fault                                        \* worker.answer_failed
          /\ Decide(w, t, "nak")
          /\ UNCHANGED <<tries, blank>>
    /\ UNCHANGED <<kind, msg, outbound, facts, recorded, sent, edits>>

Inserted_Upsert(row, new)      == new
Inserted_Uncommitted(row, new) == row

\* write_turn: ON CONFLICT (task_ulid) DO NOTHING.
Inserted(row, new) == IF row = 0 THEN new ELSE row

\* The rest of answer_envelope: the fact and the turn, each best effort.  A
\* fact is a new row every time.
Record(w, t) ==
    /\ job[w][t].stage = "record"
    /\ \E factLands, turnLands \in BOOLEAN :
          /\ IF factLands /\ turnLands THEN UNCHANGED faults ELSE Fault
          /\ facts' = IF factLands THEN [facts EXCEPT ![t] = @ + 1] ELSE facts
          /\ recorded' = IF turnLands
                         THEN [recorded EXCEPT ![t] = Inserted(@, job[w][t].draft)]
                         ELSE recorded
    /\ Becomes(w, t, [job[w][t] EXCEPT !.stage = "deliver"])
    /\ UNCHANGED <<kind, msg, outbound, tries, blank, sent, edits>>

\* The reply goes out, if there is one and an address and a secret to push it
\* with.
\* A failed call may have reached the customer all the same (a timeout while
\* reading the response).
Deliver(w, t) ==
    /\ job[w][t].stage = "deliver"
    /\ LET canPush == /\ job[w][t].draft \notin blank[t]
                      /\ job[w][t].push /\ kind[t].addressed
       IN  \/ /\ ~canPush                 \* no_reply or answered_undelivered
              /\ Decide(w, t, "ack")
              /\ UNCHANGED <<sent, faults>>
           \/ /\ canPush
              /\ sent' = [sent EXCEPT ![t] = @ \cup {job[w][t].draft}]
              /\ Decide(w, t, "ack")
              /\ UNCHANGED faults
           \/ /\ canPush
              /\ Fault                                    \* worker.send_failed
              /\ \/ UNCHANGED sent
                 \/ sent' = [sent EXCEPT ![t] = @ \cup {job[w][t].draft}]
              /\ Decide(w, t, "nak")
    /\ UNCHANGED <<kind, msg, outbound, tries, blank, facts, recorded, edits>>

\* msg.ack(), msg.nak() or msg.term(): fire and forget, so it may be lost.
Settle(w, t) ==
    /\ job[w][t].stage = "settle"
    /\ \/ /\ msg' = [msg EXCEPT ![t] = AfterVerdict(@, job[w][t].verdict)]
          /\ UNCHANGED faults
       \/ Fault /\ UNCHANGED msg
    /\ Becomes(w, t, NoJob)
    /\ UNCHANGED <<kind, outbound, tries, blank, facts, recorded, sent, edits>>

\* The replica dies, or an exception of the binding store or of the server
\* escapes _handle and run_forever starts over: the whole batch is forgotten.
Abandon(w) ==
    /\ ~Idle(w)
    /\ Fault
    /\ job' = [job EXCEPT ![w] = [t \in Task |-> NoJob]]
    /\ UNCHANGED <<kind, msg, outbound, tries, blank, facts, recorded, sent, edits>>

Handle(w, t) == \/ Route(w, t) \/ Answer(w, t) \/ Record(w, t)
                \/ Deliver(w, t) \/ Settle(w, t)

Next ==
    \/ \E t \in Task : Accept(t) \/ AckWait(t) \/ EditBinding(t)
    \/ \E w \in Worker : Fetch(w) \/ Abandon(w) \/ \E t \in Task : Handle(w, t)

Spec == Init /\ [][Next]_vars

\* The server's redelivery timer runs and a replica that is up keeps working
\* (run_forever restarts its loop); nothing obliges a customer, an operator or
\* a failure to happen.
Fairness ==
    /\ \A t \in Task : WF_vars(AckWait(t) /\ Holders(t) = {})
    /\ \A w \in Worker : WF_vars(Fetch(w) \/ \E t \in Task : Handle(w, t))

FairSpec == Spec /\ Fairness

-----------------------------------------------------------------------------
(* What the lane owes.                                                     *)

Served(t) == \/ ~kind[t].authorised
             \/ kind[t].pullable
             \/ blank[t] # {}
             \/ sent[t] # {}

\* A turn taken off the stream by an acknowledgement was served: its sender
\* had no authority, or it can be read back, or the model had nothing to say, or
\* its reply went out.  A replica that dies, loses its ack or has its message
\* taken over never swallows a reply (worker.py: "anything that could succeed
\* on a second attempt is negatively acknowledged").
AckedIsServed == \A t \in Task : msg[t] = "acked" => Served(t)

\* A turn of a surface that is read back is never terminated for want of an
\* address or of a credential to push with, the fault measured on the first
\* turn that surface carried (worker.py, "Before this distinction existed").
PullableIsAnswered ==
    \A t \in Task : kind[t].routable /\ kind[t].pullable => msg[t] # "termed"

\* A sender whose tier does not reach the note tool costs no model call, leaves
\* no fact and no turn behind, and hears nothing, whatever is redelivered.
StrangerGetsSilence ==
    \A t \in Task : ~kind[t].authorised =>
        /\ tries[t] = 0 /\ facts[t] = 0
        /\ recorded[t] = 0 /\ sent[t] = {} /\ blank[t] = {}

\* The model runs a second time for one turn only because something failed:
\* every extra answer is paid for by a failure of its own.
RepeatsArePaidFor == \A t \in Task : tries[t] <= 1 + faults

\* As long as nothing has failed, what the customer was sent is exactly what
\* the conversation table says Otto answered.
CleanRunIsExact ==
    faults = 0 => \A t \in Task : /\ sent[t] \subseteq {recorded[t]} \ {0}
                                  /\ facts[t] = (IF recorded[t] = 0 THEN 0 ELSE 1)

\* One conversation row per turn, and it never changes: a task replayed off
\* the bus, even by two replicas at once, "records its conversation once"
\* (conversation.write_turn).
RecordedOnce ==
    [][\A t \in Task : recorded[t] # 0 => recorded'[t] = recorded[t]]_vars

\* A turn acknowledged on a pullable surface has an answer to read back: "the
\* answer exists and was recorded, so a redelivery would only produce it
\* twice" (worker._handle, answered_undelivered).
AnsweredIsRecorded ==
    \A t \in Task :
        msg[t] = "acked" /\ kind[t].pullable /\ kind[t].authorised => recorded[t] # 0

\* Every accepted turn is settled in the end, whatever fails on the way:
\* a task accepted while no worker was running is a customer waiting, not a
\* task to skip.
EveryTurnSettled ==
    \A t \in Task : msg[t] # "absent" ~> msg[t] \in {"acked", "termed"}

\* The lane implements the contract.
TurnState(m) == CASE m = "absent" -> "unknown"
                  [] m = "acked"  -> "done"
                  [] m = "termed" -> "dropped"
                  [] OTHER        -> "accepted"

Contract == INSTANCE TurnContract
                WITH turn <- [t \in Task |-> TurnState(msg[t])],
                     mute <- [t \in Task |-> blank[t] # {}],
                     replies <- sent

KeepsTheContract == Contract!CSpec
=============================================================================
