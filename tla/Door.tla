-------------------------------- MODULE Door --------------------------------
(***************************************************************************)
(* The front door: otto.ingress.server, gateway and publisher.  Every      *)
(* webhook delivery is a thread of its own (ThreadingHTTPServer); all of   *)
(* them publish through one event loop, which runs one coroutine at a time *)
(* and raises RuntimeError for a thread that comes while it runs.          *)
(*                                                                         *)
(* A channel delivers a message again when it was refused, or when it did  *)
(* not wait for the answer; every delivery <<m, k>> mints a task of its    *)
(* own.                                                                    *)
(*                                                                         *)
(* A definition named X_Something is a mutant of X.                        *)
(***************************************************************************)
EXTENDS Naturals, FiniteSets

CONSTANTS
    Message,
    Credential,
    Fits,           \* the credentials whose secret this process can resolve
    NoOne,          \* the loop is not running
    MaxDeliveries,  \* bound: times a channel sends one message
    MaxFaults,      \* bound: failures of the database, the bus or the channel
    MaxEdits        \* bound: operator edits of a binding

Delivery == Message \X (1..MaxDeliveries)

ASSUME DoorAssumption ==
    /\ Fits \subseteq Credential
    /\ NoOne \notin Delivery
    /\ MaxDeliveries \in Nat /\ MaxFaults \in Nat /\ MaxEdits \in Nat

VARIABLES
    cred,    \* cred[m]: the credential m is sent with
    row,     \* row[c]: the binding the credential finds in channel_binding
    vouched, \* the deliveries whose binding was active at some time since they came
    heard,   \* heard[m]: deliveries of m so far
    phase,   \* phase[d]: what the thread of delivery d does next
    status,  \* status[d]: what d was answered, 0 before that
    loop,    \* the delivery whose coroutine the event loop is running
    up,      \* the connection carries a publish
    stream,  \* stream[d]: copies of d's task on OTTO_TASKS
    faults, edits

vars == <<cred, row, vouched, heard, phase, status, loop, up, stream, faults, edits>>

Phase == {"absent", "lookup", "prepare", "publish", "publishing", "reconnect",
          "reconnecting", "retry", "retrying", "answered"}
Refused == {400, 401, 403, 500, 503}

TypeOK ==
    /\ cred \in [Message -> Credential]
    /\ row \in [Credential -> {"none", "active", "disabled"}]
    /\ vouched \subseteq Delivery
    /\ heard \in [Message -> 0..MaxDeliveries]
    /\ phase \in [Delivery -> Phase]
    /\ status \in [Delivery -> {0, 200, 202} \cup Refused]
    /\ loop \in Delivery \cup {NoOne}
    /\ up \in BOOLEAN
    /\ stream \in [Delivery -> Nat]
    /\ faults \in 0..MaxFaults
    /\ edits \in 0..MaxEdits

Init ==
    /\ cred \in [Message -> Credential]
    /\ row \in [Credential -> {"none", "active"}]
    /\ vouched = {}
    /\ heard = [m \in Message |-> 0]
    /\ phase = [d \in Delivery |-> "absent"]
    /\ status = [d \in Delivery |-> 0]
    /\ loop = NoOne
    /\ up = TRUE
    /\ stream = [d \in Delivery |-> 0]
    /\ faults = 0 /\ edits = 0

Fault == faults < MaxFaults /\ faults' = faults + 1

Goes(d, p) == phase' = [phase EXCEPT ![d] = p] /\ UNCHANGED status

Answer(d, s) ==
    /\ phase' = [phase EXCEPT ![d] = "answered"]
    /\ status' = [status EXCEPT ![d] = s]

-----------------------------------------------------------------------------
(* The channel and the operator.                                           *)

\* The channel sends m, or sends it again: it was refused, or did not wait.
Deliver(m) ==
    LET k == heard[m] + 1 IN
    /\ k <= MaxDeliveries
    /\ \/ k = 1 /\ UNCHANGED faults
       \/ k > 1 /\ status[<<m, heard[m]>>] \in Refused /\ UNCHANGED faults
       \/ k > 1 /\ Fault
    /\ heard' = [heard EXCEPT ![m] = k]
    /\ Goes(<<m, k>>, "lookup")
    /\ vouched' = IF row[cred[m]] = "active" THEN vouched \cup {<<m, k>>} ELSE vouched
    /\ UNCHANGED <<cred, row, loop, up, stream, edits>>

\* register or set_status on somebody's binding, from outside this process.
Edit(c) ==
    /\ edits < MaxEdits
    /\ edits' = edits + 1
    /\ \E s \in {"none", "active", "disabled"} \ {row[c]} :
          /\ row' = [row EXCEPT ![c] = s]
          /\ vouched' = IF s = "active"
                        THEN vouched \cup {d \in Delivery : cred[d[1]] = c /\ phase[d] = "lookup"}
                        ELSE vouched
    /\ UNCHANGED <<cred, heard, phase, status, loop, up, stream, faults>>

-----------------------------------------------------------------------------
(* EventGateway._handle.                                                   *)

Admitted_AnyRow(c) == row[c] # "none"
Admitted(c) == row[c] = "active"

\* No credential, no such binding, or a disabled one; the secret and the
\* comparison are next.  An exception of the store becomes _guard's 500.
Lookup(d) ==
    LET c == cred[d[1]] IN
    /\ phase[d] = "lookup"
    /\ \/ /\ \/ row[c] = "none" /\ Answer(d, 401)
             \/ row[c] # "none" /\ ~Admitted(c) /\ Answer(d, 403)
             \/ Admitted(c) /\ Goes(d, "prepare")
          /\ UNCHANGED faults
       \/ Fault /\ Answer(d, 500)
    /\ UNCHANGED <<cred, row, vouched, heard, loop, up, stream, edits>>

Proven_ByRow(c) == TRUE
Proven(c) == c \in Fits

\* Resolve the secret and verify; parse, normalise, sense media, mint.
Prepare(d) ==
    LET c == cred[d[1]] IN
    /\ phase[d] = "prepare"
    /\ \/ ~Proven(c) /\ (Answer(d, 401) \/ Answer(d, 503))
       \/ Proven(c) /\ (Answer(d, 400) \/ Answer(d, 200) \/ Goes(d, "publish"))
    /\ UNCHANGED <<cred, row, vouched, heard, loop, up, stream, faults, edits>>

-----------------------------------------------------------------------------
(* JetStreamPublisher.publish_submitted.                                   *)

\* What a thread wants the loop for, and what runs there then.
Wants == [publish |-> "publishing", reconnect |-> "reconnecting", retry |-> "retrying"]

\* run_until_complete starts d's coroutine.
Start(d) ==
    /\ phase[d] \in DOMAIN Wants
    /\ loop = NoOne
    /\ loop' = d
    /\ Goes(d, Wants[phase[d]])
    /\ UNCHANGED <<cred, row, vouched, heard, up, stream, faults, edits>>

\* RuntimeError: another thread's coroutine is running.  It is caught where it
\* comes out of the first attempt, like any other.
Collide(d) ==
    /\ loop # NoOne
    /\ \/ phase[d] = "publish" /\ Goes(d, "reconnect")
       \/ phase[d] \in {"reconnect", "retry"} /\ Answer(d, 503)
    /\ UNCHANGED <<cred, row, vouched, heard, loop, up, stream, faults, edits>>

Stored_NoMsgId(d) == stream' = [stream EXCEPT ![d] = @ + 1]

\* The broker stores a message id once.
Stored(d) == stream' = [stream EXCEPT ![d] = 1]

Failed_Accepted(d) == IF phase[d] = "retrying" THEN Answer(d, 202) ELSE Goes(d, "reconnect")

\* An attempt has failed: the first one is followed by a reconnect, the second
\* one leaves publish_submitted and becomes a 503.
Failed(d) == IF phase[d] = "retrying" THEN Answer(d, 503) ELSE Goes(d, "reconnect")

Succeeded_FirstOnly(d) == Answer(d, IF phase[d] = "retrying" THEN 503 ELSE 202)
Succeeded(d) == Answer(d, 202)

\* The coroutine of either attempt ends: acknowledged; or the connection is
\* dead; or it dies now, the message stored or not.
Publish(d) ==
    /\ phase[d] \in {"publishing", "retrying"}
    /\ loop' = NoOne
    /\ \/ up /\ Stored(d) /\ Succeeded(d) /\ UNCHANGED <<up, faults>>
       \/ ~up /\ Failed(d) /\ UNCHANGED <<stream, up, faults>>
       \/ up /\ Fault /\ up' \in BOOLEAN /\ Failed(d) /\ (Stored(d) \/ UNCHANGED stream)
    /\ UNCHANGED <<cred, row, vouched, heard, edits>>

\* Bus.reconnect: close whatever there is, connect anew.
Reconnect(d) ==
    /\ phase[d] = "reconnecting"
    /\ loop' = NoOne
    /\ \/ up' = TRUE /\ Goes(d, "retry") /\ UNCHANGED faults
       \/ Fault /\ up' = FALSE /\ Answer(d, 503)
    /\ UNCHANGED <<cred, row, vouched, heard, stream, edits>>

\* The server closes the connection while nobody is looking.
Drop ==
    /\ up /\ Fault
    /\ up' = FALSE
    /\ UNCHANGED <<cred, row, vouched, heard, phase, status, loop, stream, edits>>

Handle(d) ==
    \/ Lookup(d) \/ Prepare(d)
    \/ Start(d) \/ Collide(d) \/ Publish(d) \/ Reconnect(d)

Next ==
    \/ \E m \in Message : Deliver(m)
    \/ \E c \in Credential : Edit(c)
    \/ \E d \in Delivery : Handle(d)
    \/ Drop

Spec == Init /\ [][Next]_vars

-----------------------------------------------------------------------------
(* What the door owes.                                                     *)

\* 202 is never a lie: an accepted turn is on the stream, whichever attempt
\* put it there and whichever thread opened the connection (gateway: "saying
\* 202 would be the lie that cost four days").
AcceptedIsStored == \A d \in Delivery : status[d] = 202 => stream[d] > 0

\* A task is on the stream at most once: "a retry of a publish that actually
\* landed is stored once" (publisher).
TaskStoredOnce == \A d \in Delivery : stream[d] <= 1

\* Nothing comes in but on a credential whose secret this process holds and
\* whose binding was active at some time while the request was in the door.
OnlyTheVouchedFor ==
    \A d \in Delivery : stream[d] > 0 => d \in vouched /\ cred[d[1]] \in Fits

\* A message becomes two tasks only because something failed: threads in each
\* other's way never make the door refuse what it has stored.
CopiesArePaidFor ==
    \A m \in Message : Cardinality({d \in Delivery : d[1] = m /\ stream[d] > 0}) <= 1 + faults

\* Every 503 of a publish has a failing bus behind it ("the task bus refused the
\* work", EventGateway._handle): the thread got past its checks, and something
\* failed.
RefusalHasACause ==
    [][\A d \in Delivery :
          status[d] = 0 /\ status'[d] = 503 /\ phase[d] # "prepare" => faults' > 0]_vars
=============================================================================
