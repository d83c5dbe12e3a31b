-------------------------- MODULE AnswerLaneProofs --------------------------
(***************************************************************************)
(* The answering lane keeps its contract for every number of turns,        *)
(* replicas and failures.  What a replica has decided about a turn is      *)
(* only as good as what it knew when it decided; JobInv says what each     *)
(* stage of its work rests on, and with it the invariant is inductive.     *)
(***************************************************************************)
EXTENDS AnswerLane, FiniteSetTheorems, TLAPS

\* What replica w may rely on while it works on t.
JobInv(w, t) ==
    LET j == job[w][t]
    IN  /\ j.stage # "none" => msg[t] # "absent"
        /\ j.stage \in {"answer", "record", "deliver"} =>
              /\ kind[t].routable
              /\ kind[t].pullable \/ (kind[t].addressed /\ j.push)
        /\ j.stage \in {"record", "deliver"} => kind[t].authorised
        /\ j.stage = "settle" /\ j.verdict = "ack"  => Served(t)
        /\ j.stage = "settle" /\ j.verdict = "term" => ~(kind[t].routable /\ kind[t].pullable)

\* What the stream and the histories may rely on.
TurnInv(t) ==
    /\ msg[t] = "acked"  => Served(t)
    /\ msg[t] = "termed" => ~(kind[t].routable /\ kind[t].pullable)
    /\ ~kind[t].authorised =>
          /\ tries[t] = 0 /\ facts[t] = 0
          /\ recorded[t] = 0 /\ sent[t] = {} /\ blank[t] = {}

LaneInv == /\ TypeOK
           /\ \A w \in Worker, t \in Task : JobInv(w, t)
           /\ \A t \in Task : TurnInv(t)

-----------------------------------------------------------------------------
\* Init establishes the invariant.
LEMMA InitLane == Init => LaneInv
<1> SUFFICES ASSUME Init PROVE LaneInv
    OBVIOUS
<1>1. TypeOK
    BY LaneAssumption DEF Init, TypeOK, NoJob, Job, Stages
<1>2. \A w \in Worker, t \in Task : JobInv(w, t)
    BY DEF Init, JobInv, NoJob
<1>3. \A t \in Task : TurnInv(t)
    BY DEF Init, TurnInv, Served
<1> QED BY <1>1, <1>2, <1>3 DEF LaneInv

\* Putting a job in a replica's hand keeps the jobs well typed and leaves every
\* other job alone.
LEMMA BecomesJob ==
    ASSUME TypeOK, NEW w \in Worker, NEW t \in Task, NEW j \in Job, Becomes(w, t, j)
    PROVE  /\ job' \in [Worker -> [Task -> Job]]
           /\ job'[w][t] = j
           /\ \A v \in Worker, u \in Task : <<v, u>> # <<w, t>> => job'[v][u] = job[v][u]
BY DEF TypeOK, Becomes

\* The jobs a replica makes of the one it has are jobs, and change only what
\* they name.
LEMMA JobForms ==
    ASSUME NEW j \in Job
    PROVE  /\ NoJob \in Job
           /\ Fetched \in Job
           /\ \A v \in {"ack", "nak", "term"} :
                 [j EXCEPT !.stage = "settle", !.verdict = v] \in Job
           /\ \A b \in BOOLEAN : [j EXCEPT !.stage = "answer", !.push = b] \in Job
           /\ \A n \in Nat : [j EXCEPT !.stage = "record", !.draft = n] \in Job
           /\ [j EXCEPT !.stage = "deliver"] \in Job
<1> USE DEF Job, Stages
<1>1. NoJob \in Job
    BY DEF NoJob
<1>3. Fetched \in Job
    BY DEF Fetched
<1>4. \A v \in {"ack", "nak", "term"} :
         [j EXCEPT !.stage = "settle", !.verdict = v] \in Job
    OBVIOUS
<1>5. \A b \in BOOLEAN : [j EXCEPT !.stage = "answer", !.push = b] \in Job
    OBVIOUS
<1>6. \A n \in Nat : [j EXCEPT !.stage = "record", !.draft = n] \in Job
    OBVIOUS
<1>7. [j EXCEPT !.stage = "deliver"] \in Job
    OBVIOUS
<1> QED BY <1>1, <1>3, <1>4, <1>5, <1>6, <1>7

\* The state is well typed whatever step is taken.
LEMMA TypeStep == TypeOK /\ [Next]_vars => TypeOK'
<1> SUFFICES ASSUME TypeOK, [Next]_vars PROVE TypeOK'
    OBVIOUS
<1> USE LaneAssumption
<1>1. ASSUME NEW t \in Task, Accept(t) PROVE TypeOK'
    BY <1>1 DEF Accept, TypeOK
<1>2. ASSUME NEW t \in Task, AckWait(t) PROVE TypeOK'
    BY <1>2 DEF AckWait, Fault, TypeOK
<1>3. ASSUME NEW t \in Task, EditBinding(t) PROVE TypeOK'
    BY <1>3 DEF EditBinding, TypeOK
<1>4. ASSUME NEW w \in Worker, Fetch(w) PROVE TypeOK'
  <2>1. Fetched \in Job /\ NoJob \in Job
    BY DEF Fetched, NoJob, Job, Stages
  <2>2. PICK S \in SUBSET Task :
           /\ msg' = [t \in Task |-> IF t \in S THEN "pending" ELSE msg[t]]
           /\ job' = [job EXCEPT ![w] = [t \in Task |-> IF t \in S THEN Fetched ELSE NoJob]]
    BY <1>4 DEF Fetch, Delivered
  <2>3. job' \in [Worker -> [Task -> Job]]
    BY <2>1, <2>2 DEF TypeOK
  <2>4. msg' \in [Task -> {"absent", "ready", "pending", "acked", "termed"}]
    BY <2>2 DEF TypeOK
  <2> QED BY <1>4, <2>3, <2>4 DEF Fetch, Delivered, TypeOK
<1>5. ASSUME NEW w \in Worker, Abandon(w) PROVE TypeOK'
  <2>1. NoJob \in Job
    BY DEF NoJob, Job, Stages
  <2> QED BY <1>5, <2>1 DEF Abandon, Fault, TypeOK
<1>6. ASSUME NEW w \in Worker, NEW t \in Task, Handle(w, t) PROVE TypeOK'
  <2>1. job[w][t] \in Job
    BY DEF TypeOK
  <2>2. \E j \in Job : Becomes(w, t, j)
    <3>1. CASE Route(w, t)
      <4>1. outbound[t] \in BOOLEAN
        BY DEF TypeOK
      <4> QED BY <3>1, <4>1, <2>1, JobForms DEF Route, Unservable, Decide
    <3>2. CASE Answer(w, t)
      <4>1. tries[t] + 1 \in Nat
        BY DEF TypeOK
      <4> QED BY <3>2, <4>1, <2>1, JobForms DEF Answer, MayBeAnswered, Decide
    <3>3. CASE Record(w, t)
      BY <3>3, <2>1, JobForms DEF Record, Inserted
    <3>4. CASE Deliver(w, t)
      BY <3>4, <2>1, JobForms DEF Deliver, Decide
    <3>5. CASE Settle(w, t)
      BY <3>5, <2>1, JobForms DEF Settle
    <3> QED BY <1>6, <3>1, <3>2, <3>3, <3>4, <3>5 DEF Handle
  <2>3. job' \in [Worker -> [Task -> Job]]
    BY <2>2, BecomesJob
  <2>4. job[w][t].draft \in Nat
    BY <2>1 DEF Job
  <2>5. /\ kind' = kind
        /\ outbound' = outbound
        /\ edits' = edits
    BY <1>6 DEF Handle, Route, Unservable, Answer, MayBeAnswered, Record, Inserted, Deliver, Settle
  <2>6. faults' = faults \/ Fault
    BY <1>6 DEF Handle, Route, Unservable, Answer, MayBeAnswered, Record, Inserted, Deliver, Settle
  <2>7. faults' \in 0..MaxFaults
    BY <2>6 DEF Fault, TypeOK
  <2>8. msg' \in [Task -> {"absent", "ready", "pending", "acked", "termed"}]
    BY <1>6 DEF Handle, Route, Unservable, Answer, MayBeAnswered, Record, Inserted, Deliver, Settle, AfterVerdict, TypeOK
  <2>9. /\ tries' \in [Task -> Nat]
        /\ sent' \in [Task -> SUBSET Nat]
        /\ blank' \in [Task -> SUBSET Nat]
    BY <1>6, <2>4 DEF Handle, Route, Unservable, Answer, MayBeAnswered, Record, Inserted, Deliver, Settle, TypeOK
  <2>10. facts' \in [Task -> Nat] /\ recorded' \in [Task -> Nat]
    BY SMTT(30), <1>6, <2>4 DEF Handle, Route, Unservable, Answer, MayBeAnswered, Record, Inserted, Deliver, Settle, TypeOK
  <2> QED BY <2>3, <2>5, <2>7, <2>8, <2>9, <2>10 DEF TypeOK
<1>7. CASE UNCHANGED vars
    BY <1>7 DEF vars, TypeOK
<1> QED
    BY <1>1, <1>2, <1>3, <1>4, <1>5, <1>6, <1>7 DEF Next

\* What was true of a job stays true while the job is left alone: replies are
\* never taken back and a message never leaves the stream.
LEMMA JobFrame ==
    ASSUME NEW w \in Worker, NEW t \in Task,
           JobInv(w, t), job'[w][t] = job[w][t], kind' = kind,
           sent[t] \subseteq sent'[t], blank[t] \subseteq blank'[t],
           msg[t] # "absent" => msg'[t] # "absent"
    PROVE  JobInv(w, t)'
BY DEF JobInv, Served

\* A replica between jobs relies on nothing but the message being there.
LEMMA FreshJob ==
    ASSUME NEW w \in Worker, NEW t \in Task,
           \/ job'[w][t] = NoJob
           \/ job'[w][t] = Fetched /\ msg'[t] # "absent"
    PROVE  JobInv(w, t)'
BY DEF JobInv, NoJob, Fetched

\* Every action preserves the invariant.
LEMMA LaneStep == LaneInv /\ [Next]_vars => LaneInv'
<1> SUFFICES ASSUME LaneInv, [Next]_vars PROVE LaneInv'
    OBVIOUS
<1> USE DEF LaneInv
<1>0. TypeOK'
    BY TypeStep
<1> SUFFICES /\ \A v \in Worker, u \in Task : JobInv(v, u)'
             /\ \A u \in Task : TurnInv(u)'
    BY <1>0
<1>1. ASSUME NEW t \in Task, Accept(t)
      PROVE  /\ \A v \in Worker, u \in Task : JobInv(v, u)'
             /\ \A u \in Task : TurnInv(u)'
  <2>1. \A v \in Worker, u \in Task : JobInv(v, u)'
      BY <1>1, JobFrame DEF Accept, TypeOK
  <2>2. \A u \in Task : TurnInv(u)'
      BY <1>1 DEF Accept, TurnInv, Served, TypeOK
  <2> QED BY <2>1, <2>2
<1>2. ASSUME NEW t \in Task, AckWait(t)
      PROVE  /\ \A v \in Worker, u \in Task : JobInv(v, u)'
             /\ \A u \in Task : TurnInv(u)'
  <2>1. \A v \in Worker, u \in Task : JobInv(v, u)'
      BY <1>2, JobFrame DEF AckWait, TypeOK
  <2>2. \A u \in Task : TurnInv(u)'
      BY <1>2 DEF AckWait, TurnInv, Served, TypeOK
  <2> QED BY <2>1, <2>2
<1>3. ASSUME NEW t \in Task, EditBinding(t)
      PROVE  /\ \A v \in Worker, u \in Task : JobInv(v, u)'
             /\ \A u \in Task : TurnInv(u)'
  <2>1. \A v \in Worker, u \in Task : JobInv(v, u)'
      BY <1>3, JobFrame DEF EditBinding
  <2>2. \A u \in Task : TurnInv(u)'
      BY <1>3 DEF EditBinding, TurnInv, Served
  <2> QED BY <2>1, <2>2
<1>4. ASSUME NEW w \in Worker, Fetch(w)
      PROVE  /\ \A v \in Worker, u \in Task : JobInv(v, u)'
             /\ \A u \in Task : TurnInv(u)'
  <2>1. PICK S \in SUBSET {t \in Task : msg[t] = "ready"} :
           /\ msg' = [t \in Task |-> IF t \in S THEN "pending" ELSE msg[t]]
           /\ job' = [job EXCEPT ![w] = [t \in Task |-> IF t \in S THEN Fetched ELSE NoJob]]
      BY <1>4 DEF Fetch, Delivered
  <2>2. ASSUME NEW v \in Worker, NEW u \in Task PROVE JobInv(v, u)'
    <3>1. CASE v = w
      BY <3>1, <2>1, FreshJob DEF TypeOK
    <3>2. CASE v # w
      <4>1. job'[v][u] = job[v][u]
        BY <3>2, <2>1 DEF TypeOK
      <4>2. msg[u] # "absent" => msg'[u] # "absent"
        BY <2>1
      <4>3. kind' = kind /\ sent' = sent /\ blank' = blank
        BY <1>4 DEF Fetch, Delivered
      <4> QED BY <4>1, <4>2, <4>3, JobFrame
    <3> QED BY <3>1, <3>2
  <2>3. \A u \in Task : TurnInv(u)'
      BY <1>4, <2>1 DEF Fetch, Delivered, TurnInv, Served
  <2> QED BY <2>2, <2>3
<1>5. ASSUME NEW w \in Worker, Abandon(w)
      PROVE  /\ \A v \in Worker, u \in Task : JobInv(v, u)'
             /\ \A u \in Task : TurnInv(u)'
  <2>1. ASSUME NEW v \in Worker, NEW u \in Task PROVE JobInv(v, u)'
    <3>1. job'[v][u] = NoJob \/ job'[v][u] = job[v][u]
      BY <1>5 DEF Abandon, TypeOK
    <3>2. kind' = kind /\ sent' = sent /\ blank' = blank /\ msg' = msg
      BY <1>5 DEF Abandon
    <3> QED BY <3>1, <3>2, FreshJob, JobFrame
  <2>2. \A u \in Task : TurnInv(u)'
      BY <1>5 DEF Abandon, TurnInv, Served
  <2> QED BY <2>1, <2>2
<1>6. ASSUME NEW w \in Worker, NEW t \in Task, Handle(w, t)
      PROVE  /\ \A v \in Worker, u \in Task : JobInv(v, u)'
             /\ \A u \in Task : TurnInv(u)'
  <2>1. JobInv(w, t) /\ TurnInv(t) /\ job[w][t] \in Job
      BY DEF TypeOK
  <2>2. kind' = kind
      BY <1>6 DEF Handle, Route, Unservable, Answer, MayBeAnswered, Record, Inserted, Deliver, Settle
  <2>3. \A u \in Task : sent[u] \subseteq sent'[u] /\ blank[u] \subseteq blank'[u]
      BY <1>6 DEF Handle, Route, Unservable, Answer, MayBeAnswered, Record, Inserted, Deliver, Settle, TypeOK
  <2>4. \A u \in Task : msg[u] # "absent" => msg'[u] # "absent"
      BY <1>6 DEF Handle, Route, Unservable, Answer, MayBeAnswered, Record, Inserted, Deliver, Settle, AfterVerdict, TypeOK
  <2>5. ASSUME NEW v \in Worker, NEW u \in Task, v # w \/ u # t
        PROVE  job'[v][u] = job[v][u]
    <3>1. \E j : Becomes(w, t, j)
      BY <1>6 DEF Handle, Route, Unservable, Answer, MayBeAnswered, Record, Inserted, Deliver, Settle, Decide
    <3> QED BY <3>1, <2>5 DEF Becomes, TypeOK
  <2>6. JobInv(w, t)'
    <3>0. \A j : Becomes(w, t, j) => job'[w][t] = j
      BY DEF Becomes, TypeOK
    <3>1. CASE Route(w, t)
      <4>1. \/ /\ ~(kind[t].routable /\ kind[t].pullable)
               /\ job'[w][t] = [job[w][t] EXCEPT !.stage = "settle", !.verdict = "term"]
            \/ /\ kind[t].routable
               /\ kind[t].pullable \/ (kind[t].addressed /\ outbound[t])
               /\ job'[w][t] = [job[w][t] EXCEPT !.stage = "answer", !.push = outbound[t]]
            \/ job'[w][t] = [job[w][t] EXCEPT !.stage = "settle", !.verdict = "nak"]
        BY <3>0, <3>1 DEF Route, Unservable, Decide
      <4>2. kind' = kind /\ msg' = msg /\ sent' = sent /\ job[w][t].stage = "fetched"
        BY <3>1 DEF Route, Unservable
      <4> QED BY <2>1, <4>1, <4>2 DEF JobInv, Job
    <3>2. CASE Answer(w, t)
      <4>1. \/ /\ ~kind[t].authorised
               /\ job'[w][t] = [job[w][t] EXCEPT !.stage = "settle", !.verdict = "ack"]
            \/ /\ kind[t].authorised
               /\ job'[w][t] = [job[w][t] EXCEPT !.stage = "record", !.draft = tries[t] + 1]
            \/ job'[w][t] = [job[w][t] EXCEPT !.stage = "settle", !.verdict = "nak"]
        BY <3>0, <3>2 DEF Answer, MayBeAnswered, Decide
      <4>2. kind' = kind /\ msg' = msg /\ sent' = sent /\ job[w][t].stage = "answer"
        BY <3>2 DEF Answer, MayBeAnswered
      <4> QED BY <2>1, <4>1, <4>2 DEF JobInv, Job, Served
    <3>3. CASE Record(w, t)
      BY <3>3, <2>1 DEF Record, Inserted, Becomes, JobInv, Served, TypeOK, Job
    <3>4. CASE Deliver(w, t)
      <4>0. sent' = [sent EXCEPT ![t] = @ \cup {job[w][t].draft}] => sent'[t] # {}
        BY DEF TypeOK
      <4>1. \/ /\ \/ blank[t] # {}
                  \/ ~(job[w][t].push /\ kind[t].addressed)
                  \/ sent'[t] # {}
               /\ job'[w][t] = [job[w][t] EXCEPT !.stage = "settle", !.verdict = "ack"]
            \/ job'[w][t] = [job[w][t] EXCEPT !.stage = "settle", !.verdict = "nak"]
        <5>1. \/ /\ \/ blank[t] # {}
                    \/ ~(job[w][t].push /\ kind[t].addressed)
                    \/ sent'[t] # {}
                 /\ Decide(w, t, "ack")
              \/ Decide(w, t, "nak")
          BY <3>4, <4>0, Zenon DEF Deliver
        <5> QED BY <3>0, <5>1, Zenon DEF Decide
      <4>2. kind' = kind /\ msg' = msg /\ blank' = blank /\ job[w][t].stage = "deliver"
        BY <3>4 DEF Deliver
      <4> QED BY <2>1, <4>1, <4>2 DEF JobInv, Job, Served
    <3>5. CASE Settle(w, t)
      BY <3>5, FreshJob DEF Settle, Becomes, TypeOK
    <3> QED BY <1>6, <3>1, <3>2, <3>3, <3>4, <3>5 DEF Handle
  <2>7. \A v \in Worker, u \in Task : JobInv(v, u)'
      BY <2>2, <2>3, <2>4, <2>5, <2>6, JobFrame
  <2>8. ASSUME NEW u \in Task PROVE TurnInv(u)'
    <3>1. CASE Route(w, t)
      BY <3>1 DEF Route, Unservable, TurnInv, Served
    <3>2. CASE Answer(w, t)
      BY <3>2 DEF Answer, MayBeAnswered, TurnInv, Served, TypeOK
    <3>3. CASE Record(w, t)
      BY <3>3, <2>1 DEF Record, Inserted, JobInv, TurnInv, Served, TypeOK
    <3>4. CASE Deliver(w, t)
      BY <3>4, <2>1 DEF Deliver, JobInv, TurnInv, Served, TypeOK
    <3>5. CASE Settle(w, t)
      BY <3>5, <2>1 DEF Settle, AfterVerdict, JobInv, TurnInv, Served, TypeOK, Job
    <3> QED BY <1>6, <3>1, <3>2, <3>3, <3>4, <3>5 DEF Handle
  <2> QED BY <2>7, <2>8
<1>7. CASE UNCHANGED vars
  <2>1. \A v \in Worker, u \in Task : JobInv(v, u)'
      BY <1>7 DEF vars, JobInv, Served
  <2>2. \A u \in Task : TurnInv(u)'
      BY <1>7 DEF vars, TurnInv, Served
  <2> QED BY <2>1, <2>2
<1> QED
    BY <1>1, <1>2, <1>3, <1>4, <1>5, <1>6, <1>7 DEF Next

-----------------------------------------------------------------------------
\* The invariant holds of every state of every behaviour.
THEOREM LaneInvariant == Spec => []LaneInv
<1>1. Init => LaneInv
    BY InitLane
<1>2. LaneInv /\ [Next]_vars => LaneInv'
    BY LaneStep
<1> QED BY <1>1, <1>2, PTL DEF Spec

\* Type correctness of the answering lane.
THEOREM LaneTyped == Spec => []TypeOK
<1>1. LaneInv => TypeOK
    BY DEF LaneInv
<1> QED BY <1>1, LaneInvariant, PTL

\* No acknowledgement ever swallows a reply: an acked turn was served, whatever
\* replicas died, whatever was redelivered and to whom.
THEOREM NoAckWithoutService == Spec => []AckedIsServed
<1>1. LaneInv => AckedIsServed
    BY DEF LaneInv, TurnInv, AckedIsServed
<1> QED BY <1>1, LaneInvariant, PTL

\* A routable turn of a pullable surface is never terminated unanswered.
THEOREM PullableNeverTerminated == Spec => []PullableIsAnswered
<1>1. LaneInv => PullableIsAnswered
    BY DEF LaneInv, TurnInv, PullableIsAnswered
<1> QED BY <1>1, LaneInvariant, PTL

\* An unauthorised sender leaves no trace in the memory and gets no reply.
THEOREM StrangersUnanswered == Spec => []StrangerGetsSilence
<1>1. LaneInv => StrangerGetsSilence
    BY DEF LaneInv, TurnInv, StrangerGetsSilence
<1> QED BY <1>1, LaneInvariant, PTL

\* Whatever is redelivered, to one replica or to several at once, the first
\* conversation row of a turn is the one that stays.
THEOREM RowNeverChanges == Spec => RecordedOnce
<1>1. ASSUME TypeOK, [Next]_vars, NEW u \in Task, recorded[u] # 0
      PROVE  recorded'[u] = recorded[u]
  <2>1. ASSUME NEW t \in Task, \/ Accept(t) \/ AckWait(t) \/ EditBinding(t)
        PROVE  recorded' = recorded
    BY <2>1 DEF Accept, AckWait, EditBinding
  <2>2. ASSUME NEW w \in Worker, \/ Fetch(w) \/ Abandon(w)
        PROVE  recorded' = recorded
    BY <2>2 DEF Fetch, Delivered, Abandon
  <2>3. ASSUME NEW w \in Worker, NEW t \in Task, Handle(w, t)
        PROVE  recorded'[u] = recorded[u]
    <3>1. CASE Record(w, t)
      BY <1>1, <3>1 DEF Record, Inserted, TypeOK
    <3>2. CASE ~Record(w, t)
      BY <2>3, <3>2 DEF Handle, Route, Unservable, Answer, Deliver, Settle
    <3> QED BY <3>1, <3>2
  <2>4. CASE UNCHANGED vars
    BY <2>4 DEF vars
  <2> QED BY <1>1, <2>1, <2>2, <2>3, <2>4 DEF Next
<1>2. TypeOK /\ [Next]_vars
         => [\A t \in Task : recorded[t] # 0 => recorded'[t] = recorded[t]]_vars
  BY <1>1
<1> QED BY <1>2, LaneTyped, PTL DEF Spec, RecordedOnce

-----------------------------------------------------------------------------
\* The lane starts where the contract starts.
LEMMA InitMaps == Init => Contract!CInit
BY DEF Init, Contract!CInit, TurnState

\* Only what the stream does to a message can move its turn.
LEMMA TurnMoves ==
    ASSUME TypeOK, NEW t \in Task, NEW m, msg' = [msg EXCEPT ![t] = m]
    PROVE  [u \in Task |-> TurnState(msg[u])]'
             = [[u \in Task |-> TurnState(msg[u])] EXCEPT ![t] = TurnState(m)]
BY DEF TypeOK

\* Every step of the lane is a step of the contract or leaves its view alone.
LEMMA StepMaps == LaneInv /\ [Next]_vars => [Contract!CNext]_(Contract!cvars)
<1> SUFFICES ASSUME LaneInv, [Next]_vars
             PROVE  Contract!CNext \/ UNCHANGED Contract!cvars
    OBVIOUS
<1> DEFINE turn == [u \in Task |-> TurnState(msg[u])]
<1>0. TypeOK
    BY DEF LaneInv
<1>1. ASSUME NEW t \in Task, Accept(t) PROVE Contract!CNext
  <2>1. turn' = [turn EXCEPT ![t] = "accepted"]
    <3>1. turn' = [turn EXCEPT ![t] = TurnState("ready")]
      BY <1>0, <1>1, TurnMoves DEF Accept
    <3> QED BY <3>1 DEF TurnState
  <2>2. turn[t] = "unknown"
    BY <1>1 DEF Accept, TurnState
  <2>3. Contract!CAccept(t)
    BY <1>1, <2>1, <2>2 DEF Accept, Contract!CAccept
  <2> QED BY <2>3 DEF Contract!CNext
<1>2. ASSUME NEW t \in Task, AckWait(t) PROVE UNCHANGED Contract!cvars
  <2>1. turn' = turn
    BY <1>0, <1>2 DEF AckWait, TurnState, TypeOK
  <2> QED BY <1>2, <2>1 DEF AckWait, Contract!cvars
<1>3. ASSUME NEW t \in Task, EditBinding(t) PROVE UNCHANGED Contract!cvars
  BY <1>3 DEF EditBinding, Contract!cvars
<1>4. ASSUME NEW w \in Worker, Fetch(w) PROVE UNCHANGED Contract!cvars
  <2>1. PICK S \in SUBSET {t \in Task : msg[t] = "ready"} :
           msg' = [t \in Task |-> IF t \in S THEN "pending" ELSE msg[t]]
    BY <1>4 DEF Fetch, Delivered
  <2>2. turn' = turn
    BY <1>0, <2>1 DEF TurnState, TypeOK
  <2> QED BY <1>4, <2>2 DEF Fetch, Delivered, Contract!cvars
<1>5. ASSUME NEW w \in Worker, Abandon(w) PROVE UNCHANGED Contract!cvars
  BY <1>5 DEF Abandon, Contract!cvars
<1>6. ASSUME NEW w \in Worker, NEW t \in Task, Handle(w, t)
      PROVE  Contract!CNext \/ UNCHANGED Contract!cvars
  <2>0. JobInv(w, t) /\ job[w][t] \in Job
    BY <1>0 DEF LaneInv, TypeOK
  <2>1. CASE Route(w, t)
    BY <2>1 DEF Route, Unservable, Contract!cvars
  <2>2. CASE Answer(w, t)
    <3> DEFINE mute == [u \in Task |-> blank[u] # {}]
    <3>1. kind' = kind /\ msg' = msg /\ sent' = sent /\ job[w][t].stage = "answer"
      BY <2>2 DEF Answer, MayBeAnswered
    <3>2. CASE blank' = blank
      BY <3>1, <3>2 DEF Contract!cvars
    <3>3. CASE blank' # blank
      <4>1. /\ kind[t].authorised
            /\ blank' = [blank EXCEPT ![t] = @ \cup {tries[t] + 1}]
        BY <2>2, <3>3, Zenon DEF Answer, MayBeAnswered
      <4>2. mute' = [mute EXCEPT ![t] = TRUE]
        BY <1>0, <4>1 DEF TypeOK
      <4>3. turn[t] # "unknown"
        BY <1>0, <2>0, <3>1 DEF JobInv, TurnState, TypeOK
      <4>4. Contract!CMute(t)
        BY <3>1, <4>1, <4>2, <4>3 DEF Contract!CMute
      <4> QED BY <4>4 DEF Contract!CNext
    <3> QED BY <3>2, <3>3
  <2>3. CASE Record(w, t)
    BY <2>3 DEF Record, Inserted, Contract!cvars
  <2>4. CASE Deliver(w, t)
    <3>1. kind' = kind /\ msg' = msg /\ blank' = blank /\ job[w][t].stage = "deliver"
      BY <2>4 DEF Deliver
    <3>2. CASE sent' = sent
      BY <3>1, <3>2 DEF Contract!cvars
    <3>3. CASE sent' # sent
      <4>1. /\ job[w][t].push /\ kind[t].addressed
            /\ sent' = [sent EXCEPT ![t] = @ \cup {job[w][t].draft}]
        BY <2>4, <3>3, Zenon DEF Deliver
      <4>2. kind[t].authorised /\ msg[t] # "absent"
        BY <2>0, <3>1 DEF JobInv
      <4>3. ~kind[t].pullable
        BY <1>0, <4>1, LaneAssumption DEF TypeOK
      <4>4. sent'[t] = sent[t] \cup {job[w][t].draft}
        BY <1>0, <4>1 DEF TypeOK
      <4>5. job[w][t].draft \notin sent[t]
        <5>1. SUFFICES ASSUME job[w][t].draft \in sent[t] PROVE FALSE
          OBVIOUS
        <5>2. sent[t] \cup {job[w][t].draft} = sent[t]
          BY <5>1
        <5> QED BY <1>0, <3>3, <4>1, <5>2 DEF TypeOK
      <4>6. \E a \in sent'[t] \ sent[t] : sent' = [sent EXCEPT ![t] = @ \cup {a}]
        BY <4>1, <4>4, <4>5
      <4>7. turn[t] # "unknown"
        BY <1>0, <4>2 DEF TurnState, TypeOK
      <4>8. Contract!CReply(t)
        BY <3>1, <4>1, <4>2, <4>3, <4>6, <4>7 DEF Contract!CReply
      <4> QED BY <4>8 DEF Contract!CNext
    <3> QED BY <3>2, <3>3
  <2>5. CASE Settle(w, t)
    <3>1. /\ kind' = kind /\ sent' = sent /\ blank' = blank
          /\ job[w][t].stage = "settle"
      BY <2>5 DEF Settle
    <3>2. msg' = msg \/ msg' = [msg EXCEPT ![t] = AfterVerdict(msg[t], job[w][t].verdict)]
      BY <2>5 DEF Settle
    <3>3. msg[t] # "absent"
      BY <2>0, <3>1 DEF JobInv
    <3>4. CASE msg' = msg
      BY <3>1, <3>4 DEF Contract!cvars
    <3>5. CASE msg' = [msg EXCEPT ![t] = AfterVerdict(msg[t], job[w][t].verdict)]
      <4> DEFINE m == AfterVerdict(msg[t], job[w][t].verdict)
      <4>1. turn' = [turn EXCEPT ![t] = TurnState(m)]
        BY <1>0, <3>5, TurnMoves
      <4>2. CASE TurnState(m) = turn[t]
        <5>1. turn' = turn
          BY <4>1, <4>2
        <5> QED BY <3>1, <5>1 DEF Contract!cvars
      <4>3. CASE TurnState(m) # turn[t]
        <5>1. /\ turn[t] = "accepted"
              /\ \/ m = "acked"  /\ job[w][t].verdict = "ack"
                 \/ m = "termed" /\ job[w][t].verdict = "term"
          <6>1. turn[t] = TurnState(msg[t])
            OBVIOUS
          <6>2. msg[t] \in {"ready", "pending"}
            <7>1. msg[t] \notin {"ready", "pending"} => m = msg[t]
              BY DEF AfterVerdict
            <7>2. msg[t] \in {"absent", "ready", "pending", "acked", "termed"}
              BY <1>0 DEF TypeOK
            <7> QED BY <4>3, <6>1, <7>1, <7>2
          <6>3. turn[t] = "accepted"
            BY <6>1, <6>2 DEF TurnState
          <6>4. \/ m = "acked"  /\ job[w][t].verdict = "ack"
                \/ m = "termed" /\ job[w][t].verdict = "term"
                \/ m = "ready"
            BY <6>2 DEF AfterVerdict
          <6>5. m # "ready"
            BY <4>3, <6>3 DEF TurnState
          <6> QED BY <6>3, <6>4, <6>5
        <5>2. CASE m = "acked" /\ job[w][t].verdict = "ack"
          <6>1. Contract!Served(t)
            BY <2>0, <3>1, <5>2 DEF JobInv, Served, Contract!Served
          <6>2. turn' = [turn EXCEPT ![t] = "done"]
            BY <4>1, <5>2 DEF TurnState
          <6>3. Contract!CDone(t)
            BY <3>1, <5>1, <6>1, <6>2 DEF Contract!CDone
          <6> QED BY <6>3 DEF Contract!CNext
        <5>3. CASE m = "termed" /\ job[w][t].verdict = "term"
          <6>1. ~(kind[t].routable /\ kind[t].pullable)
            BY <2>0, <3>1, <5>3 DEF JobInv
          <6>2. turn' = [turn EXCEPT ![t] = "dropped"]
            BY <4>1, <5>3 DEF TurnState
          <6>3. Contract!CDrop(t)
            BY <3>1, <5>1, <6>1, <6>2 DEF Contract!CDrop
          <6> QED BY <6>3 DEF Contract!CNext
        <5> QED BY <5>1, <5>2, <5>3
      <4> QED BY <4>2, <4>3
    <3> QED BY <3>2, <3>4, <3>5
  <2> QED BY <1>6, <2>1, <2>2, <2>3, <2>4, <2>5 DEF Handle
<1>7. CASE UNCHANGED vars
  BY <1>7 DEF vars, Contract!cvars
<1> QED
  BY <1>1, <1>2, <1>3, <1>4, <1>5, <1>6, <1>7 DEF Next

\* The lane, with its queue, its replicas and their failures, implements the
\* contract the customer is given: see TurnContract.
THEOREM LaneKeepsContract == Spec => KeepsTheContract
<1>1. Init => Contract!CInit
    BY InitMaps
<1>2. LaneInv /\ [Next]_vars => [Contract!CNext]_(Contract!cvars)
    BY StepMaps
<1> QED
    BY <1>1, <1>2, LaneInvariant, PTL DEF Spec, KeepsTheContract, Contract!CSpec

-----------------------------------------------------------------------------
(* Without failures: one replica holds a turn, and what it has done so far *)
(* is what its stage says.                                                 *)

Exact(t) == /\ sent[t] \subseteq {recorded[t]} \ {0}
            /\ facts[t] = (IF recorded[t] = 0 THEN 0 ELSE 1)

CleanJob(w, t) ==
    LET j == job[w][t]
    IN  /\ j.stage \in {"fetched", "answer", "record"} => recorded[t] = 0
        /\ j.stage = "record"  => j.draft # 0
        /\ j.stage = "deliver" => j.draft # 0 /\ recorded[t] = j.draft
        /\ j.stage = "settle"  => j.verdict \in {"ack", "term"}

CleanTurn(t) ==
    /\ msg[t] = "pending" <=> \E w \in Worker : job[w][t].stage # "none"
    /\ \A v, w \in Worker : job[v][t].stage # "none" /\ job[w][t].stage # "none" => v = w
    /\ msg[t] \in {"absent", "ready"} => recorded[t] = 0
    /\ \A w \in Worker : CleanJob(w, t)
    /\ Exact(t)

CleanInv == faults = 0 => \A t \in Task : CleanTurn(t)

\* A turn nobody touches stays as clean as it was.
LEMMA CleanFrame ==
    ASSUME NEW t \in Task, CleanTurn(t),
           \A w \in Worker : job'[w][t] = job[w][t],
           msg'[t] = msg[t], recorded'[t] = recorded[t], facts'[t] = facts[t],
           sent'[t] = sent[t]
    PROVE  CleanTurn(t)'
BY DEF CleanTurn, CleanJob, Exact

\* Handling one turn in one replica leaves the others and every other turn alone.
LEMMA HandleFrame ==
    ASSUME TypeOK, NEW w \in Worker, NEW t \in Task, Handle(w, t)
    PROVE  /\ \A v \in Worker, u \in Task : <<v, u>> # <<w, t>> => job'[v][u] = job[v][u]
           /\ \A u \in Task : u # t => /\ msg'[u] = msg[u] /\ tries'[u] = tries[u]
                                       /\ recorded'[u] = recorded[u] /\ facts'[u] = facts[u]
                                       /\ sent'[u] = sent[u]
<1>1. \E j : Becomes(w, t, j)
    BY DEF Handle, Route, Unservable, Answer, MayBeAnswered, Record, Inserted, Deliver, Settle, Decide
<1>2. \A v \in Worker, u \in Task : <<v, u>> # <<w, t>> => job'[v][u] = job[v][u]
    BY <1>1 DEF Becomes, TypeOK
<1>3. ASSUME NEW u \in Task, u # t
      PROVE  /\ msg'[u] = msg[u] /\ tries'[u] = tries[u]
             /\ recorded'[u] = recorded[u] /\ facts'[u] = facts[u] /\ sent'[u] = sent[u]
  <2>1. CASE Route(w, t)
    BY <2>1 DEF Route
  <2>2. CASE Answer(w, t)
    BY <1>3, <2>2 DEF Answer, TypeOK
  <2>3. CASE Record(w, t)
    BY <1>3, <2>3 DEF Record, TypeOK
  <2>4. CASE Deliver(w, t)
    BY <1>3, <2>4 DEF Deliver, TypeOK
  <2>5. CASE Settle(w, t)
    BY <1>3, <2>5 DEF Settle, TypeOK
  <2> QED BY <2>1, <2>2, <2>3, <2>4, <2>5 DEF Handle
<1> QED BY <1>2, <1>3

\* What the one replica that holds a turn makes of it, when nothing fails.
LEMMA CleanHandle ==
    ASSUME TypeOK, CleanInv, NEW w \in Worker, NEW t \in Task, Handle(w, t), faults' = 0
    PROVE  CleanTurn(t)'
<1>0. faults \in Nat /\ tries[t] \in Nat /\ job[w][t] \in Job
    BY LaneAssumption DEF TypeOK
<1>1. ~Fault /\ faults = 0
  <2>1. ~Fault
      BY <1>0 DEF Fault
  <2>2. Fault \/ UNCHANGED faults
      BY DEF Handle, Route, Answer, Record, Deliver, Settle
  <2> QED BY <2>1, <2>2
<1>2. CleanTurn(t) /\ CleanJob(w, t)
    BY <1>1 DEF CleanInv, CleanTurn
<1>3. job[w][t].stage # "none"
    BY DEF Handle, Route, Answer, Record, Deliver, Settle
<1>4. msg[t] = "pending" /\ \A v \in Worker : v # w => job[v][t].stage = "none"
    BY <1>2, <1>3 DEF CleanTurn
<1>5. \A v \in Worker : v # w => job'[v][t].stage = "none"
    BY <1>4, HandleFrame
<1>6. \A j : Becomes(w, t, j) => job'[w][t] = j
    BY DEF Becomes, TypeOK
<1>7. \A v \in Worker : v # w => CleanJob(v, t)'
    BY <1>5 DEF CleanJob
\* It goes on with the turn, and has it to itself.
<1>8. ASSUME job'[w][t].stage # "none", msg'[t] = msg[t], CleanJob(w, t)', Exact(t)'
      PROVE  CleanTurn(t)'
  <2>1. (msg[t] = "pending" <=> \E v \in Worker : job[v][t].stage # "none")'
      BY <1>4, <1>8
  <2>2. (\A u, v \in Worker : job[u][t].stage # "none" /\ job[v][t].stage # "none" => u = v)'
      BY <1>5
  <2>3. (\A v \in Worker : CleanJob(v, t))'
      BY <1>7, <1>8
  <2> QED BY <1>4, <1>8, <2>1, <2>2, <2>3 DEF CleanTurn
<1>9. CASE Route(w, t)
  <2>1. /\ UNCHANGED <<msg, tries, recorded, facts, sent>> /\ job[w][t].stage = "fetched"
        /\ \/ job'[w][t] = [job[w][t] EXCEPT !.stage = "settle", !.verdict = "term"]
           \/ job'[w][t] = [job[w][t] EXCEPT !.stage = "answer", !.push = outbound[t]]
      BY <1>1, <1>6, <1>9 DEF Route, Decide
  <2>2. CleanJob(w, t)' /\ job'[w][t].stage # "none"
      BY <1>0, <1>2, <2>1 DEF CleanJob, Job
  <2>3. Exact(t)'
      BY <1>2, <2>1 DEF CleanTurn, Exact
  <2> QED BY <1>8, <2>1, <2>2, <2>3
<1>10. CASE Answer(w, t)
  <2>1. /\ UNCHANGED <<msg, recorded, facts, sent>> /\ job[w][t].stage = "answer"
        /\ \/ /\ UNCHANGED tries
              /\ job'[w][t] = [job[w][t] EXCEPT !.stage = "settle", !.verdict = "ack"]
           \/ /\ tries'[t] = tries[t] + 1
              /\ job'[w][t] = [job[w][t] EXCEPT !.stage = "record", !.draft = tries[t] + 1]
      BY <1>1, <1>6, <1>10 DEF Answer, Decide, TypeOK
  <2>2. recorded[t] = 0
      BY <1>2, <2>1 DEF CleanJob, CleanTurn
  <2>3. CleanJob(w, t)' /\ job'[w][t].stage # "none"
    <3>1. recorded'[t] = 0 /\ tries[t] + 1 # 0
        BY <1>0, <2>1, <2>2
    <3>2. CASE job'[w][t] = [job[w][t] EXCEPT !.stage = "settle", !.verdict = "ack"]
        BY <1>0, <3>2 DEF CleanJob, Job
    <3>3. CASE job'[w][t] = [job[w][t] EXCEPT !.stage = "record", !.draft = tries[t] + 1]
        BY <1>0, <3>1, <3>3 DEF CleanJob, Job
    <3> QED BY <2>1, <3>2, <3>3
  <2>4. Exact(t)'
      BY <1>2, <2>1, <2>2 DEF CleanTurn, Exact
  <2> QED BY <1>8, <2>1, <2>3, <2>4
<1>11. CASE Record(w, t)
  <2>0. job[w][t].stage = "record" /\ recorded[t] = 0 /\ job[w][t].draft # 0
      BY <1>2, <1>11 DEF Record, CleanJob
  <2>1. /\ UNCHANGED <<msg, tries, sent>>
        /\ facts'[t] = facts[t] + 1 /\ recorded'[t] = job[w][t].draft
        /\ job'[w][t] = [job[w][t] EXCEPT !.stage = "deliver"]
      BY <1>1, <1>6, <1>11, <2>0 DEF Record, Inserted, TypeOK
  <2>2. CleanJob(w, t)' /\ job'[w][t].stage # "none"
      BY <1>0, <2>0, <2>1 DEF CleanJob, Job
  <2>3. sent[t] = {} /\ facts[t] = 0
      BY <1>2, <2>0 DEF CleanTurn, Exact
  <2>4. Exact(t)'
      BY <2>0, <2>1, <2>3 DEF Exact
  <2> QED BY <1>8, <2>1, <2>2, <2>4
<1>12. CASE Deliver(w, t)
  <2>0. job[w][t].stage = "deliver" /\ recorded[t] # 0 /\ job[w][t].draft = recorded[t]
      BY <1>2, <1>12 DEF Deliver, CleanJob
  <2>1. /\ UNCHANGED <<msg, tries, recorded, facts>>
        /\ sent'[t] \in {sent[t], sent[t] \cup {job[w][t].draft}}
        /\ job'[w][t] = [job[w][t] EXCEPT !.stage = "settle", !.verdict = "ack"]
      BY <1>1, <1>6, <1>12 DEF Deliver, Decide, TypeOK
  <2>2. CleanJob(w, t)' /\ job'[w][t].stage # "none"
      BY <1>0, <2>1 DEF CleanJob, Job
  <2>3. Exact(t)'
      BY <1>2, <2>0, <2>1 DEF CleanTurn, Exact
  <2> QED BY <1>8, <2>1, <2>2, <2>3
<1>13. CASE Settle(w, t)
  <2>1. /\ UNCHANGED <<tries, recorded, facts, sent>> /\ job'[w][t] = NoJob
        /\ msg'[t] = AfterVerdict(msg[t], job[w][t].verdict)
        /\ job[w][t].verdict \in {"ack", "term"}
      BY <1>1, <1>2, <1>6, <1>13 DEF Settle, TypeOK, CleanJob
  <2>2. msg'[t] \in {"acked", "termed"}
      BY <1>4, <2>1 DEF AfterVerdict
  <2>3. \A v \in Worker : job'[v][t].stage = "none"
      BY <1>5, <2>1 DEF NoJob
  <2>4. \A v \in Worker : CleanJob(v, t)'
      BY <2>3 DEF CleanJob
  <2>5. Exact(t)'
      BY <1>2, <2>1 DEF CleanTurn, Exact
  <2> QED BY <2>2, <2>3, <2>4, <2>5 DEF CleanTurn
<1> QED BY <1>9, <1>10, <1>11, <1>12, <1>13 DEF Handle

LEMMA CleanStep == TypeOK /\ CleanInv /\ [Next]_vars => CleanInv'
<1> SUFFICES ASSUME TypeOK, CleanInv, [Next]_vars, faults' = 0, NEW u \in Task
             PROVE  CleanTurn(u)'
    BY DEF CleanInv
<1>0. faults \in Nat /\ ~Fault
    BY LaneAssumption DEF TypeOK, Fault
<1>1. ASSUME NEW t \in Task, Accept(t) PROVE CleanTurn(u)'
    BY <1>1 DEF Accept, CleanInv, CleanTurn, CleanJob, Exact, TypeOK
<1>2. ASSUME NEW t \in Task, AckWait(t) PROVE CleanTurn(u)'
  <2>1. Holders(t) = {} /\ msg[t] = "pending" /\ faults = 0
      BY <1>0, <1>2 DEF AckWait
  <2>2. CleanTurn(t)
      BY <2>1 DEF CleanInv
  <2> QED BY <2>1, <2>2 DEF CleanTurn, Holders
<1>3. ASSUME NEW t \in Task, EditBinding(t) PROVE CleanTurn(u)'
    BY <1>3, CleanFrame DEF EditBinding, CleanInv
<1>4. ASSUME NEW w \in Worker, Fetch(w) PROVE CleanTurn(u)'
  <2>1. PICK S \in SUBSET {t \in Task : msg[t] = "ready"} :
           /\ msg' = [t \in Task |-> IF t \in S THEN "pending" ELSE msg[t]]
           /\ job' = [job EXCEPT ![w] = [t \in Task |-> IF t \in S THEN Fetched ELSE NoJob]]
      BY <1>4 DEF Fetch, Delivered
  <2>2. UNCHANGED <<tries, recorded, facts, sent, faults>> /\ job[w][u].stage = "none"
      BY <1>4 DEF Fetch, Idle
  <2>3. CleanTurn(u)
      BY <2>2 DEF CleanInv
  <2>4. /\ \A v \in Worker : v # w => job'[v][u] = job[v][u]
        /\ job'[w][u] = IF u \in S THEN Fetched ELSE NoJob
      BY <2>1 DEF TypeOK
  <2>5. CASE u \in S
    <3>1. \A v \in Worker : v # w => job'[v][u].stage = "none"
        BY <2>1, <2>3, <2>4, <2>5 DEF CleanTurn
    <3>2. job'[w][u].stage = "fetched" /\ msg'[u] = "pending" /\ recorded'[u] = 0
        BY <2>1, <2>2, <2>3, <2>4, <2>5 DEF Fetched, CleanTurn
    <3>3. \A v \in Worker : CleanJob(v, u)'
        BY <3>1, <3>2 DEF CleanJob
    <3> QED BY <2>2, <2>3, <3>1, <3>2, <3>3 DEF CleanTurn, Exact
  <2>6. CASE u \notin S
    <3>1. job'[w][u].stage = "none" /\ msg'[u] = msg[u]
        BY <2>1, <2>4, <2>6 DEF NoJob
    <3>2. \A v \in Worker : CleanJob(v, u)'
        BY <2>2, <2>3, <2>4, <3>1 DEF CleanTurn, CleanJob
    <3>3. \A v \in Worker : job'[v][u].stage = job[v][u].stage
        BY <2>2, <2>4, <3>1
    <3> QED BY <2>2, <2>3, <3>1, <3>2, <3>3 DEF CleanTurn, Exact
  <2> QED BY <2>5, <2>6
<1>5. ASSUME NEW w \in Worker, Abandon(w) PROVE CleanTurn(u)'
    BY <1>0, <1>5 DEF Abandon
<1>6. ASSUME NEW w \in Worker, NEW t \in Task, Handle(w, t) PROVE CleanTurn(u)'
  <2>1. CASE u = t
      BY <1>6, <2>1, CleanHandle
  <2>2. CASE u # t
    <3>1. faults = 0
        BY <1>0, <1>6 DEF Handle, Route, Answer, Record, Deliver, Settle
    <3>2. CleanTurn(u)
        BY <3>1 DEF CleanInv
    <3> QED BY <1>6, <2>2, <3>2, HandleFrame, CleanFrame
  <2> QED BY <2>1, <2>2
<1>7. CASE UNCHANGED vars
    BY <1>7, CleanFrame DEF vars, CleanInv
<1> QED
    BY <1>1, <1>2, <1>3, <1>4, <1>5, <1>6, <1>7 DEF Next

\* As long as nothing fails, the conversation table is what the customer heard.
THEOREM CleanRunsAreExact == Spec => []CleanRunIsExact
<1>1. Init => CleanInv
    BY DEF Init, CleanInv, CleanTurn, CleanJob, Exact, NoJob
<1>2. TypeOK /\ CleanInv /\ [Next]_vars => CleanInv'
    BY CleanStep
<1>3. CleanInv => CleanRunIsExact
    BY DEF CleanInv, CleanTurn, Exact, CleanRunIsExact
<1> QED BY <1>1, <1>2, <1>3, LaneTyped, PTL DEF Spec

-----------------------------------------------------------------------------
(* What each further answer is paid for with: the answers a turn has had,  *)
(* those its holders may still give it, and the delivery it is owed.       *)

Ahead(t) == {w \in Worker : \/ job[w][t].stage \in {"fetched", "answer"}
                            \/ job[w][t].stage = "settle" /\ job[w][t].verdict = "nak"}

Owed(t) == IF \/ msg[t] \in {"absent", "ready"}
              \/ msg[t] = "pending" /\ \A w \in Worker : job[w][t].stage = "none"
           THEN 1 ELSE 0

PaidTurn(t) == /\ tries[t] + Cardinality(Ahead(t)) + Owed(t) <= 1 + faults
               /\ \A w \in Worker : job[w][t].stage = "settle" => job[w][t].verdict # "none"

PaidInv == \A t \in Task : PaidTurn(t)

\* One replica more or less, in a set of them.
LEMMA OneReplica ==
    ASSUME NEW S, S \subseteq Worker, NEW w \in Worker
    PROVE  /\ Cardinality(S) \in Nat
           /\ Cardinality(S \cup {w}) = IF w \in S THEN Cardinality(S) ELSE Cardinality(S) + 1
           /\ Cardinality(S \ {w}) = IF w \in S THEN Cardinality(S) - 1 ELSE Cardinality(S)
<1>1. IsFiniteSet(S)
    BY LaneAssumption, FS_Subset
<1> QED BY <1>1, FS_AddElement, FS_RemoveElement, FS_CardinalityType

\* One replica moves: the others' chances stay, and its own comes, goes or
\* stays as its new job says.
LEMMA AheadMoves ==
    ASSUME NEW w \in Worker, NEW t \in Task,
           \A v \in Worker : v # w => job'[v][t] = job[v][t]
    PROVE  /\ Cardinality(Ahead(t)) \in Nat
           /\ Cardinality(Ahead(t)') = Cardinality(Ahead(t))
                 + (IF w \in Ahead(t)' THEN 1 ELSE 0) - (IF w \in Ahead(t) THEN 1 ELSE 0)
<1>1. Ahead(t) \subseteq Worker /\ Ahead(t)' \subseteq Worker
    BY DEF Ahead
<1>2. \A v \in Worker : v # w => (v \in Ahead(t) <=> v \in Ahead(t)')
    BY DEF Ahead
<1>3. /\ Cardinality(Ahead(t)) \in Nat
      /\ Cardinality(Ahead(t) \cup {w}) = IF w \in Ahead(t) THEN Cardinality(Ahead(t))
                                                          ELSE Cardinality(Ahead(t)) + 1
      /\ Cardinality(Ahead(t) \ {w}) = IF w \in Ahead(t) THEN Cardinality(Ahead(t)) - 1
                                                       ELSE Cardinality(Ahead(t))
    BY <1>1, OneReplica
<1>4. CASE w \in Ahead(t)'
  <2>1. Ahead(t)' = Ahead(t) \cup {w}
      BY <1>1, <1>2, <1>4
  <2>2. Cardinality(Ahead(t)') = Cardinality(Ahead(t) \cup {w})
      BY <2>1
  <2> QED BY <1>3, <1>4, <2>2
<1>5. CASE w \notin Ahead(t)'
  <2>1. Ahead(t)' = Ahead(t) \ {w}
      BY <1>1, <1>2, <1>5
  <2>2. Cardinality(Ahead(t)') = Cardinality(Ahead(t) \ {w})
      BY <2>1
  <2> QED BY <1>3, <1>5, <2>2
<1> QED BY <1>4, <1>5

\* The sums of PaidTurn are sums of numbers.
LEMMA PaidNumbers ==
    ASSUME TypeOK, NEW t \in Task
    PROVE  /\ tries[t] \in Nat /\ faults \in Nat
           /\ Cardinality(Ahead(t)) \in Nat
           /\ Owed(t) \in {0, 1} /\ Owed(t)' \in {0, 1}
<1>1. Ahead(t) \subseteq Worker /\ IsFiniteSet(Worker)
    BY LaneAssumption DEF Ahead
<1>2. Cardinality(Ahead(t)) \in Nat
    BY <1>1, FS_Subset, FS_CardinalityType
<1> QED BY <1>2, LaneAssumption DEF TypeOK, Owed

\* A turn nobody touches stays paid for, whatever fails elsewhere.
LEMMA PaidFrame ==
    ASSUME TypeOK, NEW t \in Task, PaidTurn(t), \A w \in Worker : job'[w][t] = job[w][t],
           msg'[t] = msg[t], tries'[t] = tries[t], faults' = faults \/ faults' = faults + 1
    PROVE  PaidTurn(t)'
<1>1. Ahead(t)' = Ahead(t) /\ Owed(t)' = Owed(t)
    BY DEF Ahead, Owed
<1> QED BY <1>1, PaidNumbers DEF PaidTurn

\* One replica moves on with a turn it keeps: no delivery comes or goes.
LEMMA OwedStays ==
    ASSUME NEW w \in Worker, NEW t \in Task, msg'[t] = msg[t],
           job[w][t].stage # "none", job'[w][t].stage # "none"
    PROVE  Owed(t)' = Owed(t)
BY DEF Owed

LEMMA PaidHandle ==
    ASSUME TypeOK, NEW w \in Worker, NEW t \in Task, PaidTurn(t), Handle(w, t)
    PROVE  PaidTurn(t)'
<1>0. job[w][t] \in Job
    BY DEF TypeOK
<1>1. \A v \in Worker : v # w => job'[v][t] = job[v][t]
    BY HandleFrame
<1>2. \A j : Becomes(w, t, j) => job'[w][t] = j
    BY DEF Becomes, TypeOK
<1>3. \A v \in Worker : v # w /\ job'[v][t].stage = "settle" => job'[v][t].verdict # "none"
    BY <1>1 DEF PaidTurn
<1> DEFINE here   == IF w \in Ahead(t) THEN 1 ELSE 0
           after  == IF w \in Ahead(t)' THEN 1 ELSE 0
\* What its move costs is paid for by a failure of its own, or costs nothing.
<1>4. ASSUME tries'[t] + after + Owed(t)' + faults <= tries[t] + here + Owed(t) + faults',
             tries'[t] \in Nat, faults' \in Nat,
             job'[w][t].stage = "settle" => job'[w][t].verdict # "none"
      PROVE  PaidTurn(t)'
  <2>1. Cardinality(Ahead(t)') = Cardinality(Ahead(t)) + after - here
      BY <1>1, AheadMoves
  <2>2. tries[t] + Cardinality(Ahead(t)) + Owed(t) <= 1 + faults
      BY DEF PaidTurn
  <2>3. tries'[t] + Cardinality(Ahead(t)') + Owed(t)' <= 1 + faults'
      BY <1>4, <2>1, <2>2, PaidNumbers
  <2> QED BY <1>3, <1>4, <2>3 DEF PaidTurn
<1>5. w \in Ahead(t) <=> \/ job[w][t].stage \in {"fetched", "answer"}
                         \/ job[w][t].stage = "settle" /\ job[w][t].verdict = "nak"
    BY DEF Ahead
<1>6. w \in Ahead(t)' <=> \/ job'[w][t].stage \in {"fetched", "answer"}
                          \/ job'[w][t].stage = "settle" /\ job'[w][t].verdict = "nak"
    BY DEF Ahead
<1>7. CASE Route(w, t)
  <2>1. /\ UNCHANGED <<msg, tries>> /\ job[w][t].stage = "fetched"
        /\ \/ /\ job'[w][t] = [job[w][t] EXCEPT !.stage = "settle", !.verdict = "term"]
              /\ faults' = faults
           \/ /\ job'[w][t] = [job[w][t] EXCEPT !.stage = "answer", !.push = outbound[t]]
              /\ faults' = faults
           \/ /\ job'[w][t] = [job[w][t] EXCEPT !.stage = "settle", !.verdict = "nak"]
              /\ faults' = faults + 1
      BY <1>2, <1>7 DEF Route, Decide, Fault
  <2>2. /\ job'[w][t].stage \in {"settle", "answer"}
        /\ job'[w][t].stage = "settle" => job'[w][t].verdict # "none"
      BY <1>0, <2>1 DEF Job
  <2>3. Owed(t)' = Owed(t)
      BY <2>1, <2>2, OwedStays
  <2>4. here = 1 /\ after \in {0, 1}
      BY <1>5, <2>1
  <2> QED BY <1>4, <2>1, <2>2, <2>3, <2>4, PaidNumbers
<1>8. CASE Answer(w, t)
  <2>1. /\ UNCHANGED msg /\ job[w][t].stage = "answer"
        /\ \/ /\ job'[w][t] = [job[w][t] EXCEPT !.stage = "settle", !.verdict = "ack"]
              /\ faults' = faults /\ tries'[t] = tries[t]
           \/ /\ job'[w][t] = [job[w][t] EXCEPT !.stage = "record", !.draft = tries[t] + 1]
              /\ faults' = faults /\ tries'[t] = tries[t] + 1
           \/ /\ job'[w][t] = [job[w][t] EXCEPT !.stage = "settle", !.verdict = "nak"]
              /\ faults' = faults + 1 /\ tries'[t] = tries[t]
      BY <1>2, <1>8 DEF Answer, Decide, Fault, TypeOK
  <2>2. /\ job'[w][t].stage \in {"settle", "record"}
        /\ job'[w][t].stage = "settle" => job'[w][t].verdict # "none"
        /\ tries'[t] # tries[t] => job'[w][t].stage = "record"
      BY <1>0, <2>1 DEF Job
  <2>3. Owed(t)' = Owed(t)
      BY <2>1, <2>2, OwedStays
  <2>4. /\ here = 1 /\ after \in {0, 1}
        /\ tries'[t] # tries[t] => after = 0
      BY <1>5, <1>6, <2>1, <2>2
  <2> QED BY <1>4, <2>1, <2>2, <2>3, <2>4, PaidNumbers
<1>9. CASE Record(w, t)
  <2>1. /\ UNCHANGED <<msg, tries>> /\ job[w][t].stage = "record"
        /\ job'[w][t] = [job[w][t] EXCEPT !.stage = "deliver"]
        /\ faults' = faults \/ faults' = faults + 1
      BY <1>2, <1>9 DEF Record, Fault
  <2>2. job'[w][t].stage = "deliver"
      BY <1>0, <2>1 DEF Job
  <2>3. Owed(t)' = Owed(t)
      BY <2>1, <2>2, OwedStays
  <2>4. here = 0 /\ after = 0
      BY <1>5, <1>6, <2>1, <2>2
  <2> QED BY <1>4, <2>1, <2>2, <2>3, <2>4, PaidNumbers
<1>10. CASE Deliver(w, t)
  <2>1. /\ UNCHANGED <<msg, tries>> /\ job[w][t].stage = "deliver"
        /\ \/ /\ job'[w][t] = [job[w][t] EXCEPT !.stage = "settle", !.verdict = "ack"]
              /\ faults' = faults
           \/ /\ job'[w][t] = [job[w][t] EXCEPT !.stage = "settle", !.verdict = "nak"]
              /\ faults' = faults + 1
      BY <1>2, <1>10 DEF Deliver, Decide, Fault
  <2>2. /\ job'[w][t].stage = "settle"
        /\ \/ job'[w][t].verdict = "ack" /\ faults' = faults
           \/ job'[w][t].verdict = "nak" /\ faults' = faults + 1
    <3>1. CASE /\ job'[w][t] = [job[w][t] EXCEPT !.stage = "settle", !.verdict = "ack"]
               /\ faults' = faults
        BY <1>0, <3>1 DEF Job
    <3>2. CASE /\ job'[w][t] = [job[w][t] EXCEPT !.stage = "settle", !.verdict = "nak"]
               /\ faults' = faults + 1
        BY <1>0, <3>2 DEF Job
    <3> QED BY <2>1, <3>1, <3>2
  <2>3. Owed(t)' = Owed(t)
      BY <2>1, <2>2, OwedStays
  <2>4. /\ here = 0
        /\ \/ after = 0 /\ faults' = faults
           \/ after \in {0, 1} /\ faults' = faults + 1
      BY <1>5, <1>6, <2>1, <2>2
  <2> QED BY <1>4, <2>1, <2>2, <2>3, <2>4, PaidNumbers
<1>11. CASE Settle(w, t)
  <2>1. /\ UNCHANGED tries /\ job[w][t].stage = "settle" /\ job'[w][t].stage = "none"
        /\ \/ /\ msg'[t] = AfterVerdict(msg[t], job[w][t].verdict)
              /\ faults' = faults
           \/ /\ msg'[t] = msg[t]
              /\ faults' = faults + 1
      BY <1>2, <1>11 DEF Settle, NoJob, Fault, TypeOK
  <2>2. after = 0 /\ (here = 1 <=> job[w][t].verdict = "nak")
      BY <1>5, <1>6, <2>1
  <2>3. CASE faults' = faults + 1 \/ job[w][t].verdict = "nak"
      BY <1>4, <2>1, <2>2, <2>3, PaidNumbers
  <2>4. CASE faults' = faults /\ job[w][t].verdict \in {"ack", "term"}
    <3>1. Owed(t)' <= Owed(t)
      <4>1. msg'[t] = AfterVerdict(msg[t], job[w][t].verdict)
          BY <2>1, <2>4, PaidNumbers
      <4>2. \/ msg'[t] \in {"acked", "termed"}
            \/ msg'[t] = msg[t] /\ msg[t] \notin {"ready", "pending"}
          BY <2>4, <4>1 DEF AfterVerdict
      <4>3. CASE msg'[t] \in {"acked", "termed"}
          BY <4>3, PaidNumbers DEF Owed
      <4>4. CASE msg'[t] = msg[t] /\ msg[t] \notin {"ready", "pending"}
        <5>1. /\ Owed(t) = IF msg[t] = "absent" THEN 1 ELSE 0
              /\ Owed(t)' = IF msg'[t] = "absent" THEN 1 ELSE 0
            BY <4>4, Zenon DEF Owed
        <5> QED BY <4>4, <5>1
      <4> QED BY <4>2, <4>3, <4>4
    <3> QED BY <1>4, <2>1, <2>2, <2>4, <3>1, PaidNumbers
  <2>5. job[w][t].verdict \in {"nak", "ack", "term"}
      BY <1>0, <2>1 DEF PaidTurn, Job
  <2> QED BY <2>1, <2>3, <2>4, <2>5
<1> QED BY <1>7, <1>8, <1>9, <1>10, <1>11 DEF Handle

LEMMA PaidStep == TypeOK /\ PaidInv /\ [Next]_vars => PaidInv'
<1> SUFFICES ASSUME TypeOK, PaidInv, [Next]_vars, NEW u \in Task
             PROVE  PaidTurn(u)'
    BY DEF PaidInv
<1>0. PaidTurn(u) /\ (Fault => faults' = faults + 1)
    BY DEF PaidInv, Fault
<1>1. ASSUME NEW t \in Task, Accept(t) PROVE PaidTurn(u)'
  <2>1. CASE u = t
    <3>1. Ahead(u)' = Ahead(u) /\ Owed(u) = 1
        BY <1>1, <2>1 DEF Accept, Ahead, Owed
    <3>2. \A w \in Worker : job'[w][u] = job[w][u]
        BY <1>1 DEF Accept
    <3> QED BY <1>0, <1>1, <3>1, <3>2, PaidNumbers DEF PaidTurn, Accept
  <2>2. CASE u # t
      BY <1>0, <1>1, <2>2, PaidFrame DEF Accept, TypeOK
  <2> QED BY <2>1, <2>2
<1>2. ASSUME NEW t \in Task, AckWait(t) PROVE PaidTurn(u)'
  <2>1. CASE u = t
    <3>1. Ahead(u)' = Ahead(u)
        BY <1>2 DEF AckWait, Ahead
    <3>2. Owed(u)' + faults <= Owed(u) + faults' /\ faults' \in Nat
      <4>1. CASE Holders(t) = {}
        <5>1. Owed(u) = 1 /\ faults' = faults
            BY <1>2, <2>1, <4>1 DEF AckWait, Owed, Holders
        <5> QED BY <5>1, PaidNumbers
      <4>2. CASE Holders(t) # {}
        <5>1. faults' = faults + 1
            BY <1>0, <1>2, <4>2 DEF AckWait
        <5> QED BY <5>1, PaidNumbers
      <4> QED BY <4>1, <4>2
    <3>3. \A w \in Worker : job'[w][u] = job[w][u]
        BY <1>2 DEF AckWait
    <3>4. tries'[u] = tries[u]
        BY <1>2 DEF AckWait
    <3> QED BY <1>0, <3>1, <3>2, <3>3, <3>4, PaidNumbers DEF PaidTurn
  <2>2. CASE u # t
      BY <1>0, <1>2, <2>2, PaidFrame DEF AckWait, TypeOK
  <2> QED BY <2>1, <2>2
<1>3. ASSUME NEW t \in Task, EditBinding(t) PROVE PaidTurn(u)'
    BY <1>0, <1>3, PaidFrame DEF EditBinding
<1>4. ASSUME NEW w \in Worker, Fetch(w) PROVE PaidTurn(u)'
  <2>1. PICK S \in SUBSET {t \in Task : msg[t] = "ready"} :
           /\ msg' = [t \in Task |-> IF t \in S THEN "pending" ELSE msg[t]]
           /\ job' = [job EXCEPT ![w] = [t \in Task |-> IF t \in S THEN Fetched ELSE NoJob]]
      BY <1>4 DEF Fetch, Delivered
  <2>2. UNCHANGED <<tries, faults>> /\ job[w][u].stage = "none"
      BY <1>4 DEF Fetch, Idle
  <2>3. /\ \A v \in Worker : v # w => job'[v][u] = job[v][u]
        /\ job'[w][u] = IF u \in S THEN Fetched ELSE NoJob
      BY <2>1 DEF TypeOK
  <2>4. \A v \in Worker : job'[v][u].stage = "settle" => job'[v][u].verdict # "none"
      BY <1>0, <2>3 DEF PaidTurn, Fetched, NoJob
  <2>5. w \notin Ahead(u)
      BY <2>2 DEF Ahead
  <2>6. CASE u \in S
    <3>1. w \in Ahead(u)'
        BY <2>3, <2>6 DEF Ahead, Fetched
    <3>2. Owed(u) = 1 /\ Owed(u)' = 0
      <4>1. msg[u] = "ready" /\ msg'[u] = "pending" /\ job'[w][u].stage = "fetched"
          BY <2>1, <2>3, <2>6 DEF Fetched
      <4> QED BY <4>1 DEF Owed
    <3> QED BY <1>0, <2>2, <2>3, <2>4, <2>5, <3>1, <3>2, AheadMoves, PaidNumbers DEF PaidTurn
  <2>7. CASE u \notin S
    <3>1. w \notin Ahead(u)' /\ job'[w][u].stage = "none" /\ msg'[u] = msg[u]
        BY <2>1, <2>3, <2>7 DEF Ahead, NoJob
    <3>2. Owed(u)' = Owed(u)
        BY <2>2, <2>3, <3>1 DEF Owed
    <3> QED BY <1>0, <2>2, <2>3, <2>4, <2>5, <3>1, <3>2, AheadMoves, PaidNumbers DEF PaidTurn
  <2> QED BY <2>6, <2>7
<1>5. ASSUME NEW w \in Worker, Abandon(w) PROVE PaidTurn(u)'
  <2>1. /\ \A v \in Worker : v # w => job'[v][u] = job[v][u]
        /\ job'[w][u] = NoJob /\ tries'[u] = tries[u] /\ faults' = faults + 1
      BY <1>0, <1>5 DEF Abandon, TypeOK
  <2>2. w \notin Ahead(u)'
      BY <2>1 DEF Ahead, NoJob
  <2>3. \A v \in Worker : job'[v][u].stage = "settle" => job'[v][u].verdict # "none"
      BY <1>0, <2>1 DEF PaidTurn, NoJob
  <2> QED BY <1>0, <2>1, <2>2, <2>3, AheadMoves, PaidNumbers DEF PaidTurn
<1>6. ASSUME NEW w \in Worker, NEW t \in Task, Handle(w, t) PROVE PaidTurn(u)'
  <2>1. CASE u = t
      BY <1>0, <1>6, <2>1, PaidHandle
  <2>2. CASE u # t
    <3>1. faults' = faults \/ faults' = faults + 1
        BY <1>0, <1>6 DEF Handle, Route, Answer, Record, Deliver, Settle
    <3> QED BY <1>0, <1>6, <2>2, <3>1, HandleFrame, PaidFrame
  <2> QED BY <2>1, <2>2
<1>7. CASE UNCHANGED vars
    BY <1>0, <1>7, PaidFrame DEF vars
<1> QED
    BY <1>1, <1>2, <1>3, <1>4, <1>5, <1>6, <1>7 DEF Next

\* Every answer after a turn's first has a failure of its own behind it.
THEOREM EveryRepeatIsPaidFor == Spec => []RepeatsArePaidFor
<1>1. Init => PaidInv
  <2> SUFFICES ASSUME Init, NEW t \in Task PROVE PaidTurn(t)
      BY DEF PaidInv
  <2>1. Ahead(t) = {}
      BY DEF Init, Ahead, NoJob
  <2>2. Cardinality(Ahead(t)) = 0
      BY <2>1, FS_EmptySet
  <2> QED BY <2>2 DEF Init, PaidTurn, Owed, NoJob
<1>2. TypeOK /\ PaidInv /\ [Next]_vars => PaidInv'
    BY PaidStep
<1>3. TypeOK /\ PaidInv => RepeatsArePaidFor
  <2> SUFFICES ASSUME TypeOK, PaidInv, NEW t \in Task PROVE tries[t] <= 1 + faults
      BY DEF RepeatsArePaidFor
  <2> QED BY PaidNumbers DEF PaidInv, PaidTurn
<1> QED BY <1>1, <1>2, <1>3, LaneTyped, PTL DEF Spec
=============================================================================
