---------------------------- MODULE ModelRouter ----------------------------
(***************************************************************************)
(* Answering one task with a model: Router.execute with its budget ledger, *)
(* retries and one repair, the tool loop of the provider client over the   *)
(* tool gateway, the reply judge on the verify lane, and the rendering of  *)
(* the lines the judge cleared.                                            *)
(*                                                                         *)
(*   consult ledger -> ask -> (tools)* -> charge -> parse -> judge -> lines*)
(*        |             ^---- timeout, 5xx, repair ----|                   *)
(*      queued                                                             *)
(*                                                                         *)
(* A process answers either one task at a time (the ingress worker) or one *)
(* per request thread (the webhook server); the ledger is one dict for all *)
(* of them, read and then written.  Money is counted in units.             *)
(*                                                                         *)
(* X_Something is a mutant of X: X with a plausible mistake in it.         *)
(***************************************************************************)
EXTENDS ToolGateway, Sequences

CONSTANTS
    Task,          \* tasks that reach answer_envelope
    Ask,           \* what a task can be: see AskKind
    Deployment,    \* how a process can be configured: see DeploymentKind
    Budget,        \* Budget[lane]: daily_budget_usd
    TaskCap,       \* TaskCap[lane]: max_cost_per_task_usd
    TimeoutCharge, \* timeout_charge_usd
    Price,         \* what one provider reply may cost
    JudgePrice,    \* what one judgement may cost
    MaxTimeouts,   \* max_retries_timeout
    MaxErrors,     \* max_retries_5xx
    MaxTurns,      \* OTTO_ROUTER_TOOL_MAX_TURNS
    Rows,          \* what the judge may answer: see RowKind
    Lines,         \* statements in a well-formed reply
    MaxRuns        \* bound: deliveries of one task to this process

Lane == {"judgment", "bulk", "verify", "deep"}

AskKind == [tier : Tiers, tainted : BOOLEAN, source : {"chat", "cron"},
            class : {"research", "code", "deep"}, complexity : {"low", "normal"}]

\* width: tasks in flight at once; toolset: OTTO_TOOLSETS; family: of the model
\* that serves each lane.
DeploymentKind == [width : Nat, toolset : SUBSET Tool, family : [Lane -> STRING]]

RowKind == Seq([i : Nat, clear : BOOLEAN])

ASSUME RouterAssumption ==
    /\ IsFiniteSet(Task)
    /\ Ask \subseteq AskKind
    /\ Deployment \subseteq DeploymentKind
    /\ Budget \in [Lane -> Nat] /\ TaskCap \in [Lane -> Nat]
    /\ TimeoutCharge \in Nat
    /\ Price \subseteq Nat /\ JudgePrice \subseteq Nat
    /\ \E p \in Price : \A q \in Price : q <= p
    /\ MaxTimeouts \in Nat /\ MaxErrors \in Nat
    /\ MaxTurns \in Nat \ {0} /\ MaxRuns \in Nat
    /\ Rows \subseteq RowKind
    /\ Lines \in Nat \ {0}

VARIABLES
    dep,    \* the deployment this process was started with
    boot,   \* "booting", "up" or "refused"
    ask,    \* ask[t]: the task
    call,   \* call[t]: the locals of answer_envelope and Router.execute
    lines,  \* lines[t]: the lines of t rendered without the marker
    spent,  \* spent[lane]: BudgetLedger._spent
    paid    \* paid[lane]: what was handed to charge() (an observation)

routerVars == <<dep, boot, ask, call, lines, spent, paid>>

Stages == {"new", "asking", "capped", "timedout", "replied", "completed", "judged",
           "silent", "queued", "needs_human", "malformed", "paused", "raised", "answered"}

Ended == {"silent", "queued", "needs_human", "malformed", "paused", "answered"}

\* How a tool call ended, whether a human approved it, and whether the gateway
\* wrote its audit event.
Entry == [tool : Tool, end : {"executed", "denied", "refused", "raised"},
          human : BOOLEAN, audited : BOOLEAN]
NoTool == [tool |-> Note, end |-> "none", human |-> FALSE, audited |-> FALSE]

\* cost: of the attempt so far; turns: of its tool loop; seen: the balance
\* a charge has read and not yet written; rows: what the judge said; tool: the
\* tool call just made.
Call == [stage : Stages, attempts : Nat, repaired : BOOLEAN, turns : Nat,
         cost : Nat, seen : Nat, runs : Nat,
         reply : {"none", "good", "contract", "malformed"}, rows : RowKind,
         tool : Entry \cup {NoTool}]

NoCall == [stage |-> "new", attempts |-> 0, repaired |-> FALSE, turns |-> 0,
           cost |-> 0, seen |-> 0, runs |-> 0,
           reply |-> "none", rows |-> << >>,
           tool |-> NoTool]

\* execute returns: of its locals only what the outcome carries is left.
Ends(c, stage) == [NoCall EXCEPT !.stage = stage, !.rows = c.rows, !.runs = c.runs]

RouterTypeOK ==
    /\ dep \in Deployment
    /\ boot \in {"booting", "up", "refused"}
    /\ ask \in [Task -> Ask]
    /\ call \in [Task -> Call]
    /\ lines \in [Task -> SUBSET (1..Lines)]
    /\ spent \in [Lane -> Nat]
    /\ paid \in [Lane -> Nat]

RouterInit ==
    /\ dep \in Deployment
    /\ boot = "booting"
    /\ ask \in [Task -> Ask]
    /\ call = [t \in Task |-> NoCall]
    /\ lines = [t \in Task |-> {}]
    /\ spent = [l \in Lane |-> 0]
    /\ paid = [l \in Lane |-> 0]

-----------------------------------------------------------------------------
(* Configuration and routing.                                              *)

\* BootProcess: build_registry, or BootRefused and the registry's own errors.
BootProcess ==
    /\ boot = "booting"
    /\ boot' = IF Boots(dep.toolset) THEN "up" ELSE "refused"
    /\ UNCHANGED <<dep, ask, call, lines, spent, paid>>

DistinctFamilies(d) ==
    /\ d.family["judgment"] # d.family["bulk"]
    /\ d.family["judgment"] # d.family["verify"]

\* RouterConfig.__post_init__: a model without a family, or two lanes that may
\* not share one, and there is no router at all.
ValidPolicy(d) ==
    /\ \A l \in Lane : d.family[l] # "unmapped"
    /\ DistinctFamilies(d)

\* The route table, most specific first, the default lane last.
Route(a) ==
    IF a.class = "deep" THEN "deep"
    ELSE IF a.source = "cron" THEN "bulk"
    ELSE IF a.class = "research" /\ a.complexity = "low" THEN "bulk"
    ELSE "judgment"

LaneOf(t)    == Route(ask[t])
Registry     == Wanted(dep.toolset)
Ceiling(t)   == Effective(ask[t].tier, ask[t].tainted)
ToolsFor(t)  == Offered(Registry, Ceiling(t))
\* BudgetLedger.exhausted.
Exhausted(l) == spent[l] >= Budget[l]

InFlight == {t \in Task : call[t].stage \notin Ended \cup {"new", "raised"}}

Becomes(t, c) == call' = [call EXCEPT ![t] = c]

-----------------------------------------------------------------------------
(* The head of answer_envelope and of execute.                             *)

Arrives(t) ==
    /\ boot = "up"
    /\ call[t].stage = "new"
    /\ Cardinality(InFlight) < dep.width
    /\ UNCHANGED <<dep, boot, ask, lines, spent, paid>>

Known(t) == Refusal(Registry, Note, TRUE, ask[t].tier, ask[t].tainted, "unwired") = "none"

\* The note tool is out of the sender's reach: no model, no reply.
Stranger(t) ==
    /\ Arrives(t)
    /\ ~Known(t)
    /\ Becomes(t, Ends(call[t], "silent"))

\* The lazily built router refuses its policy, on every message.
Unroutable(t) ==
    /\ Arrives(t)
    /\ Known(t)
    /\ ~ValidPolicy(dep)
    /\ Becomes(t, Ends(call[t], "raised"))

Queue(t) ==
    /\ Arrives(t)
    /\ Known(t)
    /\ ValidPolicy(dep)
    /\ Exhausted(LaneOf(t))
    /\ Becomes(t, Ends(call[t], "queued"))

Start(t) ==
    /\ Arrives(t)
    /\ Known(t)
    /\ ValidPolicy(dep)
    /\ ~Exhausted(LaneOf(t))
    /\ Becomes(t, [call[t] EXCEPT !.stage = "asking", !.attempts = 1])

-----------------------------------------------------------------------------
(* The provider's side of one attempt: LiteLLMClient.complete.             *)

Asking(t) ==
    /\ call[t].stage = "asking"
    /\ UNCHANGED <<dep, boot, ask, lines, spent, paid>>

\* The loop comes round: one more attempt, its tool loop and its tokens new.
Again(c) == [c EXCEPT !.stage = "asking", !.attempts = @ + 1, !.turns = 0,
                      !.cost = 0, !.seen = 0, !.reply = "none",
                      !.tool = NoTool]

\* The time limit ran out; the flat charge reads the balance.
TimesOut(t) ==
    /\ Asking(t)
    /\ Becomes(t, [call[t] EXCEPT !.stage = "timedout", !.cost = 0,
                                  !.seen = spent[LaneOf(t)], !.tool = NoTool])

\* A 5xx is not charged, whatever the rounds before it cost.
ServerError(t) ==
    /\ Asking(t)
    /\ Becomes(t, IF call[t].attempts <= MaxErrors
                  THEN Again(call[t])
                  ELSE Ends(call[t], "needs_human"))

EgressDenied(t) ==
    /\ Asking(t)
    /\ Becomes(t, Ends(call[t], "needs_human"))

\* What the gateway did with a call of the tool loop, whose envelope is minted
\* at the task's ceiling; handler: what the tool's handler would do.
Outcome(t, tool, valid, hook, handler) ==
    LET refusal == Refusal(Registry, tool, valid, Ceiling(t), Ceiling(t) < 2, hook)
        end     == IF refusal = "none" THEN handler ELSE "denied"
    IN [tool |-> tool, end |-> end, human |-> NeedsHuman(tool) /\ end # "denied",
        audited |-> end \in {"executed", "denied"}]

Entered(c, p) ==
    [c EXCEPT !.turns = @ + 1, !.cost = @ + p,
              !.stage = IF c.turns + 1 = MaxTurns THEN "capped" ELSE "asking"]

\* The model answers with a tool call.  An exception of the handler, other than
\* the shell's own refusal, leaves complete and execute: the task's handling
\* ends there, uncharged.
CallsTool(t, tool, valid, hook, handler, p) ==
    /\ Asking(t)
    /\ ToolsFor(t) # {}
    /\ handler = "refused" => tool = Terminal
    /\ LET entry == Outcome(t, tool, valid, hook, handler) IN
       Becomes(t, IF entry.end = "raised"
                  THEN Ends(call[t], "raised")
                  ELSE [Entered(call[t], p) EXCEPT !.tool = entry])

\* The model answers with text; a loop that ran into its limit hands back the
\* text that came with the last tool call.
Replies(t, reply, p) ==
    /\ call[t].stage \in {"asking", "capped"}
    /\ call[t].stage = "capped" => p = 0
    /\ Becomes(t, [call[t] EXCEPT !.stage = "replied", !.reply = reply,
                                  !.cost = @ + p, !.seen = spent[LaneOf(t)],
                                  !.tool = NoTool])
    /\ UNCHANGED <<dep, boot, ask, lines, spent, paid>>

-----------------------------------------------------------------------------
(* The ledger, and what execute makes of a reply.                          *)

\* BudgetLedger.charge: the sum of the balance read before and the amount.
Pay(l, seen, amount) ==
    /\ spent' = [spent EXCEPT ![l] = seen + amount]
    /\ paid' = [paid EXCEPT ![l] = @ + amount]

ChargeTimeout(t) ==
    /\ call[t].stage = "timedout"
    /\ Pay(LaneOf(t), call[t].seen, TimeoutCharge)
    /\ Becomes(t, IF call[t].attempts <= MaxTimeouts
                  THEN Again(call[t])
                  ELSE Ends(call[t], "needs_human"))
    /\ UNCHANGED <<dep, boot, ask, lines>>

Parsed_RepairsForEver(c, l) ==
    IF c.reply = "malformed" THEN [Again(c) EXCEPT !.repaired = TRUE]
    ELSE [c EXCEPT !.stage = IF c.cost > TaskCap[l] THEN "paused" ELSE "completed"]

\* A first malformed reply is asked to be repaired; a second one, or a repair
\* that recites the contract, is refused; a dear reply pauses the task.
Parsed(c, l) ==
    IF c.reply = "malformed" /\ ~c.repaired
      THEN [Again(c) EXCEPT !.repaired = TRUE]
    ELSE IF c.reply = "malformed" \/ (c.reply = "contract" /\ c.repaired)
      THEN Ends(c, "malformed")
    ELSE IF c.cost > TaskCap[l]
      THEN Ends(c, "paused")
    ELSE [Ends(c, "completed") EXCEPT !.attempts = c.attempts]

ChargeReply(t) ==
    /\ call[t].stage = "replied"
    /\ Pay(LaneOf(t), call[t].seen, call[t].cost)
    /\ Becomes(t, Parsed(call[t], LaneOf(t)))
    /\ UNCHANGED <<dep, boot, ask, lines>>

-----------------------------------------------------------------------------
(* The judge: one call on the verify lane over every line, or no verdict.  *)

\* The verify lane is spent, or its one call failed: every line is marked.
NoVerdict(t) ==
    /\ call[t].stage = "completed"
    /\ Becomes(t, Ends(call[t], "answered"))
    /\ UNCHANGED <<dep, boot, ask, lines, spent, paid>>

JudgeAnswers(t, rows, p) ==
    /\ call[t].stage = "completed"
    /\ ~Exhausted("verify")
    /\ Becomes(t, [call[t] EXCEPT !.stage = "judged", !.rows = rows, !.cost = p,
                                  !.seen = spent["verify"]])
    /\ UNCHANGED <<dep, boot, ask, lines, spent, paid>>

\* parse_verdicts and render_claims: a row for every line, in order, or none.
Cleared(rows) ==
    IF Len(rows) = Lines /\ \A k \in 1..Lines : rows[k].i = k
    THEN {k \in 1..Lines : rows[k].clear}
    ELSE {}

ChargeJudge(t) ==
    /\ call[t].stage = "judged"
    /\ Pay("verify", call[t].seen, call[t].cost)
    /\ lines' = [lines EXCEPT ![t] = Cleared(call[t].rows)]
    /\ Becomes(t, Ends(call[t], "answered"))
    /\ UNCHANGED <<dep, boot, ask>>

\* What raised is handed back to the stream, and everything starts over.
Redeliver(t) ==
    /\ call[t].stage = "raised"
    /\ call[t].runs < MaxRuns
    /\ Becomes(t, [NoCall EXCEPT !.runs = call[t].runs + 1])
    /\ UNCHANGED <<dep, boot, ask, lines, spent, paid>>

-----------------------------------------------------------------------------
Hooks    == {"unwired", "withheld", "approved"}
Handlers == {"executed", "refused", "raised"}

ToolTurn(t) ==
    \E tool \in Tool, valid \in BOOLEAN, hook \in Hooks, handler \in Handlers, p \in Price :
        CallsTool(t, tool, valid, hook, handler, p)

Reply(t) ==
    \E reply \in {"good", "contract", "malformed"}, p \in Price \cup {0} : Replies(t, reply, p)

Judged(t) == \E rows \in Rows, p \in JudgePrice : JudgeAnswers(t, rows, p)

\* Everything the thread that answers t does; what it waits for outside comes
\* back within its time limit, as an answer or as an exception.
Answering(t) ==
    \/ Stranger(t) \/ Unroutable(t) \/ Queue(t) \/ Start(t)
    \/ TimesOut(t) \/ ServerError(t) \/ EgressDenied(t) \/ ToolTurn(t) \/ Reply(t)
    \/ ChargeTimeout(t) \/ ChargeReply(t)
    \/ NoVerdict(t) \/ Judged(t) \/ ChargeJudge(t)

RouterNext ==
    \/ BootProcess
    \/ \E t \in Task : Answering(t) \/ Redeliver(t)

RouterSpec == RouterInit /\ [][RouterNext]_routerVars

-----------------------------------------------------------------------------
(* What must hold.                                                         *)

MaxOf(a, b) == IF a > b THEN a ELSE b

MaxAttempts == MaxOf(MaxTimeouts, MaxErrors) + 2

\* Timeouts, server errors and the repair share one counter: however they mix,
\* one handling of a task asks the provider at most MaxAttempts times, and each
\* of those runs the tool loop at most to its limit.
WorkIsBounded ==
    \A t \in Task : /\ call[t].attempts <= MaxAttempts
                    /\ call[t].turns <= MaxTurns

\* What a tool does, it does within the authority of whoever sent the task,
\* capped by taint, through the lane's filter, its fresh envelope and the
\* gateway; a tool that needs a human had one, or did not run.
RanWithAuthority ==
    \A t \in Task :
        call[t].tool.end = "executed" =>
            /\ TierOf[call[t].tool.tool] <= ask[t].tier
            /\ ask[t].tainted => TierOf[call[t].tool.tool] <= TaintCeiling
            /\ NeedsHuman(call[t].tool.tool) => call[t].tool.human
            /\ call[t].tool.audited

\* The ledger never shows more than was charged; and in a process that answers
\* one task at a time it shows exactly that.
LedgerKeepsAccount ==
    \A l \in Lane : /\ spent[l] <= paid[l]
                    /\ dep.width = 1 => spent[l] = paid[l]

\* The most one task may cost its lane: every attempt at the dearest.
Dearest        == CHOOSE p \in Price : \A q \in Price : q <= p
MostPerAttempt == MaxOf(TimeoutCharge, (MaxTurns + 1) * Dearest)
MostPerTask    == MaxAttempts * MostPerAttempt

\* The budget is asked once, before the attempts: with one task at a time a
\* lane overruns its budget by less than what one task, delivered as often as
\* it may be, can cost.
OverrunIsOneTask ==
    dep.width = 1 =>
        \A l \in Lane \ {"verify"} : paid[l] > 0 => paid[l] < Budget[l] + MostPerTask

\* A line loses its marker only by a row of the judge that is about that line,
\* in an answer that gives every line one; and the model that answered on the
\* judgment lane is never of the family that judged it.
ClearedByItsOwnVerdict ==
    \A t \in Task :
        /\ \A k \in lines[t] :
              \E r \in 1..Len(call[t].rows) : call[t].rows[r] = [i |-> k, clear |-> TRUE]
        /\ lines[t] # {} => Len(call[t].rows) = Lines
        /\ lines[t] # {} /\ LaneOf(t) = "judgment" =>
              dep.family["judgment"] # dep.family["verify"]

\* What a process spends on a task it spends within bounds: a bounded number of
\* calls, an account that shows them, an overrun no larger than one task.
KeepsItsAccount == WorkIsBounded /\ LedgerKeepsAccount /\ OverrunIsOneTask

\* Nothing is done, and no line is shown unmarked, beyond what the sender, the
\* human at the gate and the judge have allowed.
StaysWithinAuthority == RanWithAuthority /\ ClearedByItsOwnVerdict
=============================================================================
