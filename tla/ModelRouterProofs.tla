------------------------- MODULE ModelRouterProofs -------------------------
(***************************************************************************)
(* What the router does stays within what it may do, for every number of   *)
(* tasks, deployments, prices and limits.                                  *)
(*                                                                         *)
(* CallInv is what the locals of one handling keep to by themselves;       *)
(* BalanceInv ties the balance a charge has read to the ledger: it is      *)
(* never more than was paid, and where one task runs at a time it is what  *)
(* the ledger still shows.                                                 *)
(***************************************************************************)
EXTENDS ModelRouter, FiniteSetTheorems, TLAPS

MostAsked == MaxOf(MaxTimeouts, MaxErrors) + 1

Authorised(a, entry) ==
    entry.end = "executed" =>
        /\ TierOf[entry.tool] <= a.tier
        /\ a.tainted => TierOf[entry.tool] <= TaintCeiling
        /\ NeedsHuman(entry.tool) => entry.human
        /\ entry.audited

\* c: the locals of a handling of the task a.
CallInv(a, c) ==
    /\ c.attempts <= MostAsked + 1
    /\ c.stage \in {"asking", "capped", "timedout", "replied"} /\ ~c.repaired =>
          c.attempts <= MostAsked
    /\ c.turns <= MaxTurns
    /\ c.stage \in {"new", "asking"} => c.turns < MaxTurns
    /\ Authorised(a, c.tool)

\* The lane whose balance a handling has read and will write.
Charging(t) ==
    IF call[t].stage = "judged" THEN "verify" ELSE LaneOf(t)

BalanceInv(t) ==
    call[t].stage \in {"timedout", "replied", "judged"} =>
        /\ call[t].seen <= paid[Charging(t)]
        /\ dep.width = 1 => call[t].seen = spent[Charging(t)]

LinesInv(t) ==
    lines[t] # {} => call[t].stage = "answered" /\ lines[t] = Cleared(call[t].rows)

\* Whatever got past the head of a handling found a valid policy.
PolicyInv(t) == call[t].stage \notin {"new", "silent", "raised"} => ValidPolicy(dep)

OneAtATime ==
    dep.width = 1 => \A t, u \in Task : t \in InFlight /\ u \in InFlight => t = u

RouterInv ==
    /\ RouterTypeOK
    /\ \A t \in Task : CallInv(ask[t], call[t]) /\ LinesInv(t) /\ PolicyInv(t)
    /\ LedgerKeepsAccount
    /\ \A t \in Task : BalanceInv(t)
    /\ OneAtATime

-----------------------------------------------------------------------------
(* The records a handling's locals become.                                 *)

LEMMA NoCallIsOne == NoCall \in Call /\ NoTool.end = "none"
<1>1. NoTool \in Entry \cup {NoTool} /\ << >> \in RowKind
    BY DEF RowKind
<1> QED BY <1>1 DEF NoCall, Call, Stages, NoTool

LEMMA EndsIsOne ==
    ASSUME NEW c \in Call, NEW stage \in Stages
    PROVE  /\ Ends(c, stage) \in Call
           /\ Ends(c, stage).stage = stage /\ Ends(c, stage).rows = c.rows
           /\ Ends(c, stage).attempts = 0 /\ Ends(c, stage).turns = 0
           /\ Ends(c, stage).tool = NoTool
<1>1. c.rows \in RowKind /\ c.runs \in Nat
    BY DEF Call
<1> DEFINE ended == [NoCall EXCEPT !.stage = stage, !.rows = c.rows]
<1>2. /\ ended \in Call /\ ended.stage = stage /\ ended.rows = c.rows /\ ended.attempts = 0
      /\ ended.turns = 0 /\ ended.tool = NoTool
    BY <1>1, NoCallIsOne DEF NoCall, Call
<1>3. Ends(c, stage) = [ended EXCEPT !.runs = c.runs]
    BY DEF Ends, NoCall
<1> HIDE DEF ended
<1> QED BY <1>1, <1>2, <1>3 DEF Call

LEMMA AgainIsOne ==
    ASSUME NEW c \in Call
    PROVE  /\ Again(c) \in Call
           /\ Again(c).stage = "asking" /\ Again(c).attempts = c.attempts + 1
           /\ Again(c).turns = 0 /\ Again(c).tool = NoTool
           /\ Again(c).repaired = c.repaired
<1>1. Again(c) \in Call
  <2>0. PICK n \in Nat : n = c.attempts + 1
      BY DEF Call
  <2> DEFINE asked == [c EXCEPT !.stage = "asking", !.attempts = n, !.turns = 0]
             fresh == [asked EXCEPT !.cost = 0, !.seen = 0, !.reply = "none"]
  <2>1. asked \in Call
      BY DEF Call, Stages
  <2>2. Again(c) = [fresh EXCEPT !.tool = NoTool]
      BY <2>0 DEF Again
  <2> HIDE DEF asked
  <2>3. fresh \in Call
      BY <2>1 DEF Call
  <2> HIDE DEF fresh
  <2> QED BY <2>2, <2>3 DEF Call
<1>2. /\ Again(c).stage = "asking" /\ Again(c).attempts = c.attempts + 1
      /\ Again(c).turns = 0 /\ Again(c).tool = NoTool
    BY DEF Again, Call
<1>3. Again(c).repaired = c.repaired
    BY DEF Again, Call
<1> QED BY <1>1, <1>2, <1>3

LEMMA AmountsAreNat == MostAsked \in Nat /\ MaxTimeouts < MostAsked /\ MaxErrors < MostAsked
BY RouterAssumption DEF MostAsked, MaxOf

\* No tool call stands in them: they keep to whatever a task may do.
LEMMA NoToolIsAuthorised == \A a : Authorised(a, NoTool)
BY NoCallIsOne DEF Authorised

\* What execute returns keeps to its bounds.
LEMMA EndsKeeps == ASSUME NEW c \in Call, NEW stage \in Stages \ {"asking"}, NEW a
                   PROVE  CallInv(a, Ends(c, stage))
<1>1. /\ Ends(c, stage).stage # "asking" /\ Ends(c, stage).attempts = 0
      /\ Ends(c, stage).turns = 0 /\ Ends(c, stage).tool = NoTool
    BY EndsIsOne
<1>2. MostAsked \in Nat /\ MaxTurns \in Nat \ {0}
    BY AmountsAreNat, RouterAssumption
<1> QED BY <1>1, <1>2, NoToolIsAuthorised DEF CallInv

\* One more attempt, after a failure that leaves room for it.
LEMMA AgainKeeps == ASSUME NEW c \in Call, c.attempts <= MaxTimeouts \/ c.attempts <= MaxErrors, NEW a
                    PROVE  CallInv(a, Again(c))
<1>1. /\ Again(c).attempts = c.attempts + 1 /\ Again(c).turns = 0 /\ Again(c).tool = NoTool
    BY AgainIsOne
<1>2. c.attempts \in Nat /\ MaxTurns \in Nat \ {0} /\ MaxTimeouts \in Nat /\ MaxErrors \in Nat
    BY RouterAssumption DEF Call
<1>3. c.attempts + 1 <= MostAsked /\ c.attempts + 1 <= MostAsked + 1 /\ MostAsked \in Nat
    BY <1>2, AmountsAreNat
<1> QED BY <1>1, <1>2, <1>3, NoToolIsAuthorised DEF CallInv

\* The one repair: it comes round again, and says so.
LEMMA RepairKeeps ==
    ASSUME NEW c \in Call, c.stage = "replied", ~c.repaired, NEW a, CallInv(a, c), NEW r,
           r = [Again(c) EXCEPT !.repaired = TRUE]
    PROVE  r \in Call /\ r.stage = "asking" /\ CallInv(a, r)
<1>1. Again(c) \in Call /\ Again(c).attempts = c.attempts + 1 /\ Again(c).turns = 0
      /\ Again(c).tool = NoTool /\ Again(c).stage = "asking"
    BY AgainIsOne
<1>2. r \in Call
    BY <1>1 DEF Call
<1>3. /\ r.attempts = c.attempts + 1 /\ r.turns = 0 /\ r.tool = NoTool
      /\ r.stage = "asking"
    BY <1>1 DEF Call
<1>4. r.repaired = TRUE
    BY <1>1 DEF Call
<1>5. c.attempts \in Nat /\ MaxTurns \in Nat \ {0} /\ MostAsked \in Nat
    BY RouterAssumption, AmountsAreNat DEF Call
<1>6. c.attempts + 1 <= MostAsked + 1
    BY <1>5 DEF CallInv
<1> QED BY <1>2, <1>3, <1>4, <1>5, <1>6, NoToolIsAuthorised DEF CallInv

-----------------------------------------------------------------------------
(* What a step of one task leaves of the others.                           *)

LEMMA RouteIsALane == \A a : Route(a) \in Lane /\ "verify" \in Lane
BY DEF Route, Lane

\* A step of t that touches neither the ledger nor any lines.
LEMMA QuietStep ==
    ASSUME RouterInv, NEW t \in Task, NEW c \in Call, Becomes(t, c),
           UNCHANGED <<dep, boot, ask, lines, spent, paid>>,
           CallInv(ask[t], c),
           c.stage \notin {"new", "silent", "raised"} => ValidPolicy(dep),
           c.stage \in {"timedout", "replied"} => c.seen = spent[LaneOf(t)],
           c.stage = "judged" => c.seen = spent["verify"],
           call[t].stage # "answered",
           c.stage \in Ended \cup {"new", "raised"} \/ t \in InFlight
             \/ (dep.width = 1 => InFlight = {})
    PROVE  RouterInv'
<1>1. /\ call \in [Task -> Call] /\ call'[t] = c /\ \A u \in Task \ {t} : call'[u] = call[u]
      /\ call' \in [Task -> Call]
    BY DEF RouterInv, RouterTypeOK, Becomes
<1>2. RouterTypeOK'
    BY <1>1 DEF RouterInv, RouterTypeOK
<1>3. \A u : LaneOf(u)' = LaneOf(u)
    BY DEF LaneOf
<1>4. lines[t] = {}
    BY DEF RouterInv, LinesInv
<1>5. ASSUME NEW u \in Task
      PROVE  CallInv(ask[u], call[u])' /\ LinesInv(u)' /\ PolicyInv(u)' /\ BalanceInv(u)'
  <2>1. CASE u = t
    <3>1. CallInv(ask[u], call[u])' /\ LinesInv(u)'
        BY <2>1, <1>1, <1>4 DEF LinesInv
    <3>2. PolicyInv(u)'
        BY <2>1, <1>1 DEF PolicyInv
    <3>3. BalanceInv(u)'
      <4>1. /\ \A l \in Lane : spent[l] <= paid[l]
            /\ LaneOf(u) \in Lane /\ "verify" \in Lane
          BY RouteIsALane DEF RouterInv, LedgerKeepsAccount, LaneOf
      <4>2. CASE c.stage = "judged"
          BY <2>1, <4>1, <4>2, <1>1 DEF BalanceInv, Charging
      <4>3. CASE c.stage # "judged"
          BY <2>1, <4>1, <4>3, <1>1, <1>3 DEF BalanceInv, Charging
      <4> QED BY <4>2, <4>3
    <3> QED BY <3>1, <3>2, <3>3
  <2>2. CASE u # t
    <3>1. /\ call'[u] = call[u] /\ CallInv(ask[u], call[u]) /\ LinesInv(u) /\ PolicyInv(u)
          /\ BalanceInv(u)
        BY <2>2, <1>1 DEF RouterInv
    <3> QED BY <3>1, <1>3 DEF LinesInv, PolicyInv, BalanceInv, Charging
  <2> QED BY <2>1, <2>2
<1>6. LedgerKeepsAccount'
    BY DEF RouterInv, LedgerKeepsAccount
<1>7. OneAtATime'
    BY <1>1 DEF RouterInv, OneAtATime, InFlight
<1> QED BY <1>2, <1>5, <1>6, <1>7 DEF RouterInv

\* A step of t that writes the balance it has read, plus an amount, to lane l.
LEMMA ChargeStep ==
    ASSUME RouterInv, NEW t \in Task, NEW c \in Call, Becomes(t, c),
           UNCHANGED <<dep, boot, ask>>,
           call[t].stage \in {"timedout", "replied", "judged"},
           NEW amount \in Nat, NEW l, l = Charging(t), Pay(l, call[t].seen, amount),
           CallInv(ask[t], c), ValidPolicy(dep),
           c.stage \notin {"timedout", "replied", "judged", "new"},
           lines' \in [Task -> SUBSET (1..Lines)],
           \A u \in Task \ {t} : lines'[u] = lines[u],
           lines'[t] # {} => c.stage = "answered" /\ lines'[t] = Cleared(c.rows)
    PROVE  RouterInv'
<1>1. /\ call \in [Task -> Call] /\ call'[t] = c /\ \A u \in Task \ {t} : call'[u] = call[u]
      /\ call' \in [Task -> Call] /\ call[t].seen \in Nat
    BY DEF RouterInv, RouterTypeOK, Becomes, Call
<1>2. /\ l \in Lane /\ spent \in [Lane -> Nat] /\ paid \in [Lane -> Nat]
      /\ \A u : LaneOf(u)' = LaneOf(u) /\ LaneOf(u) \in Lane
    BY RouteIsALane DEF Charging, LaneOf, RouterInv, RouterTypeOK
<1>3. /\ spent' \in [Lane -> Nat] /\ spent'[l] = call[t].seen + amount
      /\ \A m \in Lane \ {l} : spent'[m] = spent[m]
    BY <1>1, <1>2 DEF Pay
<1>4. /\ paid' \in [Lane -> Nat] /\ paid'[l] = paid[l] + amount
      /\ \A m \in Lane \ {l} : paid'[m] = paid[m]
    BY <1>2 DEF Pay
<1>5. \A m \in Lane : paid[m] <= paid'[m] /\ paid[m] \in Nat /\ paid'[m] \in Nat
    BY <1>2, <1>4
<1>6. call[t].seen <= paid[l] /\ (dep.width = 1 => call[t].seen = spent[l])
    BY DEF RouterInv, BalanceInv
<1>7. LedgerKeepsAccount'
  <2>1. \A m \in Lane : spent[m] <= paid[m] /\ (dep.width = 1 => spent[m] = paid[m])
      BY DEF RouterInv, LedgerKeepsAccount
  <2>2. call[t].seen + amount <= paid[l] + amount
      BY <1>1, <1>2, <1>6
  <2>3. dep.width = 1 => call[t].seen + amount = paid[l] + amount
      BY <1>2, <1>6, <2>1
  <2>4. \A m \in Lane : spent'[m] <= paid'[m]
      BY <1>3, <1>4, <2>1, <2>2
  <2>5. dep'.width = 1 => \A m \in Lane : spent'[m] = paid'[m]
      BY <1>3, <1>4, <2>1, <2>3
  <2> QED BY <2>4, <2>5 DEF LedgerKeepsAccount
<1>8. t \in InFlight
    BY DEF InFlight, Ended
<1>9. ASSUME NEW u \in Task
      PROVE  CallInv(ask[u], call[u])' /\ LinesInv(u)' /\ PolicyInv(u)' /\ BalanceInv(u)'
  <2>1. CASE u = t
      BY <2>1, <1>1 DEF LinesInv, PolicyInv, BalanceInv
  <2>2. CASE u # t
    <3>1. /\ call'[u] = call[u] /\ CallInv(ask[u], call[u]) /\ LinesInv(u) /\ PolicyInv(u)
          /\ BalanceInv(u) /\ lines'[u] = lines[u] /\ call[u].seen \in Nat
        BY <2>2, <1>1 DEF RouterInv, Call
    <3>2. call[u].stage \in {"timedout", "replied", "judged"} => u \in InFlight
        BY DEF InFlight, Ended
    <3>3. call[u].stage \in {"timedout", "replied", "judged"} => dep.width # 1
        BY <1>8, <2>2, <3>2 DEF RouterInv, OneAtATime
    <3>4. Charging(u)' = Charging(u) /\ Charging(u) \in Lane
        BY <1>2, <3>1, RouteIsALane DEF Charging
    <3>5. BalanceInv(u)'
      <4> SUFFICES ASSUME call[u].stage \in {"timedout", "replied", "judged"}
                   PROVE  call[u].seen <= paid'[Charging(u)]
          BY <3>1, <3>3, <3>4 DEF BalanceInv
      <4> QED BY <1>5, <3>1, <3>4 DEF BalanceInv
    <3> QED BY <3>1, <3>5 DEF LinesInv, PolicyInv
  <2> QED BY <2>1, <2>2
<1>10. OneAtATime'
    BY <1>1, <1>8 DEF RouterInv, OneAtATime, InFlight
<1>11. RouterTypeOK'
    BY <1>1, <1>3, <1>4 DEF RouterInv, RouterTypeOK
<1> QED BY <1>7, <1>9, <1>10, <1>11 DEF RouterInv

-----------------------------------------------------------------------------
LEMMA InitRouter == RouterInit => RouterInv
<1> SUFFICES ASSUME RouterInit PROVE RouterInv
    OBVIOUS
<1>1. RouterTypeOK
    BY NoCallIsOne DEF RouterInit, RouterTypeOK
<1>2. \A t \in Task : call[t] = NoCall /\ lines[t] = {}
    BY DEF RouterInit
<1>3. /\ NoCall.stage = "new" /\ NoCall.attempts = 0 /\ NoCall.turns = 0 /\ NoCall.tool = NoTool
    BY DEF NoCall
<1>4. MostAsked \in Nat /\ MaxTurns \in Nat \ {0}
    BY AmountsAreNat, RouterAssumption
<1>5. \A a : CallInv(a, NoCall)
    BY <1>3, <1>4, NoToolIsAuthorised DEF CallInv
<1>6. \A t \in Task : LinesInv(t) /\ PolicyInv(t) /\ BalanceInv(t)
    BY <1>2, <1>3 DEF LinesInv, PolicyInv, BalanceInv
<1>7. OneAtATime /\ LedgerKeepsAccount
    BY <1>2, <1>3 DEF RouterInit, OneAtATime, LedgerKeepsAccount, InFlight
<1> QED BY <1>1, <1>2, <1>5, <1>6, <1>7 DEF RouterInv

\* A task that is taken up in a process of width one finds nobody in flight.
LEMMA Alone ==
    ASSUME RouterInv, Cardinality(InFlight) < dep.width
    PROVE  dep.width = 1 => InFlight = {}
<1>1. InFlight \in SUBSET Task
    BY DEF InFlight
<1>2. IsFiniteSet(InFlight) /\ Cardinality(InFlight) \in Nat
    BY <1>1, RouterAssumption, FS_Subset, FS_CardinalityType
<1>3. Cardinality(InFlight) < 1 => Cardinality(InFlight) = 0
    BY <1>2
<1> QED BY <1>2, <1>3, FS_EmptySet

\* The head of a handling.
LEMMA StepArrives ==
    ASSUME RouterInv, NEW t \in Task, Stranger(t) \/ Unroutable(t) \/ Queue(t) \/ Start(t)
    PROVE  RouterInv'
<1>1. /\ call[t].stage = "new" /\ UNCHANGED <<dep, boot, ask, lines, spent, paid>>
      /\ dep.width = 1 => InFlight = {}
    BY Alone DEF Stranger, Unroutable, Queue, Start, Arrives
<1>2. call[t] \in Call
    BY DEF RouterInv, RouterTypeOK
<1>3. ASSUME NEW stage \in {"silent", "raised", "queued"}, Becomes(t, Ends(call[t], stage)),
             stage = "queued" => ValidPolicy(dep)
      PROVE  RouterInv'
  <2>1. stage \in Stages \ {"asking"}
      BY DEF Stages
  <2>2. Ends(call[t], stage) \in Call /\ Ends(call[t], stage).stage = stage
        /\ CallInv(ask[t], Ends(call[t], stage))
      BY <1>2, <2>1, EndsIsOne, EndsKeeps
  <2>3. stage \in Ended \cup {"raised"}
      BY DEF Ended
  <2> QED BY <1>1, <1>3, <2>2, <2>3, QuietStep
<1>4. CASE Stranger(t)
    BY <1>3, <1>4 DEF Stranger
<1>5. CASE Unroutable(t)
    BY <1>3, <1>5 DEF Unroutable
<1>6. CASE Queue(t)
    BY <1>3, <1>6 DEF Queue
<1>7. CASE Start(t)
  <2> DEFINE c == [call[t] EXCEPT !.stage = "asking", !.attempts = 1]
  <2>1. c \in Call /\ c.stage = "asking" /\ c.attempts = 1
        /\ c.turns = call[t].turns /\ c.tool = call[t].tool
      BY <1>2 DEF Call, Stages
  <2>2. Becomes(t, c) /\ ValidPolicy(dep)
      BY <1>7 DEF Start
  <2> HIDE DEF c
  <2>3. CallInv(ask[t], c)
    <3>1. Authorised(ask[t], c.tool)
        BY <2>1 DEF RouterInv, CallInv
    <3>2. 1 <= MostAsked /\ 1 <= MostAsked + 1
        BY AmountsAreNat, RouterAssumption
    <3>3. c.turns <= MaxTurns /\ c.turns < MaxTurns
      <4>1. call[t].turns < MaxTurns /\ call[t].turns <= MaxTurns
          BY <1>1 DEF RouterInv, CallInv
      <4> QED BY <2>1, <4>1
    <3> QED BY <2>1, <3>1, <3>2, <3>3 DEF CallInv
  <2> QED BY <1>1, <2>1, <2>2, <2>3, QuietStep
<1> QED BY <1>4, <1>5, <1>6, <1>7

\* What may be made of a refusal's reasons: a tool that executes was allowed.
LEMMA OutcomeIsAuthorised ==
    ASSUME NEW t \in Task, NEW tool \in Tool, NEW valid, NEW hook \in Hooks,
           NEW handler \in Handlers, ask[t] \in AskKind
    PROVE  /\ Outcome(t, tool, valid, hook, handler) \in Entry
           /\ Authorised(ask[t], Outcome(t, tool, valid, hook, handler))
<1> DEFINE refusal == Refusal(Registry, tool, valid, Ceiling(t), Ceiling(t) < 2, hook)
           end     == IF refusal = "none" THEN handler ELSE "denied"
           entry   == Outcome(t, tool, valid, hook, handler)
<1>1. end \in {"executed", "denied", "refused", "raised"}
    BY DEF Handlers
<1>2. entry = [tool |-> tool, end |-> end, human |-> NeedsHuman(tool) /\ end # "denied",
               audited |-> end \in {"executed", "denied"}]
    BY DEF Outcome
<1>3. /\ ask[t].tier \in Int /\ TaintCeiling \in Int /\ TierOf[tool] \in Int
      /\ Ceiling(t) \in Int
    BY GatewayAssumption DEF AskKind, Tiers, Ceiling, Effective
<1>4. refusal = "none" => TierOf[tool] <= Effective(Ceiling(t), Ceiling(t) < 2)
    BY <1>3 DEF Refusal, Effective
<1>5. Effective(Ceiling(t), Ceiling(t) < 2) <= Ceiling(t)
    BY <1>3 DEF Effective
<1>6. Ceiling(t) <= ask[t].tier /\ (ask[t].tainted => Ceiling(t) <= TaintCeiling)
    BY <1>3 DEF Ceiling, Effective
<1>7. end = "executed" => refusal = "none"
    OBVIOUS
<1>8. end = "executed" => /\ TierOf[tool] <= ask[t].tier
                          /\ ask[t].tainted => TierOf[tool] <= TaintCeiling
  <2> HIDE DEF refusal, end
  <2>1. Effective(Ceiling(t), Ceiling(t) < 2) \in Int
      BY <1>3 DEF Effective
  <2> QED BY <1>3, <1>4, <1>5, <1>6, <1>7, <2>1
<1> HIDE DEF refusal, end
<1>9. entry \in Entry
  <2> HIDE DEF entry
  <2>1. (NeedsHuman(tool) /\ end # "denied") \in BOOLEAN
      OBVIOUS
  <2>2. (end \in {"executed", "denied"}) \in BOOLEAN
      OBVIOUS
  <2> QED BY <1>1, <1>2, <2>1, <2>2 DEF Entry
<1>10. Authorised(ask[t], entry)
  <2>1. entry.tool = tool /\ entry.end = end
      BY <1>2
  <2>2. ASSUME end = "executed" PROVE (NeedsHuman(tool) => entry.human) /\ entry.audited
    <3>1. PICK h \in BOOLEAN : h = (NeedsHuman(tool) /\ end # "denied")
        OBVIOUS
    <3>2. (end \in {"executed", "denied"}) = TRUE
        BY <2>2
    <3>3. entry = [tool |-> tool, end |-> end, human |-> h, audited |-> TRUE]
        BY <1>2, <3>1, <3>2, Zenon
    <3>4. NeedsHuman(tool) => h
        BY <2>2, <3>1
    <3> HIDE DEF entry
    <3>5. entry.human = h /\ entry.audited = TRUE
        BY <3>3
    <3> QED BY <3>4, <3>5
  <2> HIDE DEF entry
  <2> QED BY <1>8, <2>1, <2>2 DEF Authorised
<1> QED BY <1>9, <1>10

-----------------------------------------------------------------------------
(* The provider's side.                                                    *)

LEMMA StepTimesOut == ASSUME RouterInv, NEW t \in Task, TimesOut(t) PROVE RouterInv'
<1> DEFINE balance == spent[LaneOf(t)]
           c == [call[t] EXCEPT !.stage = "timedout", !.cost = 0, !.seen = balance, !.tool = NoTool]
<1>1. /\ call[t].stage = "asking" /\ UNCHANGED <<dep, boot, ask, lines, spent, paid>>
      /\ Becomes(t, c)
    BY DEF TimesOut, Asking
<1>2. call[t] \in Call /\ CallInv(ask[t], call[t]) /\ ValidPolicy(dep) /\ t \in InFlight
    BY <1>1 DEF RouterInv, RouterTypeOK, PolicyInv, InFlight, Ended
<1>3. balance \in Nat
    BY RouteIsALane DEF RouterInv, RouterTypeOK, LaneOf
<1> HIDE DEF balance
<1>4. /\ c.stage = "timedout" /\ c.seen = balance /\ c.tool = NoTool
      /\ c.turns = call[t].turns /\ c.attempts = call[t].attempts
    BY <1>2 DEF Call
<1>5. c.repaired = call[t].repaired
    BY <1>2 DEF Call
<1>6. c \in Call
  <2> DEFINE timed == [call[t] EXCEPT !.stage = "timedout", !.cost = 0, !.seen = balance]
  <2>1. timed \in Call
      BY <1>2, <1>3 DEF Call, Stages
  <2>2. c = [timed EXCEPT !.tool = NoTool]
      OBVIOUS
  <2> HIDE DEF timed, c
  <2> QED BY <2>1, <2>2 DEF Call
<1> HIDE DEF c
<1>7. CallInv(ask[t], c)
    BY <1>1, <1>2, <1>4, <1>5, NoToolIsAuthorised DEF CallInv
<1> QED BY <1>1, <1>2, <1>4, <1>6, <1>7, QuietStep DEF balance

LEMMA StepServerError == ASSUME RouterInv, NEW t \in Task, ServerError(t) PROVE RouterInv'
<1>1. /\ call[t].stage = "asking" /\ UNCHANGED <<dep, boot, ask, lines, spent, paid>>
      /\ Becomes(t, IF call[t].attempts <= MaxErrors THEN Again(call[t])
                    ELSE Ends(call[t], "needs_human"))
    BY DEF ServerError, Asking
<1>2. call[t] \in Call /\ ValidPolicy(dep) /\ t \in InFlight
    BY <1>1 DEF RouterInv, RouterTypeOK, PolicyInv, InFlight, Ended
<1>3. CASE call[t].attempts <= MaxErrors
  <2>1. Again(call[t]) \in Call /\ Again(call[t]).stage = "asking"
        /\ CallInv(ask[t], Again(call[t]))
      BY <1>2, <1>3, AgainIsOne, AgainKeeps
  <2> QED BY <1>1, <1>2, <1>3, <2>1, QuietStep
<1>4. CASE ~(call[t].attempts <= MaxErrors)
  <2>1. /\ Ends(call[t], "needs_human") \in Call
        /\ Ends(call[t], "needs_human").stage = "needs_human"
        /\ CallInv(ask[t], Ends(call[t], "needs_human"))
      BY <1>2, EndsIsOne, EndsKeeps DEF Stages
  <2> QED BY <1>1, <1>2, <1>4, <2>1, QuietStep
<1> QED BY <1>3, <1>4

\* A step that ends the handling with nothing charged.
LEMMA StepEnds ==
    ASSUME RouterInv, NEW t \in Task, call[t].stage \in {"asking", "completed"},
           NEW stage \in {"needs_human", "raised", "answered"}, Becomes(t, Ends(call[t], stage)),
           UNCHANGED <<dep, boot, ask, lines, spent, paid>>
    PROVE  RouterInv'
<1>1. call[t] \in Call /\ ValidPolicy(dep) /\ t \in InFlight
    BY DEF RouterInv, RouterTypeOK, PolicyInv, InFlight, Ended
<1>2. stage \in Stages \ {"asking"}
    BY DEF Stages
<1>3. /\ Ends(call[t], stage) \in Call /\ Ends(call[t], stage).stage = stage
      /\ CallInv(ask[t], Ends(call[t], stage))
    BY <1>1, <1>2, EndsIsOne, EndsKeeps
<1> QED BY <1>1, <1>3, QuietStep

LEMMA StepToolTurn == ASSUME RouterInv, NEW t \in Task, ToolTurn(t) PROVE RouterInv'
<1>1. PICK tool \in Tool, valid \in BOOLEAN, hook \in Hooks, handler \in Handlers, p \in Price :
          CallsTool(t, tool, valid, hook, handler, p)
    BY DEF ToolTurn
<1>2. PICK entry : entry = Outcome(t, tool, valid, hook, handler)
    OBVIOUS
<1>3. /\ call[t].stage = "asking" /\ UNCHANGED <<dep, boot, ask, lines, spent, paid>>
      /\ Becomes(t, IF entry.end = "raised" THEN Ends(call[t], "raised")
                    ELSE [Entered(call[t], p) EXCEPT !.tool = entry])
    BY <1>1, <1>2 DEF CallsTool, Asking
<1>4. /\ call[t] \in Call /\ CallInv(ask[t], call[t]) /\ ValidPolicy(dep) /\ t \in InFlight
      /\ ask[t] \in AskKind
    BY <1>3, RouterAssumption DEF RouterInv, RouterTypeOK, PolicyInv, InFlight, Ended
<1>5. entry \in Entry /\ Authorised(ask[t], entry)
    BY <1>2, <1>4, OutcomeIsAuthorised
<1>6. CASE entry.end = "raised"
    BY <1>3, <1>6, StepEnds
<1>7. CASE entry.end # "raised"
  <2>1. PICK turns \in Nat, cost \in Nat :
            turns = call[t].turns + 1 /\ cost = call[t].cost + p
      BY <1>4, RouterAssumption DEF Call
  <2>2. turns <= MaxTurns
      BY <1>3, <1>4, <2>1, RouterAssumption DEF CallInv, Call
  <2>3. PICK stage : stage = IF turns = MaxTurns THEN "capped" ELSE "asking"
      OBVIOUS
  <2>4. stage \in Stages /\ stage \in {"capped", "asking"}
      BY <2>3 DEF Stages
  <2>5. stage = "asking" => turns < MaxTurns
      BY <2>2, <2>3, RouterAssumption
  <2> DEFINE e == [call[t] EXCEPT !.turns = turns, !.cost = cost, !.stage = stage]
             c == [e EXCEPT !.tool = entry]
  <2>6. e = Entered(call[t], p)
      BY <2>1, <2>3 DEF Entered
  <2>7. e \in Call /\ e.stage = stage /\ e.turns = turns /\ e.attempts = call[t].attempts
      BY <1>4, <2>4 DEF Call
  <2>8. e.repaired = call[t].repaired
      BY <1>4 DEF Call
  <2>9. Becomes(t, c)
      BY <1>3, <1>7, <2>6
  <2> HIDE DEF e
  <2>10. c \in Call /\ c.stage = stage /\ c.turns = turns /\ c.attempts = call[t].attempts
         /\ c.tool = entry
      BY <1>5, <2>7 DEF Call
  <2>11. c.repaired = call[t].repaired
      BY <2>7, <2>8 DEF Call
  <2> HIDE DEF c
  <2>12. CallInv(ask[t], c)
      BY <1>3, <1>4, <1>5, <2>2, <2>4, <2>5, <2>10, <2>11 DEF CallInv
  <2> QED BY <1>3, <1>4, <2>4, <2>9, <2>10, <2>12, QuietStep
<1> QED BY <1>6, <1>7

LEMMA StepReply == ASSUME RouterInv, NEW t \in Task, Reply(t) PROVE RouterInv'
<1>1. PICK reply \in {"good", "contract", "malformed"}, p \in Price \cup {0} : Replies(t, reply, p)
    BY DEF Reply
<1>2. /\ call[t].stage \in {"asking", "capped"}
      /\ UNCHANGED <<dep, boot, ask, lines, spent, paid>>
    BY <1>1 DEF Replies
<1>3. call[t] \in Call /\ CallInv(ask[t], call[t]) /\ ValidPolicy(dep) /\ t \in InFlight
    BY <1>2 DEF RouterInv, RouterTypeOK, PolicyInv, InFlight, Ended
<1>4. PICK cost \in Nat, seen \in Nat : cost = call[t].cost + p /\ seen = spent[LaneOf(t)]
  <2>1. call[t].cost \in Nat /\ p \in Nat
    <3>1. call[t].cost \in Nat
        BY <1>3 DEF Call
    <3>2. p \in Nat
        BY RouterAssumption
    <3> QED BY <3>1, <3>2
  <2>2. spent[LaneOf(t)] \in Nat
      BY RouteIsALane DEF RouterInv, RouterTypeOK, LaneOf
  <2> QED BY <2>1, <2>2
<1> DEFINE e == [call[t] EXCEPT !.stage = "replied", !.reply = reply, !.cost = cost, !.seen = seen]
           c == [e EXCEPT !.tool = NoTool]
<1>5. Becomes(t, c)
    BY <1>1, <1>4 DEF Replies
<1>6. /\ e \in Call /\ e.stage = "replied" /\ e.seen = seen /\ e.turns = call[t].turns
      /\ e.attempts = call[t].attempts
    BY <1>3 DEF Call, Stages
<1>7. e.repaired = call[t].repaired
    BY <1>3 DEF Call
<1> HIDE DEF e
<1>8. /\ c \in Call /\ c.stage = "replied" /\ c.seen = seen /\ c.turns = call[t].turns
      /\ c.attempts = call[t].attempts /\ c.tool = NoTool
    BY <1>6 DEF Call
<1>9. c.repaired = call[t].repaired
    BY <1>6, <1>7 DEF Call
<1> HIDE DEF c
<1>10. CallInv(ask[t], c)
    BY <1>2, <1>3, <1>8, <1>9, NoToolIsAuthorised DEF CallInv
<1> QED BY <1>2, <1>3, <1>4, <1>5, <1>8, <1>10, QuietStep

-----------------------------------------------------------------------------
(* The ledger, the reply and the judge.                                    *)

\* What execute makes of a reply keeps to the bounds, and is over or asks again.
LEMMA ParsedKeeps ==
    ASSUME NEW c \in Call, c.stage = "replied", NEW a, CallInv(a, c), NEW l
    PROVE  /\ Parsed(c, l) \in Call /\ CallInv(a, Parsed(c, l))
           /\ Parsed(c, l).stage \in {"asking", "malformed", "paused", "completed"}
<1>1. CASE c.reply = "malformed" /\ ~c.repaired
  <2>1. PICK r : r = [Again(c) EXCEPT !.repaired = TRUE]
      OBVIOUS
  <2>2. r \in Call /\ r.stage = "asking" /\ CallInv(a, r)
      BY <1>1, <2>1, RepairKeeps
  <2>3. Parsed(c, l) = r
      BY <1>1, <2>1 DEF Parsed
  <2> QED BY <2>2, <2>3
<1>2. ASSUME NEW stage \in {"malformed", "paused"}, Parsed(c, l) = Ends(c, stage)
      PROVE  /\ Parsed(c, l) \in Call /\ CallInv(a, Parsed(c, l))
             /\ Parsed(c, l).stage = stage
  <2>1. stage \in Stages \ {"asking"}
      BY DEF Stages
  <2> QED BY <1>2, <2>1, EndsIsOne, EndsKeeps
<1>3. ASSUME Parsed(c, l) = [Ends(c, "completed") EXCEPT !.attempts = c.attempts]
      PROVE  /\ Parsed(c, l) \in Call /\ CallInv(a, Parsed(c, l))
             /\ Parsed(c, l).stage = "completed"
  <2>1. /\ Ends(c, "completed") \in Call /\ Ends(c, "completed").stage = "completed"
        /\ Ends(c, "completed").turns = 0 /\ Ends(c, "completed").tool = NoTool
      BY EndsIsOne DEF Stages
  <2>2. c.attempts \in Nat /\ MaxTurns \in Nat \ {0} /\ MostAsked \in Nat
      BY RouterAssumption, AmountsAreNat DEF Call
  <2>3. PICK r : r = [Ends(c, "completed") EXCEPT !.attempts = c.attempts]
      OBVIOUS
  <2>4. /\ r \in Call /\ r.stage = "completed" /\ r.turns = 0 /\ r.tool = NoTool
        /\ r.attempts = c.attempts
      BY <2>1, <2>2, <2>3 DEF Call
  <2>5. r.attempts <= MostAsked + 1
      BY <2>2, <2>4 DEF CallInv
  <2> QED BY <1>3, <2>2, <2>3, <2>4, <2>5, NoToolIsAuthorised DEF CallInv
<1> QED BY <1>1, <1>2, <1>3 DEF Parsed

LEMMA StepChargeTimeout == ASSUME RouterInv, NEW t \in Task, ChargeTimeout(t) PROVE RouterInv'
<1>1. /\ call[t].stage = "timedout" /\ UNCHANGED <<dep, boot, ask>> /\ lines' = lines
      /\ Pay(LaneOf(t), call[t].seen, TimeoutCharge)
      /\ Becomes(t, IF call[t].attempts <= MaxTimeouts THEN Again(call[t])
                    ELSE Ends(call[t], "needs_human"))
    BY DEF ChargeTimeout
<1>2. /\ call[t] \in Call /\ ValidPolicy(dep) /\ TimeoutCharge \in Nat
      /\ LaneOf(t) = Charging(t)
    BY <1>1, RouterAssumption DEF RouterInv, RouterTypeOK, PolicyInv, Charging
<1>3. /\ lines' \in [Task -> SUBSET (1..Lines)] /\ lines'[t] = {}
      /\ \A u \in Task \ {t} : lines'[u] = lines[u]
    BY <1>1 DEF RouterInv, RouterTypeOK, LinesInv
<1>4. PICK c : c = IF call[t].attempts <= MaxTimeouts THEN Again(call[t])
                   ELSE Ends(call[t], "needs_human")
    OBVIOUS
<1>5. c \in Call /\ c.stage \in {"asking", "needs_human"} /\ CallInv(ask[t], c)
  <2>1. CASE call[t].attempts <= MaxTimeouts
      BY <1>2, <1>4, <2>1, AgainIsOne, AgainKeeps
  <2>2. CASE ~(call[t].attempts <= MaxTimeouts)
    <3>1. "needs_human" \in Stages \ {"asking"}
        BY DEF Stages
    <3> QED BY <1>2, <1>4, <2>2, <3>1, EndsIsOne, EndsKeeps
  <2> QED BY <2>1, <2>2
<1>6. Becomes(t, c)
    BY <1>1, <1>4
<1>7. Pay(Charging(t), call[t].seen, TimeoutCharge)
    BY <1>1, <1>2
<1> QED BY <1>1, <1>2, <1>3, <1>5, <1>6, <1>7, ChargeStep

LEMMA StepChargeReply == ASSUME RouterInv, NEW t \in Task, ChargeReply(t) PROVE RouterInv'
<1>1. /\ call[t].stage = "replied" /\ UNCHANGED <<dep, boot, ask>> /\ lines' = lines
      /\ Pay(LaneOf(t), call[t].seen, call[t].cost)
      /\ Becomes(t, Parsed(call[t], LaneOf(t)))
    BY DEF ChargeReply
<1>2. /\ call[t] \in Call /\ CallInv(ask[t], call[t]) /\ ValidPolicy(dep)
      /\ call[t].cost \in Nat /\ LaneOf(t) = Charging(t)
    BY <1>1 DEF RouterInv, RouterTypeOK, PolicyInv, Charging, Call
<1>3. /\ lines' \in [Task -> SUBSET (1..Lines)] /\ lines'[t] = {}
      /\ \A u \in Task \ {t} : lines'[u] = lines[u]
    BY <1>1 DEF RouterInv, RouterTypeOK, LinesInv
<1>4. PICK c : c = Parsed(call[t], LaneOf(t))
    OBVIOUS
<1>5. /\ c \in Call /\ CallInv(ask[t], c)
      /\ c.stage \in {"asking", "malformed", "paused", "completed"}
    BY <1>1, <1>2, <1>4, ParsedKeeps
<1>6. Becomes(t, c) /\ Pay(Charging(t), call[t].seen, call[t].cost)
    BY <1>1, <1>2, <1>4
<1> QED BY <1>1, <1>2, <1>3, <1>5, <1>6, ChargeStep

LEMMA StepJudged == ASSUME RouterInv, NEW t \in Task, Judged(t) PROVE RouterInv'
<1>1. PICK rows \in Rows, p \in JudgePrice : JudgeAnswers(t, rows, p)
    BY DEF Judged
<1>2. PICK seen : seen = spent["verify"]
    OBVIOUS
<1> DEFINE c == [call[t] EXCEPT !.stage = "judged", !.rows = rows, !.cost = p, !.seen = seen]
<1>3. /\ call[t].stage = "completed" /\ UNCHANGED <<dep, boot, ask, lines, spent, paid>>
      /\ Becomes(t, c)
    BY <1>1, <1>2 DEF JudgeAnswers
<1>4. call[t] \in Call /\ CallInv(ask[t], call[t]) /\ ValidPolicy(dep) /\ t \in InFlight
    BY <1>3 DEF RouterInv, RouterTypeOK, PolicyInv, InFlight, Ended
<1>5. seen \in Nat /\ p \in Nat /\ rows \in RowKind
  <2>1. spent["verify"] \in Nat
      BY RouteIsALane DEF RouterInv, RouterTypeOK
  <2> QED BY <1>2, <2>1, RouterAssumption
<1>6. /\ c \in Call /\ c.stage = "judged" /\ c.seen = seen /\ c.tool = call[t].tool
      /\ c.turns = call[t].turns /\ c.attempts = call[t].attempts
    BY <1>4, <1>5 DEF Call, Stages
<1> HIDE DEF c
<1>7. CallInv(ask[t], c)
    BY <1>4, <1>6 DEF CallInv
<1> QED BY <1>2, <1>3, <1>4, <1>6, <1>7, QuietStep

LEMMA StepChargeJudge == ASSUME RouterInv, NEW t \in Task, ChargeJudge(t) PROVE RouterInv'
<1>1. /\ call[t].stage = "judged" /\ UNCHANGED <<dep, boot, ask>>
      /\ Pay("verify", call[t].seen, call[t].cost)
      /\ lines' = [lines EXCEPT ![t] = Cleared(call[t].rows)]
      /\ Becomes(t, Ends(call[t], "answered"))
    BY DEF ChargeJudge
<1>2. /\ call[t] \in Call /\ ValidPolicy(dep) /\ call[t].cost \in Nat
      /\ Charging(t) = "verify"
    BY <1>1 DEF RouterInv, RouterTypeOK, PolicyInv, Charging, Call
<1>3. PICK c : c = Ends(call[t], "answered")
    OBVIOUS
<1>4. /\ c \in Call /\ c.stage = "answered" /\ c.rows = call[t].rows /\ CallInv(ask[t], c)
    BY <1>2, <1>3, EndsIsOne, EndsKeeps DEF Stages
<1>5. Cleared(call[t].rows) \in SUBSET (1..Lines)
    BY DEF Cleared
<1>6. /\ lines' \in [Task -> SUBSET (1..Lines)] /\ lines'[t] = Cleared(c.rows)
      /\ \A u \in Task \ {t} : lines'[u] = lines[u]
    BY <1>1, <1>4, <1>5 DEF RouterInv, RouterTypeOK
<1>7. Becomes(t, c) /\ Pay(Charging(t), call[t].seen, call[t].cost)
    BY <1>1, <1>2, <1>3
<1> QED BY <1>1, <1>2, <1>4, <1>6, <1>7, ChargeStep

LEMMA StepRedeliver == ASSUME RouterInv, NEW t \in Task, Redeliver(t) PROVE RouterInv'
<1>1. /\ call[t].stage = "raised" /\ UNCHANGED <<dep, boot, ask, lines, spent, paid>>
      /\ Becomes(t, [NoCall EXCEPT !.runs = call[t].runs + 1])
    BY DEF Redeliver
<1>2. PICK runs \in Nat : runs = call[t].runs + 1
    BY DEF RouterInv, RouterTypeOK, Call
<1> DEFINE c == [NoCall EXCEPT !.runs = runs]
<1>3. c \in Call /\ c.stage = "new" /\ c.turns = 0 /\ c.attempts = 0 /\ c.tool = NoTool
    BY NoCallIsOne DEF NoCall, Call
<1>4. Becomes(t, c)
    BY <1>1, <1>2
<1> HIDE DEF c
<1>5. CallInv(ask[t], c)
  <2>1. MostAsked \in Nat /\ MaxTurns \in Nat \ {0}
      BY AmountsAreNat, RouterAssumption
  <2> QED BY <1>3, <2>1, NoToolIsAuthorised DEF CallInv
<1> QED BY <1>1, <1>3, <1>4, <1>5, QuietStep

LEMMA StepRouter == RouterInv /\ [RouterNext]_routerVars => RouterInv'
<1> SUFFICES ASSUME RouterInv, [RouterNext]_routerVars PROVE RouterInv'
    OBVIOUS
<1>1. ASSUME UNCHANGED <<dep, ask, call, lines, spent, paid>>, boot' \in {"booting", "up", "refused"}
      PROVE  RouterInv'
  <2>1. \A t : Charging(t)' = Charging(t)
      BY <1>1 DEF Charging, LaneOf
  <2>2. RouterTypeOK'
      BY <1>1 DEF RouterInv, RouterTypeOK
  <2>3. \A t \in Task : CallInv(ask[t], call[t])' /\ LinesInv(t)' /\ PolicyInv(t)'
      BY <1>1 DEF RouterInv, LinesInv, PolicyInv
  <2>4. \A t \in Task : BalanceInv(t)'
      BY <1>1, <2>1 DEF RouterInv, BalanceInv
  <2>5. LedgerKeepsAccount' /\ OneAtATime'
      BY <1>1 DEF RouterInv, LedgerKeepsAccount, OneAtATime, InFlight
  <2> QED BY <2>2, <2>3, <2>4, <2>5 DEF RouterInv
<1>2. CASE BootProcess
    BY <1>1, <1>2 DEF BootProcess
<1>3. ASSUME NEW t \in Task, Answering(t) PROVE RouterInv'
  <2>1. CASE Stranger(t) \/ Unroutable(t) \/ Queue(t) \/ Start(t)
      BY <2>1, StepArrives
  <2>2. CASE TimesOut(t)
      BY <2>2, StepTimesOut
  <2>3. CASE ServerError(t)
      BY <2>3, StepServerError
  <2>4. CASE EgressDenied(t)
      BY <2>4, StepEnds DEF EgressDenied, Asking
  <2>5. CASE ToolTurn(t)
      BY <2>5, StepToolTurn
  <2>6. CASE Reply(t)
      BY <2>6, StepReply
  <2>7. CASE ChargeTimeout(t)
      BY <2>7, StepChargeTimeout
  <2>8. CASE ChargeReply(t)
      BY <2>8, StepChargeReply
  <2>9. CASE NoVerdict(t)
      BY <2>9, StepEnds DEF NoVerdict
  <2>10. CASE Judged(t)
      BY <2>10, StepJudged
  <2>11. CASE ChargeJudge(t)
      BY <2>11, StepChargeJudge
  <2> QED BY <1>3, <2>1, <2>2, <2>3, <2>4, <2>5, <2>6, <2>7, <2>8, <2>9, <2>10, <2>11 DEF Answering
<1>4. ASSUME NEW t \in Task, Redeliver(t) PROVE RouterInv'
    BY <1>4, StepRedeliver
<1>5. CASE UNCHANGED routerVars
  <2>1. UNCHANGED <<dep, ask, call, lines, spent, paid>> /\ boot' = boot
      BY <1>5 DEF routerVars
  <2> QED BY <1>1, <2>1 DEF RouterInv, RouterTypeOK
<1> QED BY <1>2, <1>3, <1>4, <1>5 DEF RouterNext

LEMMA RouterInvariant == RouterSpec => []RouterInv
<1> QED BY InitRouter, StepRouter, PTL DEF RouterSpec

-----------------------------------------------------------------------------
\* The process, the locals of its handlings and its ledger are well typed.
THEOREM RouterTyped == RouterSpec => []RouterTypeOK
<1>1. RouterInv => RouterTypeOK
    BY DEF RouterInv
<1> QED BY <1>1, RouterInvariant, PTL

\* Whatever the model asks for: a tool executes only within the sender's
\* authority capped by taint, after a human where it needs one; and a line is
\* shown unmarked only by the judge's own row about it, under a policy in which
\* the judge is of another family than the judgment lane.
THEOREM AuthorityIsKept == RouterSpec => []StaysWithinAuthority
<1>1. RouterInv => RanWithAuthority
    BY DEF RouterInv, CallInv, Authorised, RanWithAuthority
<1>2. RouterInv => ClearedByItsOwnVerdict
  <2> SUFFICES ASSUME RouterInv, NEW t \in Task
               PROVE  /\ \A k \in lines[t] : \E r \in 1..Len(call[t].rows) :
                            call[t].rows[r] = [i |-> k, clear |-> TRUE]
                      /\ lines[t] # {} => Len(call[t].rows) = Lines
                      /\ lines[t] # {} /\ LaneOf(t) = "judgment" =>
                            dep.family["judgment"] # dep.family["verify"]
      BY DEF ClearedByItsOwnVerdict
  <2>1. lines[t] # {} => call[t].stage = "answered" /\ lines[t] = Cleared(call[t].rows)
      BY DEF RouterInv, LinesInv
  <2>2. lines[t] # {} => dep.family["judgment"] # dep.family["verify"]
      BY <2>1 DEF RouterInv, PolicyInv, ValidPolicy, DistinctFamilies
  <2>3. lines[t] # {} => Len(call[t].rows) = Lines /\ \A k \in 1..Lines : call[t].rows[k].i = k
      BY <2>1 DEF Cleared
  <2>c. \A k \in lines[t] : k \in 1..Lines /\ call[t].rows[k].clear
    <3>1. \A k \in Cleared(call[t].rows) : k \in 1..Lines /\ call[t].rows[k].clear
        BY DEF Cleared
    <3> QED BY <2>1, <3>1
  <2>4. ASSUME NEW k \in lines[t]
        PROVE  \E r \in 1..Len(call[t].rows) : call[t].rows[r] = [i |-> k, clear |-> TRUE]
    <3>0. PICK rows : rows = call[t].rows
        OBVIOUS
    <3>1. Len(rows) = Lines /\ \A j \in 1..Lines : rows[j].i = j
        BY <2>3, <2>4, <3>0
    <3>2. k \in 1..Lines /\ rows[k].clear
        BY <2>4, <2>c, <3>0
    <3>r. PICK row : row = [i : Nat, clear : BOOLEAN]
        OBVIOUS
    <3>s. rows \in Seq(row)
        BY <3>0, <3>r DEF RouterInv, RouterTypeOK, Call, RowKind
    <3>3. k \in 1..Len(rows) /\ rows[k].i = k
        BY <3>1, <3>2
    <3>4. rows[k] \in row
        BY <3>s, <3>3
    <3>5. rows[k] = [i |-> k, clear |-> TRUE]
        BY <3>2, <3>3, <3>4, <3>r
    <3> QED BY <3>0, <3>3, <3>5
  <2> QED BY <2>2, <2>3, <2>4
<1>3. RouterInv => StaysWithinAuthority
    BY <1>1, <1>2 DEF StaysWithinAuthority
<1> QED BY <1>3, RouterInvariant, PTL

-----------------------------------------------------------------------------
(* What a lane can be overrun by.  CostInv bounds what an attempt has cost  *)
(* so far, SpendInv what its lane had paid when the attempt began.         *)

CostInv(c) ==
    /\ c.stage \in {"new", "asking", "capped"} => c.cost <= c.turns * Dearest
    /\ c.stage = "replied" => c.cost <= MostPerAttempt

SpendInv(t) ==
    dep.width = 1 /\ call[t].stage \in {"asking", "capped", "timedout", "replied"} =>
        paid[LaneOf(t)] + MostPerAttempt < Budget[LaneOf(t)] + call[t].attempts * MostPerAttempt

SpendingInv ==
    /\ \A t \in Task : CostInv(call[t]) /\ SpendInv(t)
    /\ OverrunIsOneTask

LEMMA Multiples ==
    ASSUME NEW k \in Nat, NEW n \in Nat
    PROVE  /\ n * k \in Nat /\ (n + 1) * k = n * k + k /\ 0 * k = 0 /\ 1 * k = k
           /\ \A m \in Nat : n <= m => n * k <= m * k
<1>1. /\ n * k \in Nat /\ (n + 1) * k = n * k + k /\ 0 * k = 0 /\ 1 * k = k
    OBVIOUS
<1>2. ASSUME NEW m \in Nat, n <= m PROVE n * k <= m * k
  <2>1. PICK d \in Nat : m = n + d
    <3>1. m - n \in Nat /\ m = n + (m - n)
        BY <1>2
    <3> QED BY <3>1
  <2>2. m * k = n * k + d * k /\ d * k \in Nat /\ n * k \in Nat
      BY <2>1
  <2> QED BY <2>2
<1> QED BY <1>1, <1>2

LEMMA PricesAreBounded ==
    /\ Dearest \in Nat /\ \A p \in Price \cup {0} : p \in Nat /\ p <= Dearest
    /\ MostPerAttempt \in Nat /\ TimeoutCharge <= MostPerAttempt
    /\ (MaxTurns + 1) * Dearest <= MostPerAttempt
    /\ MaxAttempts \in Nat
<1>1. Dearest \in Price /\ \A q \in Price : q <= Dearest
    BY RouterAssumption DEF Dearest
<1>2. Dearest \in Nat /\ \A p \in Price \cup {0} : p \in Nat /\ p <= Dearest
    BY <1>1, RouterAssumption
<1>3. (MaxTurns + 1) * Dearest \in Nat
    BY <1>2, RouterAssumption, Multiples
<1>4. MostPerAttempt \in Nat /\ TimeoutCharge <= MostPerAttempt
      /\ (MaxTurns + 1) * Dearest <= MostPerAttempt
    BY <1>3, RouterAssumption DEF MostPerAttempt, MaxOf
<1>5. MaxAttempts \in Nat
    BY RouterAssumption DEF MaxAttempts, MaxOf
<1> QED BY <1>2, <1>4, <1>5

\* What has cost nothing, and has not been asked, is within its bounds.
LEMMA FreeIsWithin ==
    ASSUME NEW c \in Call, c.stage = "replied" => FALSE, c.cost = 0
    PROVE  CostInv(c)
<1>1. c.turns \in Nat
    BY DEF Call
<1>2. c.turns * Dearest \in Nat
    BY <1>1, PricesAreBounded, Multiples
<1> QED BY <1>2 DEF CostInv

\* A step of t that pays nothing.
LEMMA QuietSpend ==
    ASSUME RouterInv, SpendingInv, NEW t \in Task, NEW c \in Call, Becomes(t, c),
           UNCHANGED <<dep, ask, paid>>, CostInv(c),
           c.stage \in {"asking", "capped", "timedout", "replied"} /\ dep.width = 1 =>
              paid[LaneOf(t)] + MostPerAttempt < Budget[LaneOf(t)] + c.attempts * MostPerAttempt
    PROVE  SpendingInv'
<1>1. /\ call'[t] = c /\ \A u \in Task \ {t} : call'[u] = call[u]
    BY DEF RouterInv, RouterTypeOK, Becomes
<1>2. \A u : LaneOf(u)' = LaneOf(u)
    BY DEF LaneOf
<1>3. ASSUME NEW u \in Task PROVE CostInv(call[u])' /\ SpendInv(u)'
  <2>1. CASE u = t
      BY <2>1, <1>1, <1>2 DEF SpendInv
  <2>2. CASE u # t
    <3>1. call'[u] = call[u] /\ CostInv(call[u]) /\ SpendInv(u)
        BY <2>2, <1>1 DEF SpendingInv
    <3> QED BY <3>1, <1>2 DEF SpendInv
  <2> QED BY <2>1, <2>2
<1>4. OverrunIsOneTask'
    BY DEF SpendingInv, OverrunIsOneTask
<1> QED BY <1>3, <1>4 DEF SpendingInv

\* The same, of a task that goes on with an attempt or comes round to the next.
LEMMA GoesOnSpend ==
    ASSUME RouterInv, SpendingInv, NEW t \in Task, NEW c \in Call, Becomes(t, c),
           UNCHANGED <<dep, ask, paid>>, CostInv(c),
           call[t].stage \in {"asking", "capped"}, c.attempts >= call[t].attempts
    PROVE  SpendingInv'
<1>1. /\ LaneOf(t) \in Lane /\ call[t].attempts \in Nat /\ c.attempts \in Nat
      /\ MostPerAttempt \in Nat /\ Budget[LaneOf(t)] \in Nat /\ paid[LaneOf(t)] \in Nat
    BY RouteIsALane, PricesAreBounded, RouterAssumption DEF RouterInv, RouterTypeOK, Call, LaneOf
<1>2. call[t].attempts * MostPerAttempt <= c.attempts * MostPerAttempt
      /\ call[t].attempts * MostPerAttempt \in Nat /\ c.attempts * MostPerAttempt \in Nat
    BY <1>1, Multiples
<1>3. dep.width = 1 =>
         paid[LaneOf(t)] + MostPerAttempt < Budget[LaneOf(t)] + call[t].attempts * MostPerAttempt
    BY DEF SpendingInv, SpendInv
<1>4. dep.width = 1 =>
         paid[LaneOf(t)] + MostPerAttempt < Budget[LaneOf(t)] + c.attempts * MostPerAttempt
    BY <1>1, <1>2, <1>3
<1> QED BY <1>4, QuietSpend

\* A charge of the answering lane: an attempt at most, and then another one or
\* the end.
LEMMA ChargeSpend ==
    ASSUME RouterInv, SpendingInv, NEW t \in Task, NEW c \in Call, Becomes(t, c),
           UNCHANGED <<dep, ask>>, call[t].stage \in {"timedout", "replied"},
           NEW amount \in Nat, amount <= MostPerAttempt,
           Pay(LaneOf(t), call[t].seen, amount), CostInv(c),
           c.stage = "asking" => c.attempts = call[t].attempts + 1,
           c.stage \notin {"capped", "timedout", "replied"}
    PROVE  SpendingInv'
<1>1. /\ call'[t] = c /\ \A u \in Task \ {t} : call'[u] = call[u]
      /\ \A u : LaneOf(u)' = LaneOf(u)
    BY DEF RouterInv, RouterTypeOK, Becomes, LaneOf
<1>2. /\ LaneOf(t) \in Lane /\ call[t].attempts \in Nat /\ call[t].attempts <= MaxAttempts
      /\ MostPerAttempt \in Nat /\ MaxAttempts \in Nat
      /\ paid \in [Lane -> Nat] /\ Budget \in [Lane -> Nat]
  <2>1. MaxAttempts = MostAsked + 1
      BY RouterAssumption DEF MaxAttempts, MostAsked, MaxOf
  <2>2. call[t].attempts <= MostAsked + 1
      BY DEF RouterInv, CallInv
  <2> QED BY <2>1, <2>2, RouteIsALane, PricesAreBounded, RouterAssumption
          DEF RouterInv, RouterTypeOK, Call, LaneOf
<1>3. /\ paid'[LaneOf(t)] = paid[LaneOf(t)] + amount
      /\ \A m \in Lane \ {LaneOf(t)} : paid'[m] = paid[m]
    BY <1>2 DEF Pay
<1>4. PICK n \in Nat, lim \in Nat :
          /\ n = call[t].attempts * MostPerAttempt /\ lim = MaxAttempts * MostPerAttempt
          /\ n <= lim /\ (call[t].attempts + 1) * MostPerAttempt = n + MostPerAttempt
    BY <1>2, Multiples
<1>5. dep.width = 1 => paid[LaneOf(t)] + MostPerAttempt < Budget[LaneOf(t)] + n
    BY <1>4 DEF SpendingInv, SpendInv
<1>6. /\ Budget[LaneOf(t)] \in Nat /\ paid[LaneOf(t)] \in Nat
    BY <1>2
<1>7. dep.width = 1 => /\ paid'[LaneOf(t)] < Budget[LaneOf(t)] + lim
                       /\ paid'[LaneOf(t)] + MostPerAttempt < Budget[LaneOf(t)] + (n + MostPerAttempt)
    BY <1>2, <1>3, <1>4, <1>5, <1>6
<1>8. OverrunIsOneTask'
  <2> SUFFICES ASSUME dep'.width = 1, NEW m \in Lane \ {"verify"}, paid'[m] > 0
               PROVE  paid'[m] < Budget[m] + MostPerTask
      BY DEF OverrunIsOneTask
  <2>1. lim = MostPerTask
      BY <1>4 DEF MostPerTask
  <2>2. CASE m = LaneOf(t)
      BY <2>1, <2>2, <1>7
  <2>3. CASE m # LaneOf(t)
      BY <2>3, <1>3 DEF SpendingInv, OverrunIsOneTask
  <2> QED BY <2>2, <2>3
<1>9. ASSUME NEW u \in Task PROVE CostInv(call[u])' /\ SpendInv(u)'
  <2>1. CASE u = t
    <3>1. CostInv(call[u])'
        BY <2>1, <1>1
    <3>2. SpendInv(u)'
      <4> SUFFICES ASSUME dep.width = 1, c.stage = "asking"
                   PROVE  paid'[LaneOf(t)] + MostPerAttempt
                             < Budget[LaneOf(t)] + c.attempts * MostPerAttempt
          BY <2>1, <1>1 DEF SpendInv
      <4> QED BY <1>4, <1>7
    <3> QED BY <3>1, <3>2
  <2>2. CASE u # t
    <3>1. call'[u] = call[u] /\ CostInv(call[u])
        BY <2>2, <1>1 DEF SpendingInv
    <3>2. dep.width = 1 => u \notin InFlight
      <4>1. t \in InFlight
          BY DEF InFlight, Ended
      <4> QED BY <2>2, <4>1 DEF RouterInv, OneAtATime
    <3>3. SpendInv(u)'
        BY <3>1, <3>2 DEF SpendInv, InFlight, Ended
    <3> QED BY <3>1, <3>3
  <2> QED BY <2>1, <2>2
<1> QED BY <1>8, <1>9 DEF SpendingInv

LEMMA NothingSpentYet ==
    ASSUME NEW c \in Call
    PROVE  /\ \A stage \in Stages : Ends(c, stage).cost = 0 /\ Ends(c, stage).stage = stage
           /\ Again(c).cost = 0
<1>1. \A stage \in Stages : Ends(c, stage).cost = 0 /\ Ends(c, stage).stage = stage
    BY DEF Ends, NoCall
<1>2. Again(c).cost = 0
    BY DEF Again, Call
<1> QED BY <1>1, <1>2

\* An end of the handling that charges nothing.
LEMMA EndsSpend ==
    ASSUME RouterInv, SpendingInv, NEW t \in Task,
           NEW stage \in {"silent", "raised", "queued", "needs_human", "answered"},
           Becomes(t, Ends(call[t], stage)), UNCHANGED <<dep, ask, paid>>
    PROVE  SpendingInv'
<1>1. call[t] \in Call /\ stage \in Stages
    BY DEF RouterInv, RouterTypeOK, Stages
<1>2. /\ Ends(call[t], stage) \in Call /\ Ends(call[t], stage).cost = 0
      /\ Ends(call[t], stage).stage = stage
    BY <1>1, EndsIsOne, NothingSpentYet
<1>3. CostInv(Ends(call[t], stage))
    BY <1>2, FreeIsWithin
<1> QED BY <1>2, <1>3, QuietSpend

LEMMA StartSpend == ASSUME RouterInv, SpendingInv, NEW t \in Task, Start(t) PROVE SpendingInv'
<1> DEFINE c == [call[t] EXCEPT !.stage = "asking", !.attempts = 1]
<1>1. /\ call[t].stage = "new" /\ UNCHANGED <<dep, ask, paid>> /\ Becomes(t, c)
      /\ spent[LaneOf(t)] < Budget[LaneOf(t)]
  <2>1. ~(spent[LaneOf(t)] >= Budget[LaneOf(t)])
      BY DEF Start, Exhausted
  <2>2. spent[LaneOf(t)] \in Nat /\ Budget[LaneOf(t)] \in Nat
      BY RouteIsALane, RouterAssumption DEF RouterInv, RouterTypeOK, LaneOf
  <2> QED BY <2>1, <2>2 DEF Start, Arrives
<1>2. call[t] \in Call /\ CostInv(call[t])
    BY DEF RouterInv, RouterTypeOK, SpendingInv
<1>3. /\ c \in Call /\ c.stage = "asking" /\ c.attempts = 1 /\ c.turns = call[t].turns
      /\ c.cost = call[t].cost
    BY <1>2 DEF Call, Stages
<1> HIDE DEF c
<1>4. CostInv(c)
    BY <1>1, <1>2, <1>3 DEF CostInv
<1>5. dep.width = 1 =>
         paid[LaneOf(t)] + MostPerAttempt < Budget[LaneOf(t)] + c.attempts * MostPerAttempt
  <2>1. LaneOf(t) \in Lane /\ (dep.width = 1 => spent[LaneOf(t)] = paid[LaneOf(t)])
      BY RouteIsALane DEF LaneOf, RouterInv, LedgerKeepsAccount
  <2>2. /\ paid[LaneOf(t)] \in Nat /\ Budget[LaneOf(t)] \in Nat /\ MostPerAttempt \in Nat
        /\ c.attempts * MostPerAttempt = MostPerAttempt
      BY <1>3, <2>1, PricesAreBounded, Multiples, RouterAssumption DEF RouterInv, RouterTypeOK
  <2> QED BY <1>1, <2>1, <2>2
<1> QED BY <1>1, <1>3, <1>4, <1>5, QuietSpend

LEMMA TimesOutSpend == ASSUME RouterInv, RouterInv', SpendingInv, NEW t \in Task, TimesOut(t)
                       PROVE SpendingInv'
<1>1. PICK c : c = [call[t] EXCEPT !.stage = "timedout", !.cost = 0,
                                  !.seen = spent[LaneOf(t)], !.tool = NoTool]
    OBVIOUS
<1>2. /\ call[t].stage = "asking" /\ UNCHANGED <<dep, ask, paid>> /\ Becomes(t, c)
    BY <1>1 DEF TimesOut, Asking
<1>3. call[t] \in Call /\ c \in Call
    BY <1>2 DEF RouterInv, RouterTypeOK, Becomes
<1>4. c.stage = "timedout" /\ c.attempts = call[t].attempts /\ c.attempts \in Nat
    BY <1>1, <1>3 DEF Call
<1>5. CostInv(c)
    BY <1>4 DEF CostInv
<1> QED BY <1>2, <1>3, <1>4, <1>5, GoesOnSpend

LEMMA ServerErrorSpend == ASSUME RouterInv, SpendingInv, NEW t \in Task, ServerError(t)
                          PROVE SpendingInv'
<1>1. /\ call[t].stage = "asking" /\ UNCHANGED <<dep, ask, paid>>
      /\ Becomes(t, IF call[t].attempts <= MaxErrors THEN Again(call[t])
                    ELSE Ends(call[t], "needs_human"))
    BY DEF ServerError, Asking
<1>2. CASE call[t].attempts <= MaxErrors
  <2>1. call[t] \in Call /\ call[t].attempts \in Nat
      BY DEF RouterInv, RouterTypeOK, Call
  <2>2. /\ Again(call[t]) \in Call /\ Again(call[t]).stage = "asking"
        /\ Again(call[t]).attempts = call[t].attempts + 1 /\ Again(call[t]).cost = 0
      BY <2>1, AgainIsOne, NothingSpentYet
  <2>3. CostInv(Again(call[t])) /\ Again(call[t]).attempts >= call[t].attempts
      BY <2>1, <2>2, FreeIsWithin
  <2> QED BY <1>1, <1>2, <2>2, <2>3, GoesOnSpend
<1>3. CASE ~(call[t].attempts <= MaxErrors)
    BY <1>1, <1>3, EndsSpend
<1> QED BY <1>2, <1>3

LEMMA ToolTurnSpend == ASSUME RouterInv, RouterInv', SpendingInv, NEW t \in Task, ToolTurn(t)
                       PROVE SpendingInv'
<1>1. PICK tool \in Tool, valid \in BOOLEAN, hook \in Hooks, handler \in Handlers, p \in Price :
          CallsTool(t, tool, valid, hook, handler, p)
    BY DEF ToolTurn
<1>2. PICK entry : entry = Outcome(t, tool, valid, hook, handler)
    OBVIOUS
<1>3. /\ call[t].stage = "asking" /\ UNCHANGED <<dep, ask, paid>>
      /\ Becomes(t, IF entry.end = "raised" THEN Ends(call[t], "raised")
                    ELSE [Entered(call[t], p) EXCEPT !.tool = entry])
    BY <1>1, <1>2 DEF CallsTool, Asking
<1>4. CASE entry.end = "raised"
    BY <1>3, <1>4, EndsSpend
<1>5. CASE entry.end # "raised"
  <2>1. PICK c : c = [Entered(call[t], p) EXCEPT !.tool = entry]
      OBVIOUS
  <2>2. Becomes(t, c)
      BY <1>3, <1>5, <2>1
  <2>3. call[t] \in Call /\ c \in Call /\ CostInv(call[t])
      BY <2>2 DEF RouterInv, RouterTypeOK, Becomes, SpendingInv
  <2>4. /\ c.attempts = call[t].attempts /\ c.turns = call[t].turns + 1
        /\ c.cost = call[t].cost + p /\ c.stage \in {"asking", "capped"}
      BY <2>1, <2>3 DEF Entered, Call
  <2>5. /\ call[t].turns \in Nat /\ call[t].cost \in Nat /\ call[t].attempts \in Nat
        /\ p \in Nat /\ p <= Dearest /\ Dearest \in Nat
      BY <2>3, PricesAreBounded DEF Call
  <2>6. /\ call[t].turns * Dearest \in Nat
        /\ (call[t].turns + 1) * Dearest = call[t].turns * Dearest + Dearest
      BY <2>5, Multiples
  <2>7. call[t].cost <= call[t].turns * Dearest
      BY <1>3, <2>3 DEF CostInv
  <2>8. c.cost <= c.turns * Dearest
      BY <2>4, <2>5, <2>6, <2>7
  <2>9. CostInv(c) /\ c.attempts >= call[t].attempts
      BY <2>4, <2>5, <2>8 DEF CostInv
  <2> QED BY <1>3, <2>2, <2>3, <2>9, GoesOnSpend
<1> QED BY <1>4, <1>5

LEMMA ReplySpend == ASSUME RouterInv, RouterInv', SpendingInv, NEW t \in Task, Reply(t)
                    PROVE SpendingInv'
<1>1. PICK reply \in {"good", "contract", "malformed"}, p \in Price \cup {0} : Replies(t, reply, p)
    BY DEF Reply
<1>2. PICK c : c = [call[t] EXCEPT !.stage = "replied", !.reply = reply, !.cost = @ + p,
                                  !.seen = spent[LaneOf(t)], !.tool = NoTool]
    OBVIOUS
<1>3. /\ call[t].stage \in {"asking", "capped"} /\ UNCHANGED <<dep, ask, paid>>
      /\ Becomes(t, c) /\ (call[t].stage = "capped" => p = 0)
    BY <1>1, <1>2 DEF Replies
<1>4. call[t] \in Call /\ c \in Call /\ CostInv(call[t]) /\ CallInv(ask[t], call[t])
    BY <1>3 DEF RouterInv, RouterTypeOK, Becomes, SpendingInv
<1>5. /\ c.attempts = call[t].attempts /\ c.cost = call[t].cost + p /\ c.stage = "replied"
    BY <1>2, <1>4 DEF Call
<1>6. /\ call[t].turns \in Nat /\ call[t].cost \in Nat /\ call[t].attempts \in Nat
      /\ p \in Nat /\ p <= Dearest /\ Dearest \in Nat
    BY <1>4, PricesAreBounded DEF Call
<1>7. MaxTurns \in Nat /\ call[t].turns <= MaxTurns
    BY <1>4, RouterAssumption DEF CallInv
<1>8. /\ call[t].turns * Dearest \in Nat /\ (call[t].turns + 1) * Dearest \in Nat
      /\ (call[t].turns + 1) * Dearest = call[t].turns * Dearest + Dearest
      /\ (call[t].turns + 1) * Dearest <= (MaxTurns + 1) * Dearest
  <2>1. call[t].turns + 1 \in Nat /\ MaxTurns + 1 \in Nat /\ call[t].turns + 1 <= MaxTurns + 1
      BY <1>6, <1>7
  <2> QED BY <1>6, <2>1, Multiples
<1>9. call[t].cost <= call[t].turns * Dearest
    BY <1>3, <1>4 DEF CostInv
<1>10. (MaxTurns + 1) * Dearest <= MostPerAttempt /\ MostPerAttempt \in Nat
       /\ (MaxTurns + 1) * Dearest \in Nat
  <2>1. MaxTurns + 1 \in Nat
      BY <1>7
  <2> QED BY <1>6, <2>1, PricesAreBounded, Multiples
<1>11. c.cost <= MostPerAttempt
    BY <1>5, <1>6, <1>8, <1>9, <1>10
<1>12. CostInv(c) /\ c.attempts >= call[t].attempts
    BY <1>5, <1>6, <1>11 DEF CostInv
<1> QED BY <1>3, <1>4, <1>12, GoesOnSpend

LEMMA ChargeTimeoutSpend ==
    ASSUME RouterInv, SpendingInv, NEW t \in Task, ChargeTimeout(t) PROVE SpendingInv'
<1>1. PICK c : c = IF call[t].attempts <= MaxTimeouts THEN Again(call[t])
                   ELSE Ends(call[t], "needs_human")
    OBVIOUS
<1>2. /\ call[t].stage = "timedout" /\ UNCHANGED <<dep, ask>> /\ Becomes(t, c)
      /\ Pay(LaneOf(t), call[t].seen, TimeoutCharge)
    BY <1>1 DEF ChargeTimeout
<1>3. call[t] \in Call
    BY DEF RouterInv, RouterTypeOK
<1>4. /\ c \in Call /\ c.cost = 0 /\ c.stage \in {"asking", "needs_human"}
      /\ c.stage = "asking" => c.attempts = call[t].attempts + 1
  <2>1. CASE call[t].attempts <= MaxTimeouts
      BY <1>1, <1>3, <2>1, AgainIsOne, NothingSpentYet
  <2>2. CASE ~(call[t].attempts <= MaxTimeouts)
    <3>1. "needs_human" \in Stages
        BY DEF Stages
    <3> QED BY <1>1, <1>3, <2>2, <3>1, EndsIsOne, NothingSpentYet
  <2> QED BY <2>1, <2>2
<1>5. CostInv(c) /\ TimeoutCharge \in Nat /\ TimeoutCharge <= MostPerAttempt
    BY <1>4, FreeIsWithin, PricesAreBounded, RouterAssumption
<1> QED BY <1>2, <1>4, <1>5, ChargeSpend

LEMMA ParsedSpends ==
    ASSUME NEW c \in Call, NEW l
    PROVE  /\ Parsed(c, l).cost = 0
           /\ Parsed(c, l).stage = "asking" => Parsed(c, l).attempts = c.attempts + 1
<1>1. /\ Again(c) \in Call /\ Again(c).cost = 0 /\ Again(c).attempts = c.attempts + 1
    BY AgainIsOne, NothingSpentYet
<1>2. CASE c.reply = "malformed" /\ ~c.repaired
  <2>1. PICK r : r = [Again(c) EXCEPT !.repaired = TRUE]
      OBVIOUS
  <2>2. r.cost = 0 /\ r.attempts = c.attempts + 1
      BY <1>1, <2>1 DEF Call
  <2>3. Parsed(c, l) = r
      BY <1>2, <2>1 DEF Parsed
  <2> QED BY <2>2, <2>3
<1>3. ASSUME NEW stage \in {"malformed", "paused"}, Parsed(c, l) = Ends(c, stage)
      PROVE  Parsed(c, l).cost = 0 /\ Parsed(c, l).stage # "asking"
  <2>1. stage \in Stages
      BY DEF Stages
  <2> QED BY <1>3, <2>1, NothingSpentYet
<1>4. ASSUME Parsed(c, l) = [Ends(c, "completed") EXCEPT !.attempts = c.attempts]
      PROVE  Parsed(c, l).cost = 0 /\ Parsed(c, l).stage # "asking"
  <2>1. /\ Ends(c, "completed") \in Call /\ Ends(c, "completed").stage = "completed"
        /\ Ends(c, "completed").cost = 0
      BY EndsIsOne, NothingSpentYet DEF Stages
  <2> QED BY <1>4, <2>1 DEF Call
<1> QED BY <1>2, <1>3, <1>4 DEF Parsed

LEMMA ChargeReplySpend ==
    ASSUME RouterInv, SpendingInv, NEW t \in Task, ChargeReply(t) PROVE SpendingInv'
<1>1. PICK c : c = Parsed(call[t], LaneOf(t))
    OBVIOUS
<1>2. /\ call[t].stage = "replied" /\ UNCHANGED <<dep, ask>> /\ Becomes(t, c)
      /\ Pay(LaneOf(t), call[t].seen, call[t].cost)
    BY <1>1 DEF ChargeReply
<1>3. /\ call[t] \in Call /\ CallInv(ask[t], call[t]) /\ CostInv(call[t])
      /\ call[t].cost \in Nat
    BY DEF RouterInv, RouterTypeOK, SpendingInv, Call
<1>4. /\ c \in Call /\ c.stage \in {"asking", "malformed", "paused", "completed"}
      /\ c.cost = 0 /\ (c.stage = "asking" => c.attempts = call[t].attempts + 1)
    BY <1>1, <1>2, <1>3, ParsedKeeps, ParsedSpends
<1>5. CostInv(c) /\ call[t].cost <= MostPerAttempt
    BY <1>2, <1>3, <1>4, FreeIsWithin DEF CostInv
<1> QED BY <1>2, <1>3, <1>4, <1>5, ChargeSpend

LEMMA JudgedSpend == ASSUME RouterInv, RouterInv', SpendingInv, NEW t \in Task, Judged(t)
                     PROVE SpendingInv'
<1>1. PICK rows \in Rows, p \in JudgePrice : JudgeAnswers(t, rows, p)
    BY DEF Judged
<1>2. PICK c : c = [call[t] EXCEPT !.stage = "judged", !.rows = rows, !.cost = p,
                                  !.seen = spent["verify"]]
    OBVIOUS
<1>3. UNCHANGED <<dep, ask, paid>> /\ Becomes(t, c)
    BY <1>1, <1>2 DEF JudgeAnswers
<1>4. c \in Call /\ c.stage = "judged"
  <2>1. call[t] \in Call /\ c \in Call
      BY <1>3 DEF RouterInv, RouterTypeOK, Becomes
  <2> QED BY <1>2, <2>1 DEF Call
<1>5. CostInv(c)
    BY <1>4 DEF CostInv
<1> QED BY <1>3, <1>4, <1>5, QuietSpend

LEMMA ChargeJudgeSpend ==
    ASSUME RouterInv, SpendingInv, NEW t \in Task, ChargeJudge(t) PROVE SpendingInv'
<1>1. PICK c : c = Ends(call[t], "answered")
    OBVIOUS
<1>2. /\ UNCHANGED <<dep, ask>> /\ Becomes(t, c) /\ Pay("verify", call[t].seen, call[t].cost)
    BY <1>1 DEF ChargeJudge
<1>3. call[t] \in Call /\ paid \in [Lane -> Nat]
    BY DEF RouterInv, RouterTypeOK
<1>4. c \in Call /\ c.cost = 0 /\ c.stage = "answered"
    BY <1>1, <1>3, EndsIsOne, NothingSpentYet DEF Stages
<1>5. \A m \in Lane \ {"verify"} : paid'[m] = paid[m]
    BY <1>2, <1>3 DEF Pay
<1>6. /\ call'[t] = c /\ \A u \in Task \ {t} : call'[u] = call[u]
      /\ \A u : LaneOf(u)' = LaneOf(u) /\ LaneOf(u) \in Lane \ {"verify"}
    BY <1>2 DEF RouterInv, RouterTypeOK, Becomes, LaneOf, Route, Lane
<1>7. ASSUME NEW u \in Task PROVE CostInv(call[u])' /\ SpendInv(u)'
  <2>1. CASE u = t
      BY <2>1, <1>4, <1>6 DEF CostInv, SpendInv
  <2>2. CASE u # t
    <3>1. call'[u] = call[u] /\ CostInv(call[u]) /\ SpendInv(u)
        BY <2>2, <1>6 DEF SpendingInv
    <3>2. paid'[LaneOf(u)] = paid[LaneOf(u)]
        BY <1>5, <1>6
    <3> QED BY <3>1, <3>2, <1>2, <1>6 DEF SpendInv
  <2> QED BY <2>1, <2>2
<1>8. OverrunIsOneTask'
    BY <1>2, <1>5 DEF SpendingInv, OverrunIsOneTask
<1> QED BY <1>7, <1>8 DEF SpendingInv

LEMMA RedeliverSpend ==
    ASSUME RouterInv, RouterInv', SpendingInv, NEW t \in Task, Redeliver(t) PROVE SpendingInv'
<1>1. PICK c : c = [NoCall EXCEPT !.runs = call[t].runs + 1]
    OBVIOUS
<1>2. UNCHANGED <<dep, ask, paid>> /\ Becomes(t, c)
    BY <1>1 DEF Redeliver
<1>3. c \in Call
    BY <1>2 DEF RouterInv, RouterTypeOK, Becomes
<1>4. c.stage = "new" /\ c.cost = 0
    BY <1>1 DEF NoCall
<1>5. CostInv(c)
    BY <1>3, <1>4, FreeIsWithin
<1> QED BY <1>2, <1>3, <1>4, <1>5, QuietSpend

LEMMA StepSpending == RouterInv /\ RouterInv' /\ SpendingInv /\ [RouterNext]_routerVars => SpendingInv'
<1> SUFFICES ASSUME RouterInv, RouterInv', SpendingInv, [RouterNext]_routerVars PROVE SpendingInv'
    OBVIOUS
<1>1. ASSUME UNCHANGED <<dep, ask, call, paid>> PROVE SpendingInv'
  <2>1. \A t : LaneOf(t)' = LaneOf(t)
      BY <1>1 DEF LaneOf
  <2> QED BY <1>1, <2>1 DEF SpendingInv, SpendInv, CostInv, OverrunIsOneTask
<1>2. CASE BootProcess
    BY <1>1, <1>2 DEF BootProcess
<1>3. ASSUME NEW t \in Task, Answering(t) PROVE SpendingInv'
  <2>1. CASE Stranger(t) \/ Unroutable(t) \/ Queue(t)
      BY <2>1, EndsSpend DEF Stranger, Unroutable, Queue, Arrives
  <2>2. CASE Start(t)
      BY <2>2, StartSpend
  <2>3. CASE TimesOut(t)
      BY <2>3, TimesOutSpend
  <2>4. CASE ServerError(t)
      BY <2>4, ServerErrorSpend
  <2>5. CASE EgressDenied(t)
      BY <2>5, EndsSpend DEF EgressDenied, Asking
  <2>6. CASE ToolTurn(t)
      BY <2>6, ToolTurnSpend
  <2>7. CASE Reply(t)
      BY <2>7, ReplySpend
  <2>8. CASE ChargeTimeout(t)
      BY <2>8, ChargeTimeoutSpend
  <2>9. CASE ChargeReply(t)
      BY <2>9, ChargeReplySpend
  <2>10. CASE NoVerdict(t)
      BY <2>10, EndsSpend DEF NoVerdict
  <2>11. CASE Judged(t)
      BY <2>11, JudgedSpend
  <2>12. CASE ChargeJudge(t)
      BY <2>12, ChargeJudgeSpend
  <2> QED BY <1>3, <2>1, <2>2, <2>3, <2>4, <2>5, <2>6, <2>7, <2>8, <2>9, <2>10, <2>11, <2>12
          DEF Answering
<1>4. ASSUME NEW t \in Task, Redeliver(t) PROVE SpendingInv'
    BY <1>4, RedeliverSpend
<1>5. CASE UNCHANGED routerVars
    BY <1>1, <1>5 DEF routerVars
<1> QED BY <1>2, <1>3, <1>4, <1>5 DEF RouterNext

LEMMA InitSpending == RouterInit => SpendingInv
<1> SUFFICES ASSUME RouterInit PROVE SpendingInv
    OBVIOUS
<1>1. \A t \in Task : call[t] = NoCall
    BY DEF RouterInit
<1>2. NoCall \in Call /\ NoCall.cost = 0 /\ NoCall.stage = "new"
    BY NoCallIsOne DEF NoCall
<1>3. CostInv(NoCall)
    BY <1>2, FreeIsWithin
<1>4. \A t \in Task : CostInv(call[t]) /\ SpendInv(t)
    BY <1>1, <1>2, <1>3 DEF SpendInv
<1>5. OverrunIsOneTask
    BY DEF RouterInit, OverrunIsOneTask
<1> QED BY <1>4, <1>5 DEF SpendingInv

-----------------------------------------------------------------------------
\* Timeouts, server errors and the repair share one bound; the ledger never
\* shows more than was paid, and all of it where one task runs at a time; and
\* then a lane is overrun by less than the dearest handling of one task.
THEOREM AccountIsKept == RouterSpec => []KeepsItsAccount
<1>1. RouterInv => WorkIsBounded
  <2>1. MaxAttempts = MostAsked + 1
      BY RouterAssumption DEF MaxAttempts, MostAsked, MaxOf
  <2> QED BY <2>1 DEF RouterInv, CallInv, WorkIsBounded
<1>2. RouterInv /\ SpendingInv => KeepsItsAccount
    BY <1>1 DEF RouterInv, SpendingInv, KeepsItsAccount
<1> QED BY <1>2, RouterInvariant, InitSpending, StepSpending, PTL DEF RouterSpec
=============================================================================
