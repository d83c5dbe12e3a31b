-------------------------- MODULE OperationsProofs --------------------------
(***************************************************************************)
(* The parts that run beside the message path and decide something: the    *)
(* idea board, onboarding, the evaluation gate and the exporter of spans.  *)
(* Each keeps what it promises for every value of its constants.           *)
(*                                                                         *)
(* Every section is laid out alike: the inductive invariant in named       *)
(* parts, the lemmas its steps share, one lemma per action, and the        *)
(* theorems.                                                               *)
(***************************************************************************)
EXTENDS IdeaBoard, Onboarding, EvalGate, Telemetry, FiniteSetTheorems, SequenceTheorems,
        NaturalsInduction, WellFoundedInduction, TLAPS

\* Every set of numbers that has one has a smallest.
LEMMA LeastNumber ==
    ASSUME NEW S \in SUBSET Nat, S # {}
    PROVE  \E m \in S : \A n \in S : m <= n
<1>1. IsWellFoundedOn(OpToRel(<, Nat), Nat)
    BY NatLessThanWellFounded
<1>2. PICK m \in S : \A n \in S : ~(<<n, m>> \in OpToRel(<, Nat))
    BY <1>1, WFMin
<1>3. ASSUME NEW n \in S PROVE m <= n
  <2>1. ~(<<n, m>> \in OpToRel(<, Nat))
      BY <1>2
  <2>2. ~(n < m)
      BY <2>1 DEF OpToRel
  <2> QED BY <2>2
<1> QED BY <1>3

-----------------------------------------------------------------------------
(* The idea board. DraftInv is what holds of one draft: an answer that     *)
(* overlapped no other is the only one that can still make a card of it.   *)
(* CardInv counts the sessions of one card together with the ticks that    *)
(* are about to start another, against the claims that were lost.          *)

Holds(a, d) == answers[a].stage # "idle" /\ answers[a].draft = d

DraftInv(d) ==
    /\ CardsOf(d) # {} => drafts[d].used # "no"
    /\ \A a \in Answer : Holds(a, d) /\ answers[a].stage = "marked" => drafts[d].used # "no"
    /\ ~drafts[d].raced =>
          /\ \A a, b \in Answer : Holds(a, d) /\ Holds(b, d) => a = b
          /\ \A a \in Answer : Holds(a, d) =>
                /\ CardsOf(d) = {}
                /\ answers[a].stage = "read" => drafts[d].used = "no"
                /\ answers[a].stage = "marked" => drafts[d].used = answers[a].choice
          /\ \A n, m \in CardsOf(d) : n = m
          /\ \A n \in CardsOf(d) : cards[n].choice = drafts[d].used /\ drafts[d].used # "drop"

AnswerInv(a) ==
    /\ answers[a].stage # "idle" => answers[a].draft \in 1..Len(drafts)
    /\ answers[a].stage = "marked" => answers[a].choice # "drop"

\* The ticks about to start a session for card n, and those that have.
AboutTo(n)  == {k \in Tick : ticks[k].stage \in {"picked", "ready"} /\ ticks[k].card = n}
StartedFor(n) == {k \in Tick : ticks[k].stage = "started" /\ ticks[k].card = n}

IsClaimed(n) == n <= Len(cards) /\ "in-progress" \in cards[n].labels

CardInv(n) ==
    /\ sessions[n] + Cardinality(AboutTo(n)) <= lost[n] + 1
    /\ AboutTo(n) = {} /\ StartedFor(n) = {} /\ ~IsClaimed(n) => sessions[n] <= lost[n]

TickInv(k) ==
    ticks[k].stage # "idle" =>
        /\ ticks[k].card \in 1..Len(cards)
        /\ cards[ticks[k].card].choice = "todo"
        /\ ticks[k].stage # "picked" => cards[ticks[k].card].worktree
        /\ ticks[k].stage = "started" => sessions[ticks[k].card] > 0

LabelInv(n) ==
    /\ "agent-go" \in cards[n].labels => cards[n].choice = "todo"
    /\ "in-progress" \in cards[n].labels =>
          sessions[n] > 0 /\ cards[n].worktree /\ cards[n].choice = "todo"

\* What concerns the drafts and their answers, and what concerns the cards and
\* their ticks.
AnswersInv ==
    /\ drafts \in Seq(Draft) /\ Len(drafts) <= MaxDrafts
    /\ answers \in [Answer -> AnswerState]
    /\ cards \in Seq(Card)
    /\ \A n \in 1..Len(cards) : cards[n].draft <= Len(drafts)
    /\ \A a \in Answer : AnswerInv(a)
    /\ \A d \in 1..Len(drafts) : DraftInv(d)

TicksInv ==
    /\ cards \in Seq(Card) /\ Len(cards) <= MaxCards
    /\ ticks \in [Tick -> TickState]
    /\ sessions \in [1..MaxCards -> Nat]
    /\ lost \in [1..MaxCards -> Nat]
    /\ \A n \in 1..MaxCards : CardInv(n)
    /\ \A k \in Tick : TickInv(k)
    /\ \A n \in 1..Len(cards) : LabelInv(n)

BoardInv == AnswersInv /\ TicksInv /\ boardFaults \in 0..MaxBoardFaults

-----------------------------------------------------------------------------
(* Which of a set of cards is the oldest, and who has a card in hand.      *)

\* Any cards at all have an oldest one among them.
LEMMA OldestIsOne ==
    ASSUME NEW S, S \subseteq Nat, S # {}
    PROVE  Oldest(S) \in S /\ \A m \in S : Oldest(S) <= m
<1>1. \E n \in S : \A m \in S : n <= m
    BY LeastNumber
<1> QED BY <1>1 DEF Oldest

LEMMA AboutToIsFinite == \A n : IsFiniteSet(AboutTo(n)) /\ Cardinality(AboutTo(n)) \in Nat
<1> SUFFICES ASSUME NEW n PROVE IsFiniteSet(AboutTo(n)) /\ Cardinality(AboutTo(n)) \in Nat
    OBVIOUS
<1>1. AboutTo(n) \in SUBSET Tick
    BY DEF AboutTo
<1> QED BY <1>1, BoardAssumption, FS_Subset, FS_CardinalityType

-----------------------------------------------------------------------------
LEMMA InitBoard == BoardInit => BoardInv
<1> SUFFICES ASSUME BoardInit PROVE BoardInv
    OBVIOUS
<1> USE BoardAssumption
<1>1. AnswersInv
  <2>1. answers \in [Answer -> AnswerState]
      BY DEF BoardInit, NoAnswer, AnswerState, BoardChoices
  <2> QED BY <2>1 DEF BoardInit, AnswersInv, AnswerInv, NoAnswer
<1>2. TicksInv
  <2>1. ticks \in [Tick -> TickState]
      BY DEF BoardInit, NoTick, TickState
  <2>2. \A n : AboutTo(n) = {} /\ StartedFor(n) = {}
      BY DEF BoardInit, NoTick, AboutTo, StartedFor
  <2>3. \A n \in 1..MaxCards : CardInv(n)
      BY <2>2, FS_EmptySet DEF BoardInit, CardInv
  <2> QED BY <2>1, <2>3 DEF BoardInit, TicksInv, TickInv, NoTick
<1> QED BY <1>1, <1>2 DEF BoardInit, BoardInv

-----------------------------------------------------------------------------
(* The drafts and their answers.                                           *)

\* A tick and the closing of a card touch neither a card's draft nor the choice
\* it was made by.
LEMMA AnswersStand ==
    ASSUME AnswersInv, drafts' = drafts, answers' = answers,
           cards' \in Seq(Card), Len(cards') = Len(cards),
           \A n \in 1..Len(cards) : /\ cards'[n].draft = cards[n].draft
                                    /\ cards'[n].choice = cards[n].choice
    PROVE  AnswersInv'
<1>1. \A d : CardsOf(d)' = CardsOf(d)
    BY DEF CardsOf
<1>2. \A d \in 1..Len(drafts) : DraftInv(d)'
  <2> SUFFICES ASSUME NEW d \in 1..Len(drafts) PROVE DraftInv(d)'
      OBVIOUS
  <2>1. DraftInv(d) /\ CardsOf(d)' = CardsOf(d)
      BY <1>1 DEF AnswersInv
  <2>2. \A n \in CardsOf(d) : cards'[n].choice = cards[n].choice
      BY DEF CardsOf
  <2> QED BY <2>1, <2>2 DEF DraftInv, Holds
<1>3. \A a \in Answer : AnswerInv(a)'
    BY DEF AnswersInv, AnswerInv
<1> QED BY <1>2, <1>3 DEF AnswersInv

\* An answer that takes its next step and leaves the cards alone.
LEMMA StepAnswers ==
    ASSUME AnswersInv, cards' = cards,
           \/ MakeDraft
           \/ \E a \in Answer, d \in 1..MaxDrafts, c \in BoardChoices : ReadDraft(a, d, c)
           \/ \E a \in Answer : MarkUsed(a) \/ CardRefused(a)
    PROVE  AnswersInv'
<1> USE BoardAssumption
<1>0. \A d : CardsOf(d)' = CardsOf(d)
    BY DEF CardsOf
<1>t. /\ drafts \in Seq(Draft) /\ answers \in [Answer -> AnswerState] /\ cards \in Seq(Card)
      /\ Len(drafts) \in Nat
    BY DEF AnswersInv
<1>1. CASE MakeDraft
  <2> DEFINE new == [used |-> "no", raced |-> FALSE]
  <2>0. new \in Draft
      BY DEF Draft
  <2> HIDE DEF new
  <2>1. /\ drafts' = Append(drafts, new) /\ answers' = answers /\ Len(drafts) < MaxDrafts
      BY <1>1 DEF MakeDraft, new
  <2>2. /\ drafts' \in Seq(Draft) /\ Len(drafts') = Len(drafts) + 1
        /\ \A d \in 1..Len(drafts) : drafts'[d] = drafts[d]
      BY <2>0, <2>1, <1>t
  <2>3. \A a \in Answer : AnswerInv(a)'
      BY <2>1, <2>2, <1>t DEF AnswersInv, AnswerInv
  <2>4. \A d \in 1..Len(drafts) : DraftInv(d)'
      BY <1>0, <2>1, <2>2 DEF AnswersInv, DraftInv, Holds
  <2>5. ASSUME NEW d, d = Len(drafts) + 1 PROVE DraftInv(d)'
    <3>1. CardsOf(d) = {}
        BY <2>5, <1>t DEF AnswersInv, CardsOf, Card
    <3>2. \A a \in Answer : ~Holds(a, d)
        BY <2>5, <1>t DEF AnswersInv, AnswerInv, Holds
    <3>3. CardsOf(d)' = {} /\ \A a \in Answer : ~Holds(a, d)'
        BY <1>0, <2>1, <3>1, <3>2 DEF Holds
    <3> QED BY <3>3 DEF DraftInv
  <2>6. \A d \in 1..Len(drafts') : DraftInv(d)'
    <3>1. \A d \in 1..Len(drafts') : d \in 1..Len(drafts) \/ d = Len(drafts) + 1
        BY <2>2, <1>t
    <3> QED BY <2>4, <2>5, <3>1
  <2>7. \A n \in 1..Len(cards') : cards'[n].draft <= Len(drafts')
    <3>1. \A n \in 1..Len(cards) : cards[n].draft \in Nat /\ cards[n].draft <= Len(drafts)
      <4>1. \A n \in 1..Len(cards) : cards[n] \in Card
          BY <1>t
      <4>2. \A n \in 1..Len(cards) : cards[n].draft \in 1..MaxDrafts
          BY <4>1 DEF Card
      <4> QED BY <4>2 DEF AnswersInv
    <3>2. Len(drafts') = Len(drafts) + 1
        BY <2>2
    <3> QED BY <3>1, <3>2, <1>t
  <2> QED BY <2>1, <2>2, <2>3, <2>6, <2>7, <1>t DEF AnswersInv
<1>2. ASSUME NEW a \in Answer, NEW d \in 1..MaxDrafts, NEW c \in BoardChoices,
             ReadDraft(a, d, c)
      PROVE  AnswersInv'
  <2>1. /\ answers[a].stage = "idle" /\ d \in 1..Len(drafts) /\ drafts[d].used = "no"
        /\ answers' = [answers EXCEPT ![a] = [stage |-> "read", draft |-> d, choice |-> c]]
        /\ drafts' = [drafts EXCEPT ![d].raced = @ \/ Reading(d) # {}]
      BY <1>2 DEF ReadDraft, Unanswered
  <2>2. /\ answers' \in [Answer -> AnswerState]
        /\ answers'[a] = [stage |-> "read", draft |-> d, choice |-> c]
        /\ \A b \in Answer \ {a} : answers'[b] = answers[b]
      BY <2>1, <1>t DEF AnswerState
  <2>3. /\ drafts' \in Seq(Draft) /\ Len(drafts') = Len(drafts)
        /\ \A e \in 1..Len(drafts) \ {d} : drafts'[e] = drafts[e]
        /\ drafts'[d].used = drafts[d].used
        /\ drafts'[d].raced = (drafts[d].raced \/ Reading(d) # {})
    <3> DEFINE raced == drafts[d].raced \/ Reading(d) # {}
               r == [drafts[d] EXCEPT !.raced = raced]
    <3>0. drafts[d] \in Draft
        BY <2>1, <1>t
    <3>1. drafts[d] \in Draft /\ raced \in BOOLEAN
        BY <3>0, Zenon DEF Draft
    <3>2. r \in Draft /\ r.used = drafts[d].used
        BY <3>1 DEF Draft
    <3>3. r.raced = raced
        BY <3>1 DEF Draft
    <3>4. drafts' = [drafts EXCEPT ![d] = r]
        BY <2>1
    <3> HIDE DEF r, raced
    <3>5. /\ drafts' \in Seq(Draft) /\ Len(drafts') = Len(drafts) /\ drafts'[d] = r
          /\ \A e \in 1..Len(drafts) \ {d} : drafts'[e] = drafts[e]
        BY <2>1, <3>2, <3>4, <1>t
    <3>6. drafts'[d].raced = raced
        BY <3>3, <3>5
    <3> QED BY <3>2, <3>5, <3>6 DEF raced
  <2>4. \A b \in Answer : AnswerInv(b)'
      BY <2>1, <2>2, <2>3 DEF AnswersInv, AnswerInv
  <2>5. ASSUME NEW e \in 1..Len(drafts) \ {d} PROVE DraftInv(e)'
    <3>1. \A b \in Answer : Holds(b, e)' => b # a /\ Holds(b, e)
        BY <2>2 DEF Holds
    <3> QED BY <1>0, <2>2, <2>3, <3>1 DEF AnswersInv, DraftInv
  <2>6. DraftInv(d)'
    <3>1. CardsOf(d) = {} /\ DraftInv(d)
        BY <2>1 DEF AnswersInv, DraftInv
    <3>2. \A b \in Answer \ {a} : Holds(b, d)' <=> Holds(b, d)
        BY <2>2 DEF Holds
    <3>3. \A b \in Answer : Holds(b, d) => answers[b].stage = "read"
        BY <2>1, <3>1, <1>t DEF Holds, DraftInv, AnswerState
    <3>4. ~drafts'[d].raced => \A b \in Answer : ~Holds(b, d)
        BY <2>3, <3>3 DEF Reading, Holds
    <3>5. \A b \in Answer : Holds(b, d)' => answers'[b].stage = "read"
        BY <2>2, <3>2, <3>3
    <3>6. CardsOf(d)' = {}
        BY <1>0, <3>1
    <3>7. ~drafts'[d].raced => \A b, h \in Answer : Holds(b, d)' /\ Holds(h, d)' => b = h
        BY <3>2, <3>4
    <3> QED BY <2>1, <2>3, <3>5, <3>6, <3>7 DEF DraftInv
  <2>7. \A n \in 1..Len(cards') : cards'[n].draft <= Len(drafts')
      BY <2>3 DEF AnswersInv
  <2> QED BY <2>2, <2>3, <2>4, <2>5, <2>6, <2>7, <1>t DEF AnswersInv
<1>3. ASSUME NEW a \in Answer, MarkUsed(a) PROVE AnswersInv'
  <2>0. PICK d, c : d = answers[a].draft /\ c = answers[a].choice
      OBVIOUS
  <2>1. /\ answers[a].stage = "read" /\ d \in 1..Len(drafts) /\ c \in BoardChoices
        /\ answers[a] \in AnswerState
      BY <1>3, <2>0, <1>t DEF MarkUsed, AnswersInv, AnswerInv, AnswerState
  <2>2. /\ drafts' \in Seq(Draft) /\ Len(drafts') = Len(drafts)
        /\ drafts'[d].used = c /\ drafts'[d].raced = drafts[d].raced
        /\ \A e \in 1..Len(drafts) \ {d} : drafts'[e] = drafts[e]
    <3> DEFINE r == [drafts[d] EXCEPT !.used = c]
    <3>1. drafts[d] \in Draft
        BY <2>1, <1>t
    <3>2. r \in Draft /\ r.used = c
        BY <2>1, <3>1 DEF Draft
    <3>3. r.raced = drafts[d].raced
        BY <3>1 DEF Draft
    <3>4. drafts' = [drafts EXCEPT ![d] = r]
        BY <1>3, <2>0 DEF MarkUsed
    <3> HIDE DEF r
    <3> QED BY <2>1, <3>2, <3>3, <3>4, <1>t
  <2>3. /\ answers' \in [Answer -> AnswerState]
        /\ c = "drop" => answers'[a].stage = "idle"
        /\ c # "drop" => /\ answers'[a].stage = "marked" /\ answers'[a].draft = d
                         /\ answers'[a].choice = c
        /\ \A b \in Answer \ {a} : answers'[b] = answers[b]
    <3> DEFINE r == IF c = "drop" THEN NoAnswer ELSE [answers[a] EXCEPT !.stage = "marked"]
    <3>1. answers' = [answers EXCEPT ![a] = r]
        BY <1>3, <2>0 DEF MarkUsed
    <3>2. /\ r \in AnswerState
          /\ c = "drop" => r.stage = "idle"
          /\ c # "drop" => r.stage = "marked" /\ r.draft = d /\ r.choice = c
        BY <2>0, <2>1, BoardAssumption DEF AnswerState, NoAnswer, BoardChoices
    <3> HIDE DEF r
    <3> QED BY <3>1, <3>2, <1>t
  <2>4. \A b \in Answer : AnswerInv(b)'
    <3>1. AnswerInv(a)'
        BY <2>0, <2>1, <2>2, <2>3 DEF AnswerInv
    <3>2. \A b \in Answer \ {a} : AnswerInv(b)'
        BY <2>2, <2>3 DEF AnswersInv, AnswerInv
    <3> QED BY <3>1, <3>2
  <2>5. ASSUME NEW e \in 1..Len(drafts) \ {d} PROVE DraftInv(e)'
    <3>1. \A b \in Answer : Holds(b, e)' => b # a /\ Holds(b, e)
        BY <2>0, <2>3 DEF Holds
    <3> QED BY <1>0, <2>2, <2>3, <3>1 DEF AnswersInv, DraftInv
  <2>6. DraftInv(d)'
    <3>1. DraftInv(d) /\ Holds(a, d)
        BY <2>0, <2>1 DEF AnswersInv, Holds
    <3>2. drafts'[d].used # "no"
        BY <2>1, <2>2 DEF BoardChoices
    <3>3. \A b \in Answer : Holds(b, d)' => Holds(b, d)
        BY <2>3, <3>1 DEF Holds
    <3>4. ~drafts[d].raced => /\ CardsOf(d)' = {}
                              /\ \A b \in Answer : Holds(b, d)' => b = a /\ c # "drop"
        BY <1>0, <2>3, <3>1, <3>3 DEF DraftInv, Holds
    <3>5. ~drafts[d].raced =>
             \A b \in Answer : Holds(b, d)' =>
                answers'[b].stage = "marked" /\ drafts'[d].used = answers'[b].choice
        BY <2>2, <2>3, <3>4
    <3>6. ~drafts'[d].raced <=> ~drafts[d].raced
        BY <2>2
    <3> QED BY <3>2, <3>4, <3>5, <3>6 DEF DraftInv
  <2>7. \A n \in 1..Len(cards') : cards'[n].draft <= Len(drafts')
      BY <2>2 DEF AnswersInv
  <2> QED BY <2>2, <2>3, <2>4, <2>5, <2>6, <2>7, <1>t DEF AnswersInv
<1>4. ASSUME NEW a \in Answer, CardRefused(a) PROVE AnswersInv'
  <2>1. /\ answers' = [answers EXCEPT ![a] = NoAnswer] /\ drafts' = drafts
        /\ NoAnswer \in AnswerState
      BY <1>4 DEF CardRefused, Done, NoAnswer, AnswerState, BoardChoices
  <2>2. /\ answers' \in [Answer -> AnswerState] /\ answers'[a].stage = "idle"
        /\ \A b \in Answer \ {a} : answers'[b] = answers[b]
      BY <2>1, <1>t DEF NoAnswer
  <2>3. \A b \in Answer : AnswerInv(b)'
      BY <2>1, <2>2 DEF AnswersInv, AnswerInv
  <2>4. \A d \in 1..Len(drafts) : DraftInv(d)'
    <3> SUFFICES ASSUME NEW d \in 1..Len(drafts) PROVE DraftInv(d)'
        OBVIOUS
    <3>1. \A b \in Answer : Holds(b, d)' => b # a /\ Holds(b, d)
        BY <2>2 DEF Holds
    <3> QED BY <1>0, <2>1, <2>2, <3>1 DEF AnswersInv, DraftInv
  <2> QED BY <2>1, <2>2, <2>3, <2>4, <1>t DEF AnswersInv
<1> QED BY <1>1, <1>2, <1>3, <1>4

\* The issue that is opened is the only card of a draft nobody raced for.
LEMMA StepOpenAnswers ==
    ASSUME AnswersInv, NEW a \in Answer, NEW home \in BOOLEAN, OpenCard(a, home)
    PROVE  AnswersInv'
<1> USE BoardAssumption
<1>0. PICK d : d = answers[a].draft
    OBVIOUS
<1> DEFINE new == [draft |-> d, choice |-> answers[a].choice, labels |-> LabelOf(answers[a].choice),
                   open |-> TRUE, home |-> home, worktree |-> FALSE]
<1>t. /\ drafts \in Seq(Draft) /\ answers \in [Answer -> AnswerState] /\ cards \in Seq(Card)
      /\ Len(drafts) \in Nat /\ Len(cards) \in Nat
    BY DEF AnswersInv
<1>1. /\ answers[a].stage = "marked" /\ d \in 1..Len(drafts) /\ answers[a].choice # "drop"
      /\ answers[a].choice \in BoardChoices
    BY <1>0, <1>t DEF OpenCard, AnswersInv, AnswerInv, AnswerState
<1>2. new \in Card
  <2>1. d \in 1..MaxDrafts
      BY <1>1, <1>t DEF AnswersInv
  <2>2. LabelOf(answers[a].choice) \in SUBSET Labels
      BY DEF LabelOf, Labels
  <2> QED BY <1>1, <2>1, <2>2 DEF Card
<1>3. new.draft = d /\ new.choice = answers[a].choice
    OBVIOUS
<1>4. cards' = Append(cards, new) /\ drafts' = drafts
    BY <1>0 DEF OpenCard, Opened
<1> HIDE DEF new
<1>5. /\ cards' \in Seq(Card) /\ Len(cards') = Len(cards) + 1
      /\ \A n \in 1..Len(cards) : cards'[n] = cards[n]
      /\ cards'[Len(cards) + 1] = new
    BY <1>2, <1>4, <1>t
<1>6. /\ answers' \in [Answer -> AnswerState] /\ answers'[a].stage = "idle"
      /\ \A b \in Answer \ {a} : answers'[b] = answers[b]
  <2>1. answers' = [answers EXCEPT ![a] = NoAnswer] /\ NoAnswer \in AnswerState
      BY DEF OpenCard, Done, NoAnswer, AnswerState, BoardChoices
  <2> QED BY <2>1, <1>t DEF NoAnswer
<1>7. \A b \in Answer : AnswerInv(b)'
    BY <1>4, <1>6 DEF AnswersInv, AnswerInv
<1>8. ASSUME NEW e \in 1..Len(drafts) \ {d} PROVE DraftInv(e)'
  <2>1. CardsOf(e)' = CardsOf(e) /\ \A n \in CardsOf(e) : cards'[n] = cards[n]
    <3>1. CardsOf(e) \subseteq 1..Len(cards)
        BY DEF CardsOf
    <3>2. \A n \in 1..Len(cards') : n \in 1..Len(cards) \/ n = Len(cards) + 1
        BY <1>5, <1>t
    <3> QED BY <1>3, <1>5, <1>t, <3>1, <3>2 DEF CardsOf
  <2>2. \A b \in Answer : Holds(b, e)' => Holds(b, e) /\ answers'[b] = answers[b]
      BY <1>6 DEF Holds
  <2>3. DraftInv(e)
      BY DEF AnswersInv
  <2>4. ~drafts[e].raced =>
            \A n \in CardsOf(e)' : cards'[n].choice = drafts[e].used /\ drafts[e].used # "drop"
      BY <2>1, <2>3 DEF DraftInv
  <2> QED BY <1>4, <2>1, <2>2, <2>3, <2>4 DEF DraftInv
<1>9. DraftInv(d)'
  <2>1. DraftInv(d) /\ Holds(a, d)
      BY <1>0, <1>1 DEF AnswersInv, Holds
  <2>2. \A b \in Answer : Holds(b, d)' => b # a /\ Holds(b, d) /\ answers'[b] = answers[b]
      BY <1>6 DEF Holds
  <2>3. drafts[d].used # "no"
      BY <1>1, <2>1 DEF DraftInv
  <2>4. ASSUME ~drafts[d].raced
        PROVE  /\ CardsOf(d)' = {Len(cards) + 1}
               /\ \A b \in Answer : ~Holds(b, d)'
               /\ drafts[d].used = answers[a].choice
    <3>1. CardsOf(d) = {} /\ drafts[d].used = answers[a].choice
        BY <1>1, <2>1, <2>4 DEF DraftInv
    <3>2. \A b \in Answer : ~Holds(b, d)'
        BY <2>1, <2>2, <2>4 DEF DraftInv
    <3>3. \A n \in 1..Len(cards') : n \in 1..Len(cards) \/ n = Len(cards) + 1
        BY <1>5, <1>t
    <3>4. CardsOf(d)' = {Len(cards) + 1}
        BY SMTT(30), <1>3, <1>5, <1>t, <3>1, <3>3 DEF CardsOf
    <3> QED BY <3>1, <3>2, <3>4
  <2>5. ~drafts[d].raced =>
            \A n \in CardsOf(d)' : cards'[n].choice = drafts[d].used /\ drafts[d].used # "drop"
      BY <1>1, <1>3, <1>5, <2>4
  <2> QED BY <1>4, <2>2, <2>3, <2>4, <2>5, <2>1 DEF DraftInv
<1>10. \A n \in 1..Len(cards') : cards'[n].draft <= Len(drafts')
  <2>1. \A n \in 1..Len(cards') : n \in 1..Len(cards) \/ n = Len(cards) + 1
      BY <1>5, <1>t
  <2> QED BY <1>1, <1>3, <1>4, <1>5, <2>1 DEF AnswersInv
<1> QED BY <1>4, <1>5, <1>6, <1>7, <1>8, <1>9, <1>10, <1>t DEF AnswersInv
-----------------------------------------------------------------------------
(* The cards and their ticks.                                              *)

\* An answer or a draft that touches no card, no tick and no session.
LEMMA TicksStand ==
    ASSUME TicksInv, UNCHANGED <<cards, ticks, sessions, lost>>
    PROVE  TicksInv'
BY DEF TicksInv, CardInv, TickInv, LabelInv, AboutTo, StartedFor, IsClaimed

\* A tick that moves takes a card into its hand or out of it.
LEMMA TickMoves ==
    ASSUME TicksInv, NEW k \in Tick, NEW v \in TickState, ticks' = [ticks EXCEPT ![k] = v],
           NEW n
    PROVE  /\ ticks' \in [Tick -> TickState] /\ ticks'[k] = v
           /\ \A j \in Tick \ {k} : ticks'[j] = ticks[j]
           /\ AboutTo(n)' = IF v.stage \in {"picked", "ready"} /\ v.card = n
                            THEN AboutTo(n) \cup {k} ELSE AboutTo(n) \ {k}
           /\ StartedFor(n)' = IF v.stage = "started" /\ v.card = n
                             THEN StartedFor(n) \cup {k} ELSE StartedFor(n) \ {k}
<1>1. /\ ticks' \in [Tick -> TickState] /\ ticks'[k] = v
      /\ \A j \in Tick \ {k} : ticks'[j] = ticks[j]
    BY DEF TicksInv
<1> QED BY <1>1 DEF AboutTo, StartedFor

\* How many have a card in hand after such a step.
LEMMA HandsCounted ==
    ASSUME NEW S, IsFiniteSet(S), NEW k
    PROVE  /\ Cardinality(S) \in Nat
           /\ Cardinality(S \cup {k}) = IF k \in S THEN Cardinality(S) ELSE Cardinality(S) + 1
           /\ Cardinality(S \ {k}) = IF k \in S THEN Cardinality(S) - 1 ELSE Cardinality(S)
           /\ S = {} <=> Cardinality(S) = 0
BY FS_AddElement, FS_RemoveElement, FS_EmptySet, FS_CardinalityType

\* The cards it does not touch are counted as before.
LEMMA OtherCards ==
    ASSUME TicksInv, NEW k \in Tick, NEW v \in TickState, ticks' = [ticks EXCEPT ![k] = v],
           NEW n, ticks[k].stage = "idle" \/ ticks[k].card = n, v.stage = "idle" \/ v.card = n,
           NEW e \in 1..MaxCards, e # n, sessions'[e] = sessions[e], lost'[e] = lost[e],
           IsClaimed(e)' <=> IsClaimed(e)
    PROVE  CardInv(e)'
<1>1. ticks'[k] = v /\ \A j \in Tick \ {k} : ticks'[j] = ticks[j]
    BY DEF TicksInv
<1>2. /\ ticks[k].card = e => ticks[k].stage = "idle"
      /\ v.card = e => v.stage = "idle"
    OBVIOUS
<1>3. AboutTo(e)' = AboutTo(e) /\ StartedFor(e)' = StartedFor(e)
    BY <1>1, <1>2 DEF AboutTo, StartedFor
<1>4. CardInv(e)
    BY DEF TicksInv
<1> QED BY <1>3, <1>4 DEF CardInv

\* What a tick says of its card goes on being true when cards only gain a
\* worktree, a claim, or the end of their time.
LEMMA OtherTicks ==
    ASSUME TicksInv, NEW k \in Tick, NEW v \in TickState, ticks' = [ticks EXCEPT ![k] = v],
           Len(cards') >= Len(cards), Len(cards') \in Nat,
           \A n \in 1..Len(cards) : /\ cards'[n].choice = cards[n].choice
                                    /\ cards[n].worktree => cards'[n].worktree
                                    /\ sessions[n] > 0 => sessions'[n] > 0,
           NEW j \in Tick, j # k
    PROVE  TickInv(j)'
<1>1. ticks'[j] = ticks[j] /\ TickInv(j) /\ Len(cards) \in Nat
    BY TickMoves DEF TicksInv
<1> QED BY <1>1 DEF TickInv

LEMMA StepPick == ASSUME TicksInv, NEW k \in Tick, Pick(k) PROVE TicksInv'
<1> USE BoardAssumption
<1>t. /\ cards \in Seq(Card) /\ Len(cards) \in Nat /\ Len(cards) <= MaxCards
      /\ sessions \in [1..MaxCards -> Nat] /\ lost \in [1..MaxCards -> Nat]
    BY DEF TicksInv
<1>0. PICK n : n = Oldest(Ready(Listed))
    OBVIOUS
<1>1. n \in Ready(Listed)
  <2>1. Ready(Listed) \subseteq Nat
      BY <1>t DEF Ready, Listed, Column
  <2>2. Ready(Listed) # {}
      BY DEF Pick
  <2> QED BY <1>0, <2>1, <2>2, OldestIsOne
<1>2. /\ n \in 1..Len(cards) /\ n \in 1..MaxCards
      /\ "agent-go" \in cards[n].labels /\ ~IsClaimed(n)
    BY <1>1, <1>t DEF Ready, Listed, Column, IsClaimed
<1>3. /\ ticks[k].stage = "idle" /\ UNCHANGED <<cards, sessions>>
      /\ ticks' = [ticks EXCEPT ![k] = [stage |-> "picked", card |-> n]]
      /\ lost' = IF Beside(k, n) = {} THEN lost ELSE [lost EXCEPT ![n] = @ + 1]
    BY <1>0 DEF Pick
<1> DEFINE v == [stage |-> "picked", card |-> n]
<1>4. v \in TickState /\ v.stage = "picked" /\ v.card = n
    BY <1>2 DEF TickState
<1>5. ticks' = [ticks EXCEPT ![k] = v]
    BY <1>3
<1> HIDE DEF v
<1>6. /\ ticks' \in [Tick -> TickState] /\ ticks'[k] = v
      /\ AboutTo(n)' = AboutTo(n) \cup {k}
    BY <1>4, <1>5, TickMoves
<1>7. lost' \in [1..MaxCards -> Nat] /\ \A e \in 1..MaxCards \ {n} : lost'[e] = lost[e]
    BY SMTT(30), <1>2, <1>3, <1>t
<1>8. CardInv(n)'
  <2>1. CardInv(n) /\ k \notin AboutTo(n) /\ k \notin StartedFor(n)
      BY <1>2, <1>3 DEF TicksInv, AboutTo, StartedFor
  <2>2. /\ Cardinality(AboutTo(n)) \in Nat
        /\ Cardinality(AboutTo(n) \cup {k}) = Cardinality(AboutTo(n)) + 1
        /\ AboutTo(n) = {} => Cardinality(AboutTo(n)) = 0
      BY <2>1, AboutToIsFinite, HandsCounted
  <2>3. CASE Beside(k, n) = {}
    <3>1. AboutTo(n) = {} /\ StartedFor(n) = {}
        BY <2>1, <2>3 DEF Beside, AboutTo, StartedFor
    <3>2. sessions[n] <= lost[n]
        BY <1>2, <2>1, <3>1 DEF CardInv
    <3>3. lost' = lost /\ sessions' = sessions /\ AboutTo(n)' # {}
        BY <1>3, <1>6, <2>3
    <3>4. Cardinality(AboutTo(n)') = 1
        BY <1>6, <2>2, <3>1
    <3> QED BY <1>2, <1>t, <3>2, <3>3, <3>4 DEF CardInv
  <2>4. CASE Beside(k, n) # {}
    <3>1. lost'[n] = lost[n] + 1 /\ sessions' = sessions /\ AboutTo(n)' # {}
        BY <1>2, <1>3, <1>6, <1>t, <2>4
    <3>2. Cardinality(AboutTo(n)') = Cardinality(AboutTo(n)) + 1
        BY <1>6, <2>2
    <3>3. sessions[n] + Cardinality(AboutTo(n)) <= lost[n] + 1
        BY <2>1 DEF CardInv
    <3>4. sessions'[n] + Cardinality(AboutTo(n)') <= lost'[n] + 1
        BY SMTT(30), <1>2, <1>t, <2>2, <3>1, <3>2, <3>3
    <3> QED BY <3>1, <3>4 DEF CardInv
  <2> QED BY <2>3, <2>4
<1>9. ASSUME NEW e \in 1..MaxCards, e # n PROVE CardInv(e)'
  <2>1. IsClaimed(e)' <=> IsClaimed(e)
      BY <1>3 DEF IsClaimed
  <2>2. sessions'[e] = sessions[e] /\ lost'[e] = lost[e]
      BY <1>3, <1>7, <1>9
  <2> QED BY <1>3, <1>4, <1>5, <1>9, <2>1, <2>2, OtherCards
<1>10. ASSUME NEW j \in Tick, j # k PROVE TickInv(j)'
  <2>1. ticks'[j] = ticks[j]
      BY <1>4, <1>5, <1>10, TickMoves
  <2>2. TickInv(j)
      BY DEF TicksInv
  <2> QED BY <1>3, <2>1, <2>2 DEF TickInv
<1>11. TickInv(k)'
  <2>1. LabelInv(n)
      BY <1>2 DEF TicksInv
  <2> QED BY <1>2, <1>3, <1>4, <1>6, <2>1 DEF LabelInv, TickInv
<1>12. \A m \in 1..Len(cards') : LabelInv(m)'
    BY <1>3 DEF TicksInv, LabelInv
<1> QED BY <1>3, <1>6, <1>7, <1>8, <1>9, <1>10, <1>11, <1>12, <1>t DEF TicksInv

\* A tick that has card n moves on, and changes that card or its counts alone.
LEMMA CardStep ==
    ASSUME TicksInv, NEW k \in Tick, NEW v \in TickState, ticks' = [ticks EXCEPT ![k] = v],
           NEW n \in 1..Len(cards), ticks[k].card = n, v.stage = "idle" \/ v.card = n,
           cards' \in Seq(Card), Len(cards') = Len(cards),
           \A e \in 1..Len(cards) \ {n} : cards'[e] = cards[e],
           cards'[n].choice = cards[n].choice, cards[n].worktree => cards'[n].worktree,
           sessions' \in [1..MaxCards -> Nat], sessions'[n] >= sessions[n],
           \A e \in 1..MaxCards \ {n} : sessions'[e] = sessions[e],
           lost' \in [1..MaxCards -> Nat],
           \A e \in 1..MaxCards \ {n} : lost'[e] = lost[e],
           CardInv(n)', TickInv(k)', LabelInv(n)'
    PROVE  TicksInv'
<1>t. /\ Len(cards) \in Nat /\ Len(cards) <= MaxCards /\ sessions \in [1..MaxCards -> Nat]
      /\ n \in 1..MaxCards /\ \A e \in 1..Len(cards) : e \in 1..MaxCards
    BY BoardAssumption DEF TicksInv
<1>1. /\ ticks' \in [Tick -> TickState] /\ ticks'[k] = v
      /\ \A j \in Tick \ {k} : ticks'[j] = ticks[j]
    BY TickMoves
<1>2. ASSUME NEW e \in 1..MaxCards, e # n PROVE CardInv(e)'
  <2>1. IsClaimed(e)' <=> IsClaimed(e)
    <3>1. e <= Len(cards) => e \in 1..Len(cards) \ {n}
        BY <1>2, <1>t
    <3> QED BY <3>1 DEF IsClaimed
  <2>2. sessions'[e] = sessions[e] /\ lost'[e] = lost[e]
      BY <1>2
  <2>3. AboutTo(e)' = AboutTo(e) /\ StartedFor(e)' = StartedFor(e)
      BY <1>1, <1>2 DEF AboutTo, StartedFor
  <2>4. CardInv(e)
      BY DEF TicksInv
  <2> QED BY <2>1, <2>2, <2>3, <2>4 DEF CardInv
<1>3. ASSUME NEW j \in Tick, j # k PROVE TickInv(j)'
  <2>1. ticks'[j] = ticks[j] /\ TickInv(j)
      BY <1>1, <1>3 DEF TicksInv
  <2>2. \A e \in 1..Len(cards) : /\ cards'[e].choice = cards[e].choice
                                 /\ cards[e].worktree => cards'[e].worktree
    <3> SUFFICES ASSUME NEW e \in 1..Len(cards)
                 PROVE  /\ cards'[e].choice = cards[e].choice
                        /\ cards[e].worktree => cards'[e].worktree
        OBVIOUS
    <3>1. e # n => cards'[e] = cards[e]
        OBVIOUS
    <3> QED BY <3>1
  <2>3. \A e \in 1..Len(cards) : sessions[e] > 0 => sessions'[e] > 0
    <3>1. \A e \in 1..MaxCards : sessions[e] \in Nat /\ sessions'[e] \in Nat
        BY <1>t
    <3> QED BY <1>t, <3>1
  <2> QED BY <2>1, <2>2, <2>3 DEF TickInv
<1>4. ASSUME NEW e \in 1..Len(cards), e # n PROVE LabelInv(e)'
  <2>1. e \in 1..MaxCards /\ e \in 1..Len(cards) \ {n}
      BY <1>4, <1>t
  <2>2. cards'[e] = cards[e] /\ sessions'[e] = sessions[e]
      BY <1>4, <2>1
  <2>3. LabelInv(e)
      BY DEF TicksInv
  <2> QED BY <2>2, <2>3 DEF LabelInv
<1> QED BY <1>1, <1>2, <1>3, <1>4, <1>t DEF TicksInv

\* What a tick on its way may rely on.
LEMMA AtWork ==
    ASSUME TicksInv, NEW k \in Tick, ticks[k].stage # "idle", NEW n, n = ticks[k].card
    PROVE  /\ n \in 1..Len(cards) /\ n \in 1..MaxCards
           /\ cards \in Seq(Card) /\ cards[n] \in Card
           /\ ticks[k] \in TickState
           /\ sessions[n] \in Nat /\ lost[n] \in Nat
           /\ CardInv(n) /\ TickInv(k) /\ LabelInv(n)
           /\ ticks[k].stage \in {"picked", "ready"} => k \in AboutTo(n) /\ k \notin StartedFor(n)
           /\ ticks[k].stage = "started" => k \in StartedFor(n) /\ k \notin AboutTo(n)
<1>1. n \in 1..Len(cards) /\ TickInv(k) /\ Len(cards) <= MaxCards /\ Len(cards) \in Nat
    BY DEF TicksInv, TickInv
<1>2. n \in 1..MaxCards
    BY <1>1, BoardAssumption
<1> QED BY <1>1, <1>2 DEF TicksInv, AboutTo, StartedFor

LEMMA StepAddWorktree == ASSUME TicksInv, NEW k \in Tick, AddWorktree(k) PROVE TicksInv'
<1>0. PICK n : n = ticks[k].card
    OBVIOUS
<1>1. /\ ticks[k].stage = "picked" /\ sessions' = sessions /\ lost' = lost
      /\ cards' = [cards EXCEPT ![n].worktree = TRUE]
      /\ ticks' = [ticks EXCEPT ![k].stage = "ready"]
    BY <1>0 DEF AddWorktree
<1>t. /\ n \in 1..Len(cards) /\ n \in 1..MaxCards
      /\ cards \in Seq(Card) /\ cards[n] \in Card
      /\ ticks[k] \in TickState
      /\ sessions[n] \in Nat /\ lost[n] \in Nat
      /\ CardInv(n) /\ TickInv(k) /\ LabelInv(n)
      /\ k \in AboutTo(n) /\ k \notin StartedFor(n)
    BY <1>0, <1>1, AtWork
<1> DEFINE v == [ticks[k] EXCEPT !.stage = "ready"]
           r == [cards[n] EXCEPT !.worktree = TRUE]
<1>2. v \in TickState /\ v.stage = "ready" /\ v.card = n
    BY <1>0, <1>t DEF TickState
<1>3. r \in Card /\ r.choice = cards[n].choice /\ r.labels = cards[n].labels
    BY <1>t DEF Card
<1>4. r.worktree = TRUE
    BY <1>t DEF Card
<1>5. ticks' = [ticks EXCEPT ![k] = v] /\ cards' = [cards EXCEPT ![n] = r]
    BY <1>1
<1> HIDE DEF v, r
<1>6. /\ cards' \in Seq(Card) /\ Len(cards') = Len(cards) /\ cards'[n] = r
      /\ \A e \in 1..Len(cards) \ {n} : cards'[e] = cards[e]
    BY <1>3, <1>5, <1>t
<1>7. /\ ticks'[k] = v /\ AboutTo(n)' = AboutTo(n) \cup {k} /\ StartedFor(n)' = StartedFor(n) \ {k}
    BY <1>2, <1>5, TickMoves
<1>8. CardInv(n)'
  <2>1. AboutTo(n)' = AboutTo(n) /\ AboutTo(n)' # {}
      BY <1>7, <1>t
  <2> QED BY <1>1, <1>t, <2>1 DEF CardInv
<1>9. TickInv(k)'
    BY <1>2, <1>3, <1>4, <1>6, <1>7, <1>0, <1>1, <1>t DEF TickInv
<1>10. LabelInv(n)'
    BY <1>1, <1>3, <1>4, <1>6, <1>t DEF LabelInv
<1>11. /\ sessions' \in [1..MaxCards -> Nat] /\ lost' \in [1..MaxCards -> Nat]
       /\ sessions'[n] >= sessions[n]
       /\ \A e \in 1..MaxCards \ {n} : sessions'[e] = sessions[e]
       /\ \A e \in 1..MaxCards \ {n} : lost'[e] = lost[e]
    BY <1>1, <1>t DEF TicksInv
<1>12. cards'[n].choice = cards[n].choice /\ (cards[n].worktree => cards'[n].worktree)
    BY <1>3, <1>4, <1>6
<1>13. ticks[k].card = n /\ v.card = n
    BY <1>0, <1>2
<1> QED BY <1>2, <1>5, <1>6, <1>8, <1>9, <1>10, <1>11, <1>12, <1>13, <1>t, CardStep

LEMMA StepStartFails == ASSUME TicksInv, NEW k \in Tick, StartFails(k) PROVE TicksInv'
<1>0. PICK n : n = ticks[k].card
    OBVIOUS
<1>1. /\ ticks[k].stage \in {"picked", "ready"} /\ cards' = cards /\ sessions' = sessions
      /\ lost' = lost /\ ticks' = [ticks EXCEPT ![k] = NoTick]
    BY DEF StartFails
<1>t. /\ n \in 1..Len(cards) /\ n \in 1..MaxCards
      /\ cards \in Seq(Card) /\ cards[n] \in Card
      /\ ticks[k] \in TickState
      /\ sessions[n] \in Nat /\ lost[n] \in Nat
      /\ CardInv(n) /\ TickInv(k) /\ LabelInv(n)
    BY <1>0, <1>1, AtWork
<1>2. NoTick \in TickState /\ NoTick.stage = "idle"
    BY BoardAssumption DEF NoTick, TickState
<1>3. ticks'[k] = NoTick /\ AboutTo(n)' = AboutTo(n) \ {k} /\ k \in AboutTo(n)
    BY <1>0, <1>1, <1>2, TickMoves, AtWork
<1>4. CardInv(n)'
  <2>1. /\ Cardinality(AboutTo(n)) \in Nat
        /\ Cardinality(AboutTo(n)') = Cardinality(AboutTo(n)) - 1
        /\ Cardinality(AboutTo(n)) # 0
      BY <1>3, AboutToIsFinite, HandsCounted
  <2>2. sessions[n] + Cardinality(AboutTo(n)) <= lost[n] + 1
      BY <1>t DEF CardInv
  <2>3. sessions[n] + Cardinality(AboutTo(n)') <= lost[n] + 1 /\ sessions[n] <= lost[n]
      BY <1>t, <2>1, <2>2
  <2> QED BY <1>1, <2>3 DEF CardInv
<1>5. TickInv(k)' /\ LabelInv(n)'
    BY <1>1, <1>2, <1>3, <1>t DEF TickInv, LabelInv
<1>f. /\ sessions' \in [1..MaxCards -> Nat] /\ lost' \in [1..MaxCards -> Nat]
      /\ sessions'[n] >= sessions[n]
      /\ \A e \in 1..MaxCards \ {n} : sessions'[e] = sessions[e]
      /\ \A e \in 1..MaxCards \ {n} : lost'[e] = lost[e]
    BY <1>1, <1>t DEF TicksInv
<1>c. /\ cards' \in Seq(Card) /\ Len(cards') = Len(cards)
      /\ \A e \in 1..Len(cards) \ {n} : cards'[e] = cards[e]
      /\ cards'[n].choice = cards[n].choice /\ (cards[n].worktree => cards'[n].worktree)
    BY <1>1, <1>t
<1> QED BY <1>0, <1>1, <1>2, <1>4, <1>5, <1>f, <1>c, <1>t, CardStep

LEMMA StepStartSession == ASSUME TicksInv, NEW k \in Tick, StartSession(k) PROVE TicksInv'
<1>0. PICK n : n = ticks[k].card
    OBVIOUS
<1>1. /\ ticks[k].stage = "ready" /\ cards' = cards
      /\ sessions' = [sessions EXCEPT ![n] = @ + 1] /\ lost' = lost
      /\ ticks' = [ticks EXCEPT ![k].stage = "started"]
    BY <1>0 DEF StartSession
<1>t. /\ n \in 1..Len(cards) /\ n \in 1..MaxCards
      /\ cards \in Seq(Card) /\ cards[n] \in Card
      /\ ticks[k] \in TickState
      /\ sessions[n] \in Nat /\ lost[n] \in Nat
      /\ CardInv(n) /\ TickInv(k) /\ LabelInv(n)
    BY <1>0, <1>1, AtWork
<1> DEFINE v == [ticks[k] EXCEPT !.stage = "started"]
<1>2. v \in TickState /\ v.stage = "started" /\ v.card = n
    BY <1>0, <1>t DEF TickState
<1>3. ticks' = [ticks EXCEPT ![k] = v]
    BY <1>1
<1> HIDE DEF v
<1>4. /\ ticks'[k] = v /\ AboutTo(n)' = AboutTo(n) \ {k} /\ k \in AboutTo(n)
      /\ StartedFor(n)' = StartedFor(n) \cup {k}
    BY ZenonT(30), <1>0, <1>1, <1>2, <1>3, TickMoves, AtWork
<1>5. sessions'[n] = sessions[n] + 1
    BY <1>1, <1>t DEF TicksInv
<1>6. CardInv(n)'
  <2>1. /\ Cardinality(AboutTo(n)) \in Nat
        /\ Cardinality(AboutTo(n)') = Cardinality(AboutTo(n)) - 1
      BY <1>4, AboutToIsFinite, HandsCounted
  <2>2. sessions[n] + Cardinality(AboutTo(n)) <= lost[n] + 1
      BY <1>t DEF CardInv
  <2>3. sessions'[n] + Cardinality(AboutTo(n)') <= lost'[n] + 1
      BY <1>1, <1>5, <1>t, <2>1, <2>2
  <2>4. StartedFor(n)' # {}
      BY <1>4
  <2> QED BY <2>3, <2>4 DEF CardInv
<1>7. TickInv(k)'
  <2>1. cards[n].choice = "todo" /\ cards[n].worktree
      BY <1>0, <1>1, <1>t DEF TickInv
  <2>2. sessions'[n] > 0
      BY <1>5, <1>t
  <2> QED BY <1>1, <1>2, <1>4, <1>t, <2>1, <2>2 DEF TickInv
<1>8. LabelInv(n)'
  <2>1. sessions[n] > 0 => sessions'[n] > 0
      BY <1>5, <1>t
  <2> QED BY <1>1, <1>t, <2>1 DEF LabelInv
<1>f. /\ sessions' \in [1..MaxCards -> Nat] /\ lost' \in [1..MaxCards -> Nat]
      /\ sessions'[n] >= sessions[n]
      /\ \A e \in 1..MaxCards \ {n} : sessions'[e] = sessions[e]
      /\ \A e \in 1..MaxCards \ {n} : lost'[e] = lost[e]
    BY <1>1, <1>t DEF TicksInv
<1>c. /\ cards' \in Seq(Card) /\ Len(cards') = Len(cards)
      /\ \A e \in 1..Len(cards) \ {n} : cards'[e] = cards[e]
      /\ cards'[n].choice = cards[n].choice /\ (cards[n].worktree => cards'[n].worktree)
    BY <1>1, <1>t
<1> QED BY <1>0, <1>2, <1>3, <1>6, <1>7, <1>8, <1>f, <1>c, <1>t, CardStep

LEMMA StepClaim == ASSUME TicksInv, NEW k \in Tick, Claim(k) PROVE TicksInv'
<1>0. PICK n : n = ticks[k].card
    OBVIOUS
<1>1. /\ ticks[k].stage = "started" /\ sessions' = sessions /\ lost' = lost
      /\ cards' = [cards EXCEPT ![n].labels = Claimed(n)]
      /\ ticks' = [ticks EXCEPT ![k] = NoTick]
    BY <1>0 DEF Claim
<1>t. /\ n \in 1..Len(cards) /\ n \in 1..MaxCards
      /\ cards \in Seq(Card) /\ cards[n] \in Card
      /\ ticks[k] \in TickState
      /\ sessions[n] \in Nat /\ lost[n] \in Nat
      /\ CardInv(n) /\ TickInv(k) /\ LabelInv(n)
    BY <1>0, <1>1, AtWork
<1> DEFINE r == [cards[n] EXCEPT !.labels = Claimed(n)]
<1>2. NoTick \in TickState /\ NoTick.stage = "idle"
    BY BoardAssumption DEF NoTick, TickState
<1>3. /\ r \in Card /\ r.choice = cards[n].choice /\ r.worktree = cards[n].worktree
      /\ r.labels = cards[n].labels \cup {"in-progress"}
  <2>1. Claimed(n) \in SUBSET Labels /\ Claimed(n) = cards[n].labels \cup {"in-progress"}
      BY <1>t DEF Claimed, Card, Labels
  <2>2. r \in Card /\ r.choice = cards[n].choice /\ r.labels = Claimed(n)
      BY <1>t, <2>1 DEF Card
  <2>3. r.worktree = cards[n].worktree
      BY <1>t DEF Card
  <2> QED BY <2>1, <2>2, <2>3
<1>4. cards' = [cards EXCEPT ![n] = r]
    BY <1>1
<1> HIDE DEF r
<1>c. /\ cards' \in Seq(Card) /\ Len(cards') = Len(cards) /\ cards'[n] = r
      /\ \A e \in 1..Len(cards) \ {n} : cards'[e] = cards[e]
    BY <1>3, <1>4, <1>t
<1>5. ticks'[k] = NoTick /\ AboutTo(n)' = AboutTo(n) \ {k} /\ k \notin AboutTo(n)
    BY <1>0, <1>1, <1>2, TickMoves, AtWork
<1>6. CardInv(n)'
  <2>1. AboutTo(n)' = AboutTo(n)
      BY <1>5
  <2>2. n <= Len(cards')
      BY <1>c, <1>t
  <2>3. IsClaimed(n)'
      BY <1>3, <1>c, <2>2 DEF IsClaimed
  <2> QED BY <1>1, <1>t, <2>1, <2>3 DEF CardInv
<1>7. TickInv(k)'
    BY <1>2, <1>5 DEF TickInv
<1>8. LabelInv(n)'
    BY <1>0, <1>1, <1>3, <1>c, <1>t DEF LabelInv, TickInv
<1>f. /\ sessions' \in [1..MaxCards -> Nat] /\ lost' \in [1..MaxCards -> Nat]
      /\ sessions'[n] >= sessions[n]
      /\ \A e \in 1..MaxCards \ {n} : sessions'[e] = sessions[e]
      /\ \A e \in 1..MaxCards \ {n} : lost'[e] = lost[e]
    BY <1>1, <1>t DEF TicksInv
<1>9. cards'[n].choice = cards[n].choice /\ (cards[n].worktree => cards'[n].worktree)
    BY <1>3, <1>c
<1> QED BY <1>0, <1>1, <1>2, <1>6, <1>7, <1>8, <1>9, <1>f, <1>c, <1>t, CardStep

LEMMA StepClaimLost == ASSUME TicksInv, NEW k \in Tick, ClaimLost(k) PROVE TicksInv'
<1>0. PICK n : n = ticks[k].card
    OBVIOUS
<1>1. /\ ticks[k].stage = "started" /\ cards' = cards /\ sessions' = sessions
      /\ lost' = [lost EXCEPT ![n] = @ + 1] /\ ticks' = [ticks EXCEPT ![k] = NoTick]
    BY <1>0 DEF ClaimLost
<1>t. /\ n \in 1..Len(cards) /\ n \in 1..MaxCards
      /\ cards \in Seq(Card) /\ cards[n] \in Card
      /\ ticks[k] \in TickState
      /\ sessions[n] \in Nat /\ lost[n] \in Nat
      /\ CardInv(n) /\ TickInv(k) /\ LabelInv(n)
    BY <1>0, <1>1, AtWork
<1>2. NoTick \in TickState /\ NoTick.stage = "idle"
    BY BoardAssumption DEF NoTick, TickState
<1>3. ticks'[k] = NoTick /\ AboutTo(n)' = AboutTo(n) \ {k} /\ k \notin AboutTo(n)
    BY <1>0, <1>1, <1>2, TickMoves, AtWork
<1>4. CardInv(n)'
  <2>1. AboutTo(n)' = AboutTo(n) /\ Cardinality(AboutTo(n)) \in Nat
      BY <1>3, AboutToIsFinite
  <2>2. sessions[n] + Cardinality(AboutTo(n)) <= lost[n] + 1
      BY <1>t DEF CardInv
  <2>3. lost'[n] = lost[n] + 1
      BY <1>1, <1>t DEF TicksInv
  <2>4. sessions[n] + Cardinality(AboutTo(n)) <= lost'[n] + 1 /\ sessions[n] <= lost'[n]
      BY <1>t, <2>1, <2>2, <2>3
  <2> QED BY <1>1, <2>1, <2>4 DEF CardInv
<1>5. TickInv(k)' /\ LabelInv(n)'
    BY <1>1, <1>2, <1>3, <1>t DEF TickInv, LabelInv
<1>f. /\ sessions' \in [1..MaxCards -> Nat] /\ lost' \in [1..MaxCards -> Nat]
      /\ sessions'[n] >= sessions[n]
      /\ \A e \in 1..MaxCards \ {n} : sessions'[e] = sessions[e]
      /\ \A e \in 1..MaxCards \ {n} : lost'[e] = lost[e]
    BY <1>1, <1>t DEF TicksInv
<1>c. /\ cards' \in Seq(Card) /\ Len(cards') = Len(cards)
      /\ \A e \in 1..Len(cards) \ {n} : cards'[e] = cards[e]
      /\ cards'[n].choice = cards[n].choice /\ (cards[n].worktree => cards'[n].worktree)
    BY <1>1, <1>t
<1> QED BY <1>0, <1>1, <1>2, <1>4, <1>5, <1>f, <1>c, <1>t, CardStep

LEMMA StepCloseCard == ASSUME TicksInv, NEW n, CloseCard(n) PROVE TicksInv'
<1> DEFINE r == [cards[n] EXCEPT !.open = FALSE]
<1>1. n \in 1..Len(cards) /\ cards \in Seq(Card) /\ Len(cards) \in Nat
    BY DEF CloseCard, TicksInv
<1>0. cards[n] \in Card
    BY <1>1
<1>2. r \in Card /\ r.choice = cards[n].choice /\ r.labels = cards[n].labels
    BY <1>0 DEF Card
<1>3. r.worktree = cards[n].worktree
    BY <1>0 DEF Card
<1>4. cards' = [cards EXCEPT ![n] = r] /\ UNCHANGED <<ticks, sessions, lost>>
    BY DEF CloseCard
<1> HIDE DEF r
<1>5. /\ cards' \in Seq(Card) /\ Len(cards') = Len(cards) /\ cards'[n] = r
      /\ \A e \in 1..Len(cards) \ {n} : cards'[e] = cards[e]
    BY <1>1, <1>2, <1>4
<1>6. \A e \in 1..Len(cards) : /\ cards'[e].choice = cards[e].choice
                               /\ cards'[e].labels = cards[e].labels
                               /\ cards'[e].worktree <=> cards[e].worktree
  <2> SUFFICES ASSUME NEW e \in 1..Len(cards)
               PROVE  /\ cards'[e].choice = cards[e].choice
                      /\ cards'[e].labels = cards[e].labels
                      /\ cards'[e].worktree <=> cards[e].worktree
      OBVIOUS
  <2>1. e # n => cards'[e] = cards[e]
      BY <1>5
  <2> QED BY <1>2, <1>3, <1>5, <2>1
<1>7. \A e \in 1..MaxCards : CardInv(e)'
  <2> SUFFICES ASSUME NEW e \in 1..MaxCards PROVE CardInv(e)'
      OBVIOUS
  <2>1. IsClaimed(e)' <=> IsClaimed(e)
    <3>1. e <= Len(cards) => e \in 1..Len(cards)
        BY <1>1
    <3> QED BY <1>5, <1>6, <3>1 DEF IsClaimed
  <2>2. AboutTo(e)' = AboutTo(e) /\ StartedFor(e)' = StartedFor(e)
      BY <1>4 DEF AboutTo, StartedFor
  <2> QED BY <1>4, <2>1, <2>2 DEF TicksInv, CardInv
<1>8. \A k \in Tick : TickInv(k)'
    BY <1>4, <1>5, <1>6 DEF TicksInv, TickInv
<1>9. \A e \in 1..Len(cards') : LabelInv(e)'
    BY <1>4, <1>5, <1>6 DEF TicksInv, LabelInv
<1> QED BY <1>4, <1>5, <1>7, <1>8, <1>9 DEF TicksInv

\* A card that is new was claimed by nobody and worked on by nobody.
LEMMA StepOpenTicks ==
    ASSUME TicksInv, NEW new \in Card, cards' = Append(cards, new), Len(cards) < MaxCards,
           "in-progress" \notin new.labels, "agent-go" \in new.labels => new.choice = "todo",
           UNCHANGED <<ticks, sessions, lost>>
    PROVE  TicksInv'
<1> USE BoardAssumption
<1>1. /\ cards \in Seq(Card) /\ Len(cards) \in Nat
    BY DEF TicksInv
<1>2. /\ cards' \in Seq(Card) /\ Len(cards') = Len(cards) + 1
      /\ \A e \in 1..Len(cards) : cards'[e] = cards[e]
      /\ cards'[Len(cards) + 1] = new
    BY <1>1
<1>3. \A e \in 1..Len(cards') : e \in 1..Len(cards) \/ e = Len(cards) + 1
    BY <1>1, <1>2
<1>4. \A e \in 1..MaxCards : CardInv(e)'
  <2> SUFFICES ASSUME NEW e \in 1..MaxCards PROVE CardInv(e)'
      OBVIOUS
  <2>1. IsClaimed(e)' <=> IsClaimed(e)
    <3>1. CASE e \in 1..Len(cards)
        BY <1>1, <1>2, <3>1 DEF IsClaimed
    <3>2. CASE e = Len(cards) + 1
        BY <1>1, <1>2, <3>2 DEF IsClaimed
    <3>3. CASE e > Len(cards) + 1
        BY <1>1, <1>2, <3>3 DEF IsClaimed
    <3> QED BY <1>1, <3>1, <3>2, <3>3
  <2>2. AboutTo(e)' = AboutTo(e) /\ StartedFor(e)' = StartedFor(e)
      BY DEF AboutTo, StartedFor
  <2> QED BY <2>1, <2>2 DEF TicksInv, CardInv
<1>5. \A k \in Tick : TickInv(k)'
    BY SMTT(30), <1>1, <1>2 DEF TicksInv, TickInv
<1>6. \A e \in 1..Len(cards') : LabelInv(e)'
  <2>1. \A e \in 1..Len(cards) : LabelInv(e)'
      BY <1>2 DEF TicksInv, LabelInv
  <2>2. ASSUME NEW e, e = Len(cards) + 1 PROVE LabelInv(e)'
      BY <1>2, <2>2 DEF LabelInv
  <2> QED BY <1>3, <2>1, <2>2
<1>7. Len(cards') <= MaxCards
    BY <1>1, <1>2
<1> QED BY <1>2, <1>4, <1>5, <1>6, <1>7 DEF TicksInv

-----------------------------------------------------------------------------
\* What a tick and a closing do to the cards, as the answers see it.
LEMMA RelabelledStand ==
    ASSUME AnswersInv, NEW n \in 1..Len(cards), NEW r \in Card, cards' = [cards EXCEPT ![n] = r],
           r.draft = cards[n].draft, r.choice = cards[n].choice,
           drafts' = drafts, answers' = answers
    PROVE  AnswersInv'
<1>1. /\ cards' \in Seq(Card) /\ Len(cards') = Len(cards) /\ cards'[n] = r
      /\ \A e \in 1..Len(cards) \ {n} : cards'[e] = cards[e]
    BY DEF AnswersInv
<1>2. \A e \in 1..Len(cards) : /\ cards'[e].draft = cards[e].draft
                               /\ cards'[e].choice = cards[e].choice
  <2> SUFFICES ASSUME NEW e \in 1..Len(cards)
               PROVE  /\ cards'[e].draft = cards[e].draft
                      /\ cards'[e].choice = cards[e].choice
      OBVIOUS
  <2>1. e # n => cards'[e] = cards[e]
      BY <1>1
  <2> QED BY <1>1, <2>1
<1> QED BY <1>1, <1>2, AnswersStand

LEMMA StepBoard == BoardInv /\ [BoardNext]_boardVars => BoardInv'
<1> SUFFICES ASSUME BoardInv, [BoardNext]_boardVars PROVE BoardInv'
    OBVIOUS
<1> USE BoardAssumption
<1>t. /\ AnswersInv /\ TicksInv /\ boardFaults \in 0..MaxBoardFaults
      /\ cards \in Seq(Card) /\ Len(cards) \in Nat
    BY DEF BoardInv, TicksInv
<1>q. ASSUME cards' = cards, drafts' = drafts, answers' = answers PROVE AnswersInv'
    BY <1>q, <1>t, AnswersStand
<1>f. BoardFault => boardFaults' \in 0..MaxBoardFaults
    BY <1>t DEF BoardFault
<1>1. CASE MakeDraft
  <2>1. UNCHANGED <<cards, ticks, sessions, lost, boardFaults>>
      BY <1>1 DEF MakeDraft
  <2> QED BY <1>1, <1>t, <2>1, StepAnswers, TicksStand DEF BoardInv
<1>2. ASSUME NEW a \in Answer, IdeaAnswering(a) PROVE BoardInv'
  <2>1. ASSUME NEW d \in 1..MaxDrafts, NEW c \in BoardChoices, ReadDraft(a, d, c)
        PROVE  BoardInv'
    <3>1. UNCHANGED <<cards, ticks, sessions, lost, boardFaults>>
        BY <2>1 DEF ReadDraft
    <3> QED BY <2>1, <1>t, <3>1, StepAnswers, TicksStand DEF BoardInv
  <2>2. CASE MarkUsed(a)
    <3>1. UNCHANGED <<cards, ticks, sessions, lost, boardFaults>>
        BY <2>2 DEF MarkUsed
    <3> QED BY <2>2, <1>t, <3>1, StepAnswers, TicksStand DEF BoardInv
  <2>3. ASSUME NEW home \in BOOLEAN, OpenCard(a, home) PROVE BoardInv'
    <3>1. AnswersInv'
        BY <2>3, <1>t, StepOpenAnswers
    <3> DEFINE c == answers[a].choice
               new == [draft |-> answers[a].draft, choice |-> c, labels |-> LabelOf(c),
                       open |-> TRUE, home |-> home, worktree |-> FALSE]
    <3>2. answers[a].draft \in 1..MaxDrafts /\ c \in BoardChoices
      <4>1. /\ answers[a] \in AnswerState /\ answers[a].draft \in 1..Len(drafts)
            /\ Len(drafts) \in Nat /\ Len(drafts) <= MaxDrafts
          BY <2>3, <1>t DEF OpenCard, AnswersInv, AnswerInv
      <4> QED BY <4>1 DEF AnswerState
    <3>3. /\ LabelOf(c) \in SUBSET Labels /\ "in-progress" \notin LabelOf(c)
          /\ "agent-go" \in LabelOf(c) => c = "todo"
        BY DEF LabelOf, Labels
    <3>4. /\ new \in Card /\ "in-progress" \notin new.labels
          /\ "agent-go" \in new.labels => new.choice = "todo"
        BY <3>2, <3>3 DEF Card
    <3>5. /\ cards' = Append(cards, new) /\ Len(cards) < MaxCards
          /\ UNCHANGED <<ticks, sessions, lost, boardFaults>>
        BY <2>3 DEF OpenCard, Opened
    <3> HIDE DEF new
    <3>6. TicksInv'
        BY <1>t, <3>4, <3>5, StepOpenTicks
    <3> QED BY <1>t, <3>1, <3>5, <3>6 DEF BoardInv
  <2>4. CASE CardRefused(a)
    <3>1. UNCHANGED <<cards, ticks, sessions, lost>> /\ BoardFault
        BY <2>4 DEF CardRefused
    <3> QED BY <2>4, <1>t, <1>f, <3>1, StepAnswers, TicksStand DEF BoardInv
  <2> QED BY <1>2, <2>1, <2>2, <2>3, <2>4 DEF IdeaAnswering
<1>3. ASSUME NEW k \in Tick, TickStep(k) \/ StartFails(k) \/ ClaimLost(k) PROVE BoardInv'
  <2>n. PICK n : n = ticks[k].card
      OBVIOUS
  <2>w. ticks[k].stage # "idle" => n \in 1..Len(cards) /\ cards[n] \in Card
      BY <1>t, <2>n, AtWork
  <2>1. CASE Pick(k)
      BY <2>1, <1>t, <1>q, StepPick DEF Pick, BoardInv
  <2>2. CASE AddWorktree(k)
    <3> DEFINE r == [cards[n] EXCEPT !.worktree = TRUE]
    <3>1. cards' = [cards EXCEPT ![n] = r] /\ UNCHANGED <<drafts, answers, boardFaults>>
        BY <2>2, <2>n DEF AddWorktree
    <3>2. /\ n \in 1..Len(cards) /\ r \in Card /\ r.draft = cards[n].draft
          /\ r.choice = cards[n].choice
        BY <2>2, <2>w DEF AddWorktree, Card
    <3> HIDE DEF r
    <3>3. AnswersInv'
        BY <1>t, <3>1, <3>2, RelabelledStand
    <3> QED BY <2>2, <1>t, <3>1, <3>3, StepAddWorktree DEF BoardInv
  <2>3. CASE StartSession(k)
      BY <2>3, <1>t, <1>q, StepStartSession DEF StartSession, BoardInv
  <2>4. CASE Claim(k)
    <3> DEFINE r == [cards[n] EXCEPT !.labels = Claimed(n)]
    <3>1. cards' = [cards EXCEPT ![n] = r] /\ UNCHANGED <<drafts, answers, boardFaults>>
        BY <2>4, <2>n DEF Claim
    <3>2. n \in 1..Len(cards) /\ cards[n] \in Card
        BY <2>4, <2>w DEF Claim
    <3>3. Claimed(n) \in SUBSET Labels
        BY <3>2 DEF Claimed, Card, Labels
    <3>4. r \in Card /\ r.draft = cards[n].draft /\ r.choice = cards[n].choice
        BY <3>2, <3>3 DEF Card
    <3> HIDE DEF r
    <3>5. AnswersInv'
        BY <1>t, <3>1, <3>2, <3>4, RelabelledStand
    <3> QED BY <2>4, <1>t, <3>1, <3>5, StepClaim DEF BoardInv
  <2>5. CASE StartFails(k)
      BY <2>5, <1>t, <1>f, <1>q, StepStartFails DEF StartFails, BoardInv
  <2>6. CASE ClaimLost(k)
      BY <2>6, <1>t, <1>f, <1>q, StepClaimLost DEF ClaimLost, BoardInv
  <2> QED BY <1>3, <2>1, <2>2, <2>3, <2>4, <2>5, <2>6 DEF TickStep
<1>4. ASSUME NEW n \in 1..MaxCards, CloseCard(n) PROVE BoardInv'
  <2> DEFINE r == [cards[n] EXCEPT !.open = FALSE]
  <2>1. /\ n \in 1..Len(cards) /\ cards' = [cards EXCEPT ![n] = r]
        /\ UNCHANGED <<drafts, answers, boardFaults>>
      BY <1>4 DEF CloseCard
  <2>2. cards[n] \in Card
      BY <1>t, <2>1
  <2>3. r \in Card /\ r.draft = cards[n].draft /\ r.choice = cards[n].choice
      BY <2>2 DEF Card
  <2> HIDE DEF r
  <2>4. AnswersInv'
      BY <1>t, <2>1, <2>3, RelabelledStand
  <2> QED BY <1>4, <1>t, <2>1, <2>4, StepCloseCard DEF BoardInv
<1>5. CASE UNCHANGED boardVars
  <2>1. /\ UNCHANGED <<cards, ticks, sessions, lost>> /\ drafts' = drafts /\ answers' = answers
        /\ boardFaults' = boardFaults
      BY <1>5 DEF boardVars
  <2> QED BY <1>t, <1>q, <2>1, TicksStand DEF BoardInv
<1> QED BY <1>1, <1>2, <1>3, <1>4, <1>5 DEF BoardNext

LEMMA BoardInvariant == BoardSpec => []BoardInv
<1> QED BY InitBoard, StepBoard, PTL DEF BoardSpec

-----------------------------------------------------------------------------
\* The drafts, the answers, the issues and the ticks are well typed.
THEOREM BoardTyped == BoardSpec => []BoardTypeOK
<1>1. BoardInv => BoardTypeOK
    BY DEF BoardInv, AnswersInv, TicksInv, BoardTypeOK
<1> QED BY <1>1, BoardInvariant, PTL

\* However answers and ticks overlap and whatever fails: a card is made by an
\* answer, twice only by two answers that overlapped; it is worked on again only
\* for a claim that was lost or an overlap of ticks; and it is claimed only when
\* it has been started.
THEOREM NothingMadeForNothing == BoardSpec => []WorkIsPaidFor
<1>1. BoardInv => OneAnswerOneCard
  <2> SUFFICES ASSUME BoardInv, NEW d \in 1..Len(drafts)
               PROVE  /\ CardsOf(d) # {} => drafts[d].used # "no"
                      /\ ~drafts[d].raced =>
                            /\ Cardinality(CardsOf(d)) <= 1
                            /\ \A n \in CardsOf(d) : /\ cards[n].choice = drafts[d].used
                                                     /\ drafts[d].used # "drop"
      BY DEF OneAnswerOneCard
  <2>1. DraftInv(d)
      BY DEF BoardInv, AnswersInv
  <2>2. ASSUME ~drafts[d].raced PROVE Cardinality(CardsOf(d)) <= 1
    <3>1. \A n, m \in CardsOf(d) : n = m
        BY <2>1, <2>2 DEF DraftInv
    <3>2. CASE CardsOf(d) = {}
        BY <3>2, FS_EmptySet
    <3>3. CASE CardsOf(d) # {}
      <4>1. PICK n : CardsOf(d) = {n}
          BY <3>1, <3>3
      <4>2. Cardinality({n}) = 1
          BY FS_Singleton
      <4>3. Cardinality(CardsOf(d)) = 1
          BY <4>1, <4>2
      <4> QED BY <4>3
    <3> QED BY <3>2, <3>3
  <2> QED BY <2>1, <2>2 DEF DraftInv
<1>2. BoardInv => SecondSessionIsPaidFor
  <2> SUFFICES ASSUME BoardInv, NEW n \in 1..MaxCards PROVE sessions[n] <= 1 + lost[n]
      BY DEF SecondSessionIsPaidFor
  <2>1. /\ sessions[n] + Cardinality(AboutTo(n)) <= lost[n] + 1
        /\ sessions[n] \in Nat /\ lost[n] \in Nat
      BY DEF BoardInv, TicksInv, CardInv
  <2> QED BY <2>1, AboutToIsFinite
<1>3. BoardInv => ClaimedWasStarted
    BY DEF BoardInv, TicksInv, LabelInv, ClaimedWasStarted
<1>4. BoardInv => WorkIsPaidFor
    BY <1>1, <1>2, <1>3 DEF WorkIsPaidFor
<1> QED BY <1>4, BoardInvariant, PTL

-----------------------------------------------------------------------------
(* Onboarding. RunsInv is what the runs, the registry and the keys keep to *)
(* among themselves; DiskInv says which files a lone run has on the disk   *)
(* at each stage, so that what an interrupted promotion leaves is known.   *)

\* The key a run has and the manifest it was started with, by its stage.
RunShape(m, o) ==
    /\ o.stage \in {"idle", "registered", "keyless"} => o.key = 0
    /\ o.stage \notin OnbOver => Sound(m)
    /\ o.stage \notin OnbOver \cup {"registered", "keyless"} => o.key # 0

Keyed == {r \in Run : onb[r].key # 0}

\* A run past its look at the prior inventory.
PastLook(s) == s \notin OnbOver \cup {"registered", "keyless", "keyed"}

Owns(s) == s \notin {"idle", "refused", "died"}

AllNames(m) == Names(m, Len(m.tools))

NamesAreOwned ==
    \A r \in Embedded : Owns(onb[r].stage) =>
        /\ AllNames(manifest[r]) \subseteq registry
        /\ \A s \in Embedded : (s # r /\ Owns(onb[s].stage)) =>
              AllNames(manifest[r]) \cap AllNames(manifest[s]) = {}

OnboardsAlone == ~overlapped => \A r, s \in UnderWay : r = s

RunsInv ==
    /\ OnbTypeOK
    /\ IsFiniteSet(registry)
    /\ \A r \in Run : RunShape(manifest[r], onb[r])
    /\ minted <= Cardinality(Keyed)
    /\ \A s \in seen : onb[s].key # 0 /\ Sound(manifest[s])
    /\ NamesAreOwned
    /\ OnboardsAlone

\* A name nobody wrote holds nothing, and nobody edits what is only staged.
DiskIsWritten ==
    /\ \A f \in File : disk[f].by = NoRun => disk[f] = Absent
    /\ disk["inv.pending"].sound

\* An inventory that was edited was looked at before the edit, or not yet.
LookedBefore == ~disk["inv"].sound => \A r \in Run : PastLook(onb[r].stage) => r \in late

\* A run that found no key still finds none; one that has a key has the disk's.
KeyOf(o, k) ==
    /\ o.stage = "keyless" => k = 0
    /\ o.stage \notin OnbOver \cup {"registered", "keyless"} => o.key = k /\ k # 0

\* As long as no two runs overlapped, there is one key and all is signed by it.
OneKey ==
    ~overlapped =>
        /\ \A f \in File : disk[f].by # NoRun => disk[f].key = keyFile /\ keyFile # 0
        /\ \A r \in Run : KeyOf(onb[r], keyFile)

\* The two published files are of one run, which was admitted.
PairIsWhole(d, o) ==
    d["inv"].by = d["cat"].by /\ (d["inv"].by # NoRun => o[d["inv"].by].stage = "admitted")

\* What a run has staged and published at each of its stages.
FilesAt(d, o, r) ==
    /\ d["inv.pending"].by = IF o[r].stage \in {"staged", "stagedBoth", "green", "red"} THEN r ELSE NoRun
    /\ d["cat.pending"].by = IF o[r].stage \in {"stagedBoth", "green", "red", "redder", "promoted"}
                             THEN r ELSE NoRun
    /\ IF o[r].stage = "promoted" THEN d["inv"].by = r ELSE PairIsWhole(d, o)

\* Undisturbed, the files are as the run under way left them, or as the last did.
QuietFiles ==
    (~overlapped /\ onbFaults = 0) =>
        /\ \A r \in UnderWay : FilesAt(disk, onb, r)
        /\ UnderWay = {} => /\ disk["inv.pending"].by = NoRun /\ disk["cat.pending"].by = NoRun
                            /\ PairIsWhole(disk, onb)

DiskInv == DiskIsWritten /\ LookedBefore /\ OneKey /\ QuietFiles

OnbInv == RunsInv /\ DiskInv

-----------------------------------------------------------------------------
\* The names of the first n tools of a manifest.
LEMMA NamesOfManifest ==
    ASSUME NEW m \in ManifestKind, NEW n \in 0..Len(m.tools)
    PROVE  /\ IsFiniteSet(Names(m, n))
           /\ n = 0 => Names(m, n) = {}
           /\ n # 0 => Names(m, n) = Names(m, n - 1) \cup {m.tools[n].name}
<1>1. Len(m.tools) \in Nat /\ n \in Nat
    BY DEF ManifestKind
<1>2. IsFiniteSet(Names(m, n))
  <2> DEFINE f == [k \in 1..n |-> m.tools[k].name]
  <2>1. f \in Surjection(1..n, Names(m, n))
      BY DEF Surjection, Names
  <2>2. IsFiniteSet(1..n)
      BY <1>1, FS_Interval
  <2> QED BY <2>1, <2>2, FS_Surjection
<1>3. n = 0 => Names(m, n) = {}
    BY DEF Names
<1>4. ASSUME n # 0 PROVE Names(m, n) = Names(m, n - 1) \cup {m.tools[n].name}
  <2>1. \A k : k \in 1..n <=> k \in 1..(n - 1) \/ k = n
      BY <1>1, <1>4
  <2> QED BY <2>1 DEF Names
<1> QED BY <1>2, <1>3, <1>4

\* Taken is well defined: the tools before the first that does not fit.
LEMMA TakenFits ==
    ASSUME NEW m \in ManifestKind, NEW reg
    PROVE  /\ Taken(m, reg) \in 0..Len(m.tools)
           /\ \A k \in 1..Taken(m, reg) : Fits(m, k, reg)
<1>1. Len(m.tools) \in Nat
    BY DEF ManifestKind
<1> DEFINE Stops == {n \in 0..Len(m.tools) : n = Len(m.tools) \/ ~Fits(m, n + 1, reg)}
<1>2. Len(m.tools) \in Stops /\ Stops \in SUBSET Nat
    BY <1>1
<1> HIDE DEF Stops
<1>3. PICK n \in Stops : \A k \in Stops : n <= k
    BY <1>2, LeastNumber
<1>4. n \in 0..Len(m.tools) /\ (n = Len(m.tools) \/ ~Fits(m, n + 1, reg))
    BY <1>3 DEF Stops
<1>5. ASSUME NEW k \in 1..n PROVE Fits(m, k, reg)
  <2>1. k - 1 \in 0..Len(m.tools) /\ ~(n <= k - 1) /\ k - 1 # Len(m.tools) /\ (k - 1) + 1 = k
      BY <1>1, <1>4
  <2>2. k - 1 \notin Stops
      BY <1>3, <2>1
  <2>3. Fits(m, (k - 1) + 1, reg)
      BY <2>1, <2>2 DEF Stops
  <2> QED BY <2>1, <2>3
<1> QED BY <1>4, <1>5 DEF Taken

\* Registering a manifest's tools, all of them or up to a refusal, keeps the
\* registry within its size, and the names taken were free.
LEMMA TakenKeepsWithin ==
    ASSUME NEW m \in ManifestKind, NEW reg, IsFiniteSet(reg), Cardinality(reg) <= RegistryMax
    PROVE  /\ IsFiniteSet(reg \cup Names(m, Taken(m, reg)))
           /\ Cardinality(reg \cup Names(m, Taken(m, reg))) <= RegistryMax
           /\ Names(m, Taken(m, reg)) \cap reg = {}
<1>1. PICK n : n = Taken(m, reg)
    OBVIOUS
<1>2. n \in 0..Len(m.tools) /\ \A k \in 1..n : Fits(m, k, reg)
    BY <1>1, TakenFits
<1>3. Len(m.tools) \in Nat /\ RegistryMax \in Nat
    BY OnboardingAssumption DEF ManifestKind
<1>4. CASE n = 0
  <2>1. Names(m, n) = {}
      BY <1>2, <1>4, NamesOfManifest
  <2>2. reg \cup Names(m, n) = reg
      BY <2>1
  <2> QED BY <1>1, <2>1, <2>2
<1>5. CASE n # 0
  <2>1. n \in 1..n /\ n - 1 \in 0..Len(m.tools)
      BY <1>2, <1>3, <1>5
  <2>2. Cardinality(reg \cup Names(m, n - 1)) < RegistryMax
      BY <1>2, <2>1 DEF Fits
  <2>3. IsFiniteSet(reg \cup Names(m, n - 1))
      BY <2>1, NamesOfManifest, FS_Union
  <2>4. reg \cup Names(m, n) = (reg \cup Names(m, n - 1)) \cup {m.tools[n].name}
      BY <1>2, <1>5, NamesOfManifest
  <2>5. PICK s, x : s = reg \cup Names(m, n - 1) /\ x = m.tools[n].name
      OBVIOUS
  <2>6. IsFiniteSet(s \cup {x}) /\ Cardinality(s) \in Nat
        /\ Cardinality(s \cup {x}) = IF x \in s THEN Cardinality(s) ELSE Cardinality(s) + 1
      BY <2>3, <2>5, FS_AddElement, FS_CardinalityType
  <2>7. Cardinality(s \cup {x}) <= RegistryMax
      BY <1>3, <2>2, <2>5, <2>6
  <2>8. ASSUME NEW x2 \in Names(m, n) PROVE x2 \notin reg
    <3>1. PICK k \in 1..n : x2 = m.tools[k].name
        BY <2>8 DEF Names
    <3>2. Fits(m, k, reg)
        BY <1>2, <3>1
    <3> QED BY <3>1, <3>2 DEF Fits
  <2>9. Names(m, n) \cap reg = {}
      BY <2>8
  <2> QED BY <1>1, <2>4, <2>5, <2>6, <2>7, <2>9
<1> QED BY <1>4, <1>5

-----------------------------------------------------------------------------
LEMMA OnbFacts == OnbInv => OnbTypeOK /\ OnboardedWhole
<1> SUFFICES ASSUME OnbInv PROVE OnbTypeOK /\ OnboardedWhole
    OBVIOUS
<1>1. OnbTypeOK
    BY DEF OnbInv, RunsInv
<1>2. QuietRunIsWhole
    BY DEF OnbInv, DiskInv, QuietFiles, QuietRunIsWhole, DiskIsWritten, File, PairIsWhole, Stage
<1>3. KeyIsStable
    BY DEF OnbInv, DiskInv, OneKey, KeyIsStable, File
<1>4. OneOwnerPerTool
    BY DEF OnbInv, RunsInv, NamesAreOwned, OneOwnerPerTool, Owns, AllNames
<1> QED BY <1>1, <1>2, <1>3, <1>4 DEF OnboardedWhole

LEMMA OnbInitInv == OnbInit => OnbInv
<1> SUFFICES ASSUME OnbInit PROVE OnbInv
    OBVIOUS
<1> USE OnboardingAssumption
<1>1. \A r \in Run : onb[r].stage = "idle" /\ onb[r].key = 0
    BY DEF OnbInit
<1>2. disk = [f \in File |-> Absent] /\ Absent \in Content /\ Absent.by = NoRun /\ Absent.sound
    BY DEF OnbInit, Absent, Content
<1>3. \A f \in File : disk[f] = Absent
    BY <1>2
<1>4. Cardinality(Run) \in Nat /\ IsFiniteSet({}) /\ Cardinality({}) = 0
    BY FS_CardinalityType, FS_EmptySet
<1>5. UnderWay = {} /\ Keyed = {}
    BY <1>1 DEF UnderWay, OnbOver, Keyed
<1>6. OnbTypeOK
  <2>1. manifest \in [Run -> Manifest]
      BY DEF OnbInit
  <2>2. onb \in [Run -> [stage : OnbStages, key : Nat]]
      BY DEF OnbInit, OnbStages
  <2>3. disk \in [File -> Content]
      BY <1>2
  <2>4. Cardinality(registry) <= RegistryMax /\ keyFile \in 0..minted /\ minted \in 0..Cardinality(Run)
      BY <1>4 DEF OnbInit
  <2>5. seen \subseteq Run /\ late \subseteq Run /\ overlapped \in BOOLEAN
      BY DEF OnbInit
  <2>6. onbFaults \in 0..MaxOnbFaults
      BY DEF OnbInit
  <2> QED BY <2>1, <2>2, <2>3, <2>4, <2>5, <2>6 DEF OnbTypeOK
<1>7. RunsInv
  <2>1. \A r \in Run : RunShape(manifest[r], onb[r])
      BY <1>1 DEF RunShape, OnbOver
  <2>2. NamesAreOwned
      BY <1>1 DEF NamesAreOwned, Owns
  <2>3. OnboardsAlone
      BY <1>5 DEF OnboardsAlone
  <2> QED BY <1>4, <1>5, <1>6, <2>1, <2>2, <2>3 DEF RunsInv, OnbInit
<1>8. DiskInv
  <2>1. "inv" \in File /\ "cat" \in File /\ "inv.pending" \in File /\ "cat.pending" \in File
      BY DEF File
  <2>2. DiskIsWritten
      BY <1>2, <1>3, <2>1 DEF DiskIsWritten
  <2>3. LookedBefore
      BY <1>2, <1>3, <2>1 DEF LookedBefore
  <2>4. OneKey
      BY <1>1, <1>2, <1>3 DEF OneKey, KeyOf, OnbOver
  <2>5. QuietFiles
      BY <1>2, <1>3, <1>5, <2>1 DEF QuietFiles, PairIsWhole
  <2> QED BY <2>2, <2>3, <2>4, <2>5 DEF DiskInv
<1> QED BY <1>7, <1>8 DEF OnbInv

-----------------------------------------------------------------------------
\* A run that is under way takes a step, mints a key or not, is seen or not, and
\* leaves the registry alone: what the runs say of each other stays true.
LEMMA RunMoves ==
    ASSUME RunsInv, NEW r \in Run, NEW b \in OnbStages, NEW k \in Nat, b # "idle",
           onb[r].stage \notin OnbOver, onb' = [onb EXCEPT ![r] = [stage |-> b, key |-> k]],
           RunShape(manifest[r], [stage |-> b, key |-> k]),
           onb[r].key # 0 => k = onb[r].key,
           disk' \in [File -> Content], keyFile' \in 0..minted',
           minted' = minted \/ (minted' = minted + 1 /\ onb[r].key = 0 /\ k # 0),
           seen' \subseteq seen \/ (seen' \subseteq seen \cup {r} /\ k # 0),
           late' \subseteq Run, onbFaults' \in 0..MaxOnbFaults,
           UNCHANGED <<manifest, registry, overlapped>>
    PROVE  RunsInv'
<1>1. OnbTypeOK /\ onb \in [Run -> [stage : OnbStages, key : Nat]]
    BY DEF RunsInv, OnbTypeOK
<1>2. /\ onb'[r].stage = b /\ onb'[r].key = k
      /\ \A s \in Run : s # r => onb'[s] = onb[s]
    BY <1>1
<1>3. onb' \in [Run -> [stage : OnbStages, key : Nat]]
    BY <1>1
<1>4. Sound(manifest[r])
    BY DEF RunsInv, RunShape
<1>5. minted' <= Cardinality(Keyed') /\ minted' \in 0..Cardinality(Run)
  <2>1. IsFiniteSet(Keyed) /\ Cardinality(Keyed) \in Nat /\ minted \in Nat /\ minted <= Cardinality(Keyed)
      BY <1>1, OnboardingAssumption, FS_Subset, FS_CardinalityType DEF Keyed, RunsInv, OnbTypeOK
  <2>2. CASE k = 0
    <3>1. Keyed' = Keyed
        BY <1>1, <1>2, <2>2 DEF Keyed
    <3> QED BY <1>1, <2>1, <2>2, <3>1 DEF RunsInv, OnbTypeOK
  <2>3. CASE k # 0
    <3>1. Keyed' = Keyed \cup {r}
        BY <1>1, <1>2, <2>3 DEF Keyed
    <3>2. r \in Keyed <=> onb[r].key # 0
        BY DEF Keyed
    <3>3. Cardinality(Keyed') = IF r \in Keyed THEN Cardinality(Keyed) ELSE Cardinality(Keyed) + 1
        BY <2>1, <3>1, FS_AddElement
    <3>4. minted' <= Cardinality(Keyed') /\ minted' \in Nat
        BY <2>1, <3>2, <3>3
    <3>5. Keyed' \subseteq Run
        BY DEF Keyed
    <3>6. Cardinality(Keyed') <= Cardinality(Run) /\ Cardinality(Keyed') \in Nat /\ Cardinality(Run) \in Nat
        BY <3>5, OnboardingAssumption, FS_Subset, FS_CardinalityType
    <3> QED BY <3>4, <3>6
  <2> QED BY <2>2, <2>3
<1>6. OnbTypeOK'
  <2>1. seen' \subseteq Run
      BY <1>1 DEF OnbTypeOK
  <2> QED BY <1>1, <1>3, <1>5, <2>1 DEF OnbTypeOK
<1>7. \A s \in Run : RunShape(manifest'[s], onb'[s])
  <2>1. onb'[r] = [stage |-> b, key |-> k]
      BY <1>1
  <2>2. \A s \in Run : RunShape(manifest[s], onb[s])
      BY DEF RunsInv
  <2> QED BY <1>2, <2>1, <2>2
<1>8. \A s \in seen' : onb'[s].key # 0 /\ Sound(manifest'[s])
  <2>1. \A s \in seen : onb[s].key # 0 /\ Sound(manifest[s]) /\ s \in Run
      BY <1>1 DEF RunsInv, OnbTypeOK
  <2>2. \A s \in seen : onb'[s].key # 0
      BY <1>2, <2>1
  <2> QED BY <1>2, <1>4, <2>1, <2>2
<1>9. NamesAreOwned'
  <2>1. Owns(onb[r].stage)
      BY DEF Owns, OnbOver
  <2>2. \A s \in Run : Owns(onb'[s].stage) => Owns(onb[s].stage)
      BY <1>2, <2>1
  <2>3. Embedded \subseteq Run /\ NamesAreOwned
      BY OnboardingAssumption DEF RunsInv
  <2> QED BY <2>2, <2>3 DEF NamesAreOwned
<1>10. OnboardsAlone'
  <2>1. UnderWay' \subseteq UnderWay
      BY <1>2 DEF UnderWay
  <2>2. OnboardsAlone
      BY DEF RunsInv
  <2> QED BY <2>1, <2>2 DEF OnboardsAlone
<1> QED BY <1>5, <1>6, <1>7, <1>8, <1>9, <1>10 DEF RunsInv

\* What was admitted stays admitted when another run takes a step.
LEMMA PairStays ==
    ASSUME RunsInv, NEW r \in Run, onb[r].stage # "admitted", NEW o, onb' = [onb EXCEPT ![r] = o],
           NEW d, d["inv"].by \in Run \cup {NoRun}, PairIsWhole(d, onb)
    PROVE  PairIsWhole(d, onb')
<1>1. d["inv"].by # NoRun => d["inv"].by # r
    BY DEF PairIsWhole
<1>2. onb \in [Run -> [stage : OnbStages, key : Nat]]
    BY DEF RunsInv, OnbTypeOK
<1>3. d["inv"].by # NoRun => onb'[d["inv"].by] = onb[d["inv"].by]
    BY <1>1, <1>2
<1> QED BY <1>3 DEF PairIsWhole

\* A run that is under way takes a step and moves, writes or removes a file, or
\* none: what the disk says of the runs stays true.
LEMMA DiskMoves ==
    ASSUME OnbInv, NEW r \in Run, NEW b \in OnbStages, NEW k \in Nat,
           onb[r].stage \notin OnbOver, onb' = [onb EXCEPT ![r] = [stage |-> b, key |-> k]],
           UNCHANGED <<overlapped, keyFile>>, onbFaults' = 0 => onbFaults = 0,
           \A f \in File : \/ disk'[f] \in {disk[g] : g \in File} \cup {Absent}
                           \/ disk'[f] = Mine(r) /\ onb[r].stage \notin {"registered", "keyless"},
           disk'["inv.pending"] \in {disk["inv.pending"], Absent, Mine(r)},
           disk'["inv"] \in {disk["inv"], disk["inv.pending"]},
           disk["inv"].sound \/ (late \ {r} \subseteq late' /\ (PastLook(b) => r \in late')),
           ~overlapped => KeyOf([stage |-> b, key |-> k], keyFile),
           (~overlapped /\ onbFaults' = 0 /\ FilesAt(disk, onb, r)) => FilesAt(disk', onb', r)
    PROVE  DiskInv'
<1>1. /\ onb \in [Run -> [stage : OnbStages, key : Nat]] /\ disk \in [File -> Content]
      /\ RunsInv /\ DiskIsWritten /\ LookedBefore /\ OneKey /\ QuietFiles
    BY DEF OnbInv, RunsInv, OnbTypeOK, DiskInv
<1>2. /\ onb'[r] = [stage |-> b, key |-> k] /\ onb'[r].stage = b /\ onb'[r].key = k
      /\ \A s \in Run : s # r => onb'[s] = onb[s]
    BY <1>1
<1>3. /\ Absent.by = NoRun /\ Absent.sound
      /\ Mine(r).by = r /\ Mine(r).key = onb[r].key /\ Mine(r).sound /\ r # NoRun
    BY OnboardingAssumption DEF Absent, Mine
<1>4. "inv" \in File /\ "cat" \in File /\ "inv.pending" \in File /\ "cat.pending" \in File
    BY DEF File
<1>5. DiskIsWritten'
    BY <1>1, <1>3, <1>4 DEF DiskIsWritten
<1>6. LookedBefore'
  <2> SUFFICES ASSUME ~disk'["inv"].sound, NEW s \in Run, PastLook(onb'[s].stage) PROVE s \in late'
      BY DEF LookedBefore
  <2>1. ~disk["inv"].sound
      BY <1>1 DEF DiskIsWritten
  <2>2. CASE s = r
      BY <1>2, <2>1, <2>2
  <2>3. CASE s # r
      BY <1>1, <1>2, <2>1, <2>3 DEF LookedBefore
  <2> QED BY <2>2, <2>3
<1>7. OneKey'
  <2> SUFFICES ASSUME ~overlapped
               PROVE  /\ \A f \in File : disk'[f].by # NoRun => disk'[f].key = keyFile /\ keyFile # 0
                      /\ \A s \in Run : KeyOf(onb'[s], keyFile)
      BY DEF OneKey
  <2>1. \A f \in File : disk[f].by # NoRun => disk[f].key = keyFile /\ keyFile # 0
      BY <1>1 DEF OneKey
  <2>2. onb[r].stage \notin {"registered", "keyless"} => onb[r].key = keyFile /\ keyFile # 0
      BY <1>1 DEF OneKey, KeyOf
  <2>3. \A f \in File : disk'[f].by # NoRun => disk'[f].key = keyFile /\ keyFile # 0
      BY <1>3, <2>1, <2>2
  <2>4. \A s \in Run : KeyOf(onb'[s], keyFile)
      BY <1>1, <1>2 DEF OneKey
  <2> QED BY <2>3, <2>4
<1>8. QuietFiles'
  <2> SUFFICES ASSUME ~overlapped, onbFaults' = 0
               PROVE  /\ \A s \in UnderWay' : FilesAt(disk', onb', s)
                      /\ UnderWay' = {} => /\ disk'["inv.pending"].by = NoRun
                                           /\ disk'["cat.pending"].by = NoRun
                                           /\ PairIsWhole(disk', onb')
      BY DEF QuietFiles
  <2>1. r \in UnderWay
      BY DEF UnderWay
  <2>2. FilesAt(disk', onb', r)
      BY <1>1, <2>1 DEF QuietFiles
  <2>3. ASSUME NEW s \in UnderWay' PROVE s = r
    <3>1. s \in UnderWay
        BY <1>2, <2>1 DEF UnderWay
    <3> QED BY <1>1, <2>1, <3>1 DEF RunsInv, OnboardsAlone
  <2>4. ASSUME UnderWay' = {} PROVE b \in OnbOver
      BY <1>2, <2>4 DEF UnderWay
  <2>5. ASSUME b \in OnbOver
        PROVE  /\ disk'["inv.pending"].by = NoRun /\ disk'["cat.pending"].by = NoRun
               /\ PairIsWhole(disk', onb')
      BY <1>2, <2>2, <2>5 DEF FilesAt, OnbOver
  <2> QED BY <2>2, <2>3, <2>4, <2>5
<1> QED BY <1>5, <1>6, <1>7, <1>8 DEF DiskInv

LEMMA GoesAsRecord ==
    ASSUME onb \in [Run -> [stage : OnbStages, key : Nat]], NEW r \in Run, NEW b, Goes(r, b)
    PROVE  onb' = [onb EXCEPT ![r] = [stage |-> b, key |-> onb[r].key]]
<1>1. onb[r] \in [stage : OnbStages, key : Nat] /\ onb' = [onb EXCEPT ![r].stage = b]
    BY DEF Goes
<1>2. PICK o : o = onb[r]
    OBVIOUS
<1>3. [o EXCEPT !.stage = b] = [stage |-> b, key |-> o.key]
    BY <1>1, <1>2
<1>4. onb' = [onb EXCEPT ![r] = [o EXCEPT !.stage = b]]
    BY <1>1, <1>2
<1> QED BY <1>2, <1>3, <1>4

\* The steps of a run that has its key, and the end of any run.
LEMMA StageMoves ==
    ASSUME OnbInv, NEW r \in Run, NEW b \in OnbStages, b \notin {"idle", "registered", "keyless"},
           onb[r].stage \notin OnbOver, Goes(r, b),
           b \in OnbOver \/ onb[r].stage \notin {"registered", "keyless"},
           UNCHANGED <<manifest, registry, keyFile, minted, overlapped>>,
           \/ seen' \subseteq seen
           \/ seen' \subseteq seen \cup {r} /\ onb[r].stage \notin {"registered", "keyless"},
           late' \subseteq Run, onbFaults' \in 0..MaxOnbFaults, onbFaults' = 0 => onbFaults = 0,
           disk' \in [File -> Content],
           \A f \in File : \/ disk'[f] \in {disk[g] : g \in File} \cup {Absent}
                           \/ disk'[f] = Mine(r) /\ onb[r].stage \notin {"registered", "keyless"},
           disk'["inv.pending"] \in {disk["inv.pending"], Absent, Mine(r)},
           disk'["inv"] \in {disk["inv"], disk["inv.pending"]},
           disk["inv"].sound \/ (late \ {r} \subseteq late' /\ (PastLook(b) => r \in late')),
           (~overlapped /\ onbFaults' = 0 /\ FilesAt(disk, onb, r)) => FilesAt(disk', onb', r)
    PROVE  OnbInv'
<1>1. PICK k : k = onb[r].key
    OBVIOUS
<1>2. /\ RunsInv /\ OneKey /\ onb \in [Run -> [stage : OnbStages, key : Nat]] /\ k \in Nat
      /\ keyFile \in 0..minted
    BY <1>1 DEF OnbInv, RunsInv, OnbTypeOK, DiskInv
<1>3. onb' = [onb EXCEPT ![r] = [stage |-> b, key |-> k]]
    BY <1>1, <1>2, GoesAsRecord
<1>4. onb[r].stage \notin {"registered", "keyless"} => k # 0
    BY <1>1, <1>2 DEF RunsInv, RunShape
<1>5. RunShape(manifest[r], [stage |-> b, key |-> k])
  <2>1. Sound(manifest[r])
      BY <1>2 DEF RunsInv, RunShape
  <2> QED BY <1>4, <2>1 DEF RunShape
<1>6. ~overlapped => KeyOf([stage |-> b, key |-> k], keyFile)
  <2> SUFFICES ASSUME ~overlapped PROVE KeyOf([stage |-> b, key |-> k], keyFile)
      OBVIOUS
  <2>1. onb[r].stage \notin {"registered", "keyless"} => k = keyFile /\ keyFile # 0
      BY <1>1, <1>2 DEF OneKey, KeyOf
  <2> QED BY <2>1 DEF KeyOf
<1>7. RunsInv'
  <2>1. seen' \subseteq seen \/ (seen' \subseteq seen \cup {r} /\ k # 0)
      BY <1>4
  <2>2. keyFile' \in 0..minted'
      BY <1>2
  <2> QED BY <1>1, <1>2, <1>3, <1>5, <2>1, <2>2, RunMoves
<1>8. DiskInv'
    BY <1>2, <1>3, <1>6, DiskMoves
<1> QED BY <1>7, <1>8 DEF OnbInv

-----------------------------------------------------------------------------
LEMMA StageNames ==
    ASSUME OnbInv, NEW r \in Run
    PROVE  /\ onb[r].stage \in OnbStages /\ onbFaults \in 0..MaxOnbFaults /\ onbFaults \in Nat
           /\ late \subseteq Run /\ seen \subseteq Run /\ disk \in [File -> Content] /\ Mine(r) \in Content
           /\ Absent \in Content /\ RunsInv /\ DiskIsWritten /\ LookedBefore
           /\ onb \in [Run -> [stage : OnbStages, key : Nat]]
<1>1. OnbTypeOK /\ RunsInv /\ DiskIsWritten /\ LookedBefore
    BY DEF OnbInv, RunsInv, DiskInv
<1>2. onbFaults \in Nat /\ onb[r] \in [stage : OnbStages, key : Nat]
    BY <1>1, OnboardingAssumption DEF OnbTypeOK
<1>3. Mine(r) \in Content /\ Absent \in Content
    BY <1>2 DEF Mine, Absent, Content
<1> QED BY <1>1, <1>2, <1>3 DEF OnbTypeOK

LEMMA BothFields ==
    ASSUME NEW o \in [stage : OnbStages, key : Nat], NEW b \in OnbStages, NEW k \in Nat
    PROVE  [[o EXCEPT !.stage = b] EXCEPT !.key = k] = [stage |-> b, key |-> k]
<1>1. PICK p : p = [o EXCEPT !.stage = b]
    OBVIOUS
<1>2. p \in [stage : OnbStages, key : Nat] /\ p.stage = b
    BY <1>1
<1>3. [p EXCEPT !.key = k] = [stage |-> p.stage, key |-> k]
    BY <1>2
<1> QED BY <1>1, <1>2, <1>3

\* A step that leaves the files alone, between stages that hold the same files.
LEMMA FilesStay ==
    ASSUME OnbInv, NEW r \in Run, onb[r].stage \notin OnbOver, NEW b, NEW k,
           onb' = [onb EXCEPT ![r] = [stage |-> b, key |-> k]], UNCHANGED disk,
           onb[r].stage \in {"staged", "stagedBoth", "green", "red"}
               <=> b \in {"staged", "stagedBoth", "green", "red"},
           onb[r].stage \in {"stagedBoth", "green", "red", "redder", "promoted"}
               <=> b \in {"stagedBoth", "green", "red", "redder", "promoted"},
           onb[r].stage # "promoted", b # "promoted", FilesAt(disk, onb, r)
    PROVE  FilesAt(disk', onb', r)
<1>1. PairIsWhole(disk, onb)
    BY DEF FilesAt
<1>2. disk["inv"].by \in Run \cup {NoRun}
    BY StageNames DEF Content, File
<1>3. PairIsWhole(disk, onb')
    BY <1>1, <1>2, StageNames, PairStays DEF OnbOver
<1>4. onb'[r].stage = b
    BY StageNames
<1> QED BY <1>3, <1>4 DEF FilesAt

LEMMA LoadKeyInv == ASSUME OnbInv, NEW r \in Run, LoadKey(r) PROVE OnbInv'
<1>1. PICK b \in {"keyless", "keyed"} : b = IF keyFile = 0 THEN "keyless" ELSE "keyed"
    OBVIOUS
<1>2. /\ onb[r].stage = "registered"
      /\ onb' = [onb EXCEPT ![r].stage = b, ![r].key = keyFile]
      /\ UNCHANGED <<manifest, registry, disk, keyFile, minted, seen, overlapped, late, onbFaults>>
    BY <1>1 DEF LoadKey, LooksForKey, Stage
<1>3. onb' = [onb EXCEPT ![r] = [stage |-> b, key |-> keyFile]]
  <2>1. onb' = [onb EXCEPT ![r] = [[onb[r] EXCEPT !.stage = b] EXCEPT !.key = keyFile]]
      BY <1>2, StageNames
  <2>2. onb[r] \in [stage : OnbStages, key : Nat] /\ b \in OnbStages /\ keyFile \in Nat
      BY StageNames DEF OnbStages, RunsInv, OnbTypeOK
  <2> QED BY <2>1, <2>2, BothFields
<1>4. RunsInv /\ onb[r].key = 0 /\ Sound(manifest[r]) /\ keyFile \in 0..minted /\ keyFile \in Nat
    BY <1>2, StageNames DEF RunsInv, RunShape, OnbOver, OnbTypeOK
<1>5. RunShape(manifest[r], [stage |-> b, key |-> keyFile])
    BY <1>1, <1>4 DEF RunShape, OnbOver
<1>6. RunsInv'
    BY <1>2, <1>3, <1>4, <1>5, StageNames, RunMoves DEF OnbOver, OnbStages
<1>7. (~overlapped /\ onbFaults' = 0 /\ FilesAt(disk, onb, r)) => FilesAt(disk', onb', r)
    BY <1>2, <1>3, FilesStay DEF OnbOver
<1>8. KeyOf([stage |-> b, key |-> keyFile], keyFile)
    BY <1>1 DEF KeyOf
<1>9. ~PastLook(b)
    BY DEF PastLook
<1>10. disk["inv"].sound \/ (late \ {r} \subseteq late' /\ (PastLook(b) => r \in late'))
    BY <1>2, <1>9
<1>11. DiskInv'
  <2>1. PICK k : k = keyFile
      OBVIOUS
  <2>2. b \in OnbStages /\ k \in Nat /\ onb[r].stage \notin OnbOver
      BY <1>2, <1>4, <2>1 DEF OnbOver, OnbStages
  <2>3. \A f \in File : disk'[f] \in {disk[g] : g \in File} \cup {Absent}
      BY <1>2
  <2>4. KeyOf([stage |-> b, key |-> k], keyFile)
      BY <1>8, <2>1
  <2>5. onb' = [onb EXCEPT ![r] = [stage |-> b, key |-> k]]
      BY <1>3, <2>1
  <2> QED BY <1>2, <1>7, <1>10, <2>2, <2>3, <2>4, <2>5, DiskMoves
<1> QED BY <1>6, <1>11 DEF OnbInv

\* The first key: with one run at a time there is nothing on the disk yet that
\* an older one signed.
LEMMA CreateKeyInv == ASSUME OnbInv, NEW r \in Run, CreateKey(r) PROVE OnbInv'
<1>1. /\ onb[r].stage = "keyless" /\ minted' = minted + 1 /\ keyFile' = minted + 1
      /\ onb' = [onb EXCEPT ![r].stage = "keyed", ![r].key = minted + 1]
      /\ UNCHANGED <<manifest, registry, disk, seen, overlapped, late, onbFaults>>
    BY DEF CreateKey, Stage
<1>2. PICK k : k = minted + 1
    OBVIOUS
<1>3. onb' = [onb EXCEPT ![r] = [stage |-> "keyed", key |-> k]]
  <2>1. onb' = [onb EXCEPT ![r] = [[onb[r] EXCEPT !.stage = "keyed"] EXCEPT !.key = k]]
      BY <1>1, <1>2, StageNames
  <2>2. onb[r] \in [stage : OnbStages, key : Nat] /\ "keyed" \in OnbStages /\ k \in Nat
      BY <1>2, StageNames DEF OnbStages, RunsInv, OnbTypeOK
  <2> QED BY <2>1, <2>2, BothFields
<1>4. /\ RunsInv /\ onb[r].key = 0 /\ Sound(manifest[r]) /\ minted \in Nat /\ k \in Nat /\ k # 0
      /\ keyFile' \in 0..minted' /\ OneKey /\ QuietFiles
    BY <1>1, <1>2, StageNames DEF RunsInv, RunShape, OnbOver, OnbTypeOK, OnbInv, DiskInv
<1>5. RunShape(manifest[r], [stage |-> "keyed", key |-> k])
    BY <1>4 DEF RunShape, OnbOver
<1>6. RunsInv'
    BY <1>1, <1>2, <1>3, <1>4, <1>5, StageNames, RunMoves DEF OnbOver, OnbStages
<1>7. /\ onb'[r].stage = "keyed" /\ onb'[r].key = k
      /\ \A s \in Run : s # r => onb'[s] = onb[s]
    BY <1>3, StageNames
<1>8. OneKey'
  <2> SUFFICES ASSUME ~overlapped
               PROVE  /\ \A f \in File : disk[f].by # NoRun => disk[f].key = k /\ k # 0
                      /\ \A s \in Run : KeyOf(onb'[s], k)
      BY <1>1, <1>2 DEF OneKey
  <2>1. keyFile = 0
      BY <1>1, <1>4 DEF OneKey, KeyOf
  <2>2. \A f \in File : disk[f].by = NoRun
      BY <1>4, <2>1 DEF OneKey
  <2>3. ASSUME NEW s \in Run PROVE KeyOf(onb'[s], k)
    <3>1. CASE s = r
        BY <1>7, <1>4, <3>1 DEF KeyOf
    <3>2. CASE s # r
      <4>1. KeyOf(onb[s], 0)
          BY <1>4, <2>1 DEF OneKey
      <4>2. onb[s].stage \in OnbOver
        <5>1. r \in UnderWay
            BY <1>1 DEF UnderWay, OnbOver
        <5>2. s \notin UnderWay
            BY <1>4, <3>2, <5>1 DEF RunsInv, OnboardsAlone
        <5> QED BY <5>2 DEF UnderWay
      <4> QED BY <1>7, <3>2, <4>2 DEF KeyOf, OnbOver
    <3> QED BY <3>1, <3>2
  <2> QED BY <2>2, <2>3
<1>9. DiskIsWritten'
    BY <1>1, StageNames DEF DiskIsWritten
<1>10. LookedBefore'
  <2>1. ~PastLook(onb'[r].stage)
      BY <1>7 DEF PastLook
  <2> QED BY <1>1, <1>7, <2>1, StageNames DEF LookedBefore
<1>11. QuietFiles'
  <2> SUFFICES ASSUME ~overlapped, onbFaults = 0
               PROVE  /\ \A s \in UnderWay' : FilesAt(disk', onb', s)
                      /\ UnderWay' # {}
      BY <1>1 DEF QuietFiles
  <2>1. r \in UnderWay /\ r \in UnderWay'
      BY <1>1, <1>7 DEF UnderWay, OnbOver
  <2>2. FilesAt(disk, onb, r)
      BY <1>4, <2>1 DEF QuietFiles
  <2>3. FilesAt(disk', onb', r)
      BY <1>1, <1>3, <2>2, FilesStay DEF OnbOver
  <2>4. ASSUME NEW s \in UnderWay' PROVE s = r
      BY <1>1, <1>6, <2>1 DEF RunsInv, OnboardsAlone
  <2> QED BY <2>1, <2>3, <2>4
<1> QED BY <1>6, <1>8, <1>9, <1>10, <1>11 DEF OnbInv, DiskInv

LEMMA VerifyPriorInv == ASSUME OnbInv, NEW r \in Run, VerifyPrior(r) PROVE OnbInv'
<1>1. /\ onb[r].stage = "keyed" /\ late' = late \ {r}
      /\ Goes(r, IF Verifies(disk["inv"], onb[r].key) THEN "signed" ELSE "refused")
      /\ UNCHANGED <<manifest, registry, disk, keyFile, minted, seen, overlapped, onbFaults>>
    BY DEF VerifyPrior, Stage
<1>2. PICK b \in {"signed", "refused"} :
          b = IF Verifies(disk["inv"], onb[r].key) THEN "signed" ELSE "refused"
    OBVIOUS
<1>3. Goes(r, b) /\ b \in OnbStages
    BY <1>1, <1>2 DEF OnbStages
<1>4. disk["inv"].sound \/ b = "refused"
    BY <1>2, StageNames DEF Verifies, DiskIsWritten, File, Absent
<1>5. (~overlapped /\ onbFaults' = 0 /\ FilesAt(disk, onb, r)) => FilesAt(disk', onb', r)
    BY <1>1, <1>2, <1>3, StageNames, GoesAsRecord, FilesStay DEF OnbOver
<1>6. PastLook(b) => disk["inv"].sound
    BY <1>4 DEF PastLook, OnbOver
<1> QED BY <1>1, <1>2, <1>3, <1>5, <1>6, StageMoves, StageNames DEF OnbOver

LEMMA StampInv ==
    ASSUME OnbInv, NEW r \in Run, NEW up \in BOOLEAN, NEW exported \in BOOLEAN, Stamp(r, up, exported)
    PROVE  OnbInv'
<1>1. /\ onb[r].stage = "signed" /\ Goes(r, IF up THEN "stamped" ELSE "refused")
      /\ seen' \subseteq seen \cup {r}
      /\ UNCHANGED <<manifest, registry, disk, keyFile, minted, overlapped, late, onbFaults>>
    BY DEF Stamp, Stage
<1>2. PICK b \in {"stamped", "refused"} : b = IF up THEN "stamped" ELSE "refused"
    OBVIOUS
<1>3. Goes(r, b) /\ b \in OnbStages
    BY <1>1, <1>2 DEF OnbStages
<1>4. (~overlapped /\ onbFaults' = 0 /\ FilesAt(disk, onb, r)) => FilesAt(disk', onb', r)
    BY SMTT(30), <1>1, <1>2, <1>3, StageNames, GoesAsRecord, FilesStay DEF OnbOver
<1>5. disk["inv"].sound \/ (late \ {r} \subseteq late' /\ (PastLook(b) => r \in late'))
    BY <1>1, StageNames DEF LookedBefore, PastLook, OnbOver
<1> QED BY <1>1, <1>2, <1>3, <1>4, <1>5, StageMoves, StageNames DEF OnbOver

LEMMA CheckCoverageInv ==
    ASSUME OnbInv, NEW r \in Run, NEW bound \in BOOLEAN, CheckCoverage(r, bound)
    PROVE  OnbInv'
<1>1. /\ onb[r].stage = "stagedBoth" /\ Goes(r, IF Green(bound) THEN "green" ELSE "red")
      /\ UNCHANGED <<manifest, registry, disk, keyFile, minted, seen, overlapped, late, onbFaults>>
    BY DEF CheckCoverage, Stage
<1>2. PICK b \in {"green", "red"} : b = IF Green(bound) THEN "green" ELSE "red"
    OBVIOUS
<1>3. Goes(r, b) /\ b \in OnbStages
    BY <1>1, <1>2 DEF OnbStages
<1>4. (~overlapped /\ onbFaults' = 0 /\ FilesAt(disk, onb, r)) => FilesAt(disk', onb', r)
    BY <1>1, <1>2, <1>3, StageNames, GoesAsRecord, FilesStay DEF OnbOver
<1>5. disk["inv"].sound \/ (late \ {r} \subseteq late' /\ (PastLook(b) => r \in late'))
    BY <1>1, StageNames DEF LookedBefore, PastLook, OnbOver
<1> QED BY <1>1, <1>2, <1>3, <1>4, <1>5, StageMoves, StageNames DEF OnbOver

LEMMA DiesInv == ASSUME OnbInv, NEW r \in Run, Dies(r) PROVE OnbInv'
<1>1. /\ onb[r].stage \notin OnbOver /\ Goes(r, "died") /\ OnbFault
      /\ UNCHANGED <<manifest, registry, disk, keyFile, minted, seen, overlapped, late>>
    BY DEF Dies, UnderWay
<1>2. onbFaults' \in 0..MaxOnbFaults /\ onbFaults' # 0
    BY <1>1, StageNames, OnboardingAssumption DEF OnbFault
<1>3. late \ {r} \subseteq late' /\ ~PastLook("died")
    BY <1>1 DEF PastLook, OnbOver
<1> QED BY <1>1, <1>2, <1>3, StageMoves, StageNames DEF OnbOver, OnbStages

\* The two files are staged one after the other.
LEMMA StageInvInv == ASSUME OnbInv, NEW r \in Run, StageInv(r) PROVE OnbInv'
<1>1. /\ onb[r].stage = "stamped" /\ disk' = [disk EXCEPT !["inv.pending"] = Mine(r)] /\ Goes(r, "staged")
      /\ UNCHANGED <<manifest, registry, keyFile, minted, seen, overlapped, late, onbFaults>>
    BY DEF StageInv, Stage, Write
<1>2. /\ disk'["inv"] = disk["inv"] /\ disk'["cat"] = disk["cat"] /\ disk'["cat.pending"] = disk["cat.pending"]
      /\ disk'["inv.pending"] = Mine(r) /\ disk' \in [File -> Content]
    BY <1>1, StageNames DEF File
<1>3. ASSUME FilesAt(disk, onb, r) PROVE FilesAt(disk', onb', r)
  <2>1. PICK d : d = disk'
      OBVIOUS
  <2>2. PairIsWhole(d, onb)
      BY <1>1, <1>2, <1>3, <2>1 DEF FilesAt, PairIsWhole
  <2>3. d["inv"].by \in Run \cup {NoRun}
      BY <1>2, <2>1 DEF Content, File
  <2>4. PairIsWhole(d, onb')
      BY <1>1, <2>2, <2>3, StageNames, GoesAsRecord, PairStays DEF OnbOver
  <2>5. onb'[r].stage = "staged"
      BY <1>1, StageNames, GoesAsRecord
  <2>6. Mine(r).by = r
      BY DEF Mine
  <2> QED BY <1>1, <1>2, <1>3, <2>1, <2>4, <2>5, <2>6 DEF FilesAt
<1>4. disk["inv"].sound \/ (late \ {r} \subseteq late' /\ (PastLook("staged") => r \in late'))
    BY <1>1, StageNames DEF LookedBefore, PastLook, OnbOver
<1>5. \A f \in File : disk'[f] \in {disk[g] : g \in File} \cup {Absent} \/ disk'[f] = Mine(r)
    BY <1>2 DEF File
<1> QED BY <1>1, <1>2, <1>3, <1>4, <1>5, StageMoves, StageNames DEF OnbOver, OnbStages

LEMMA StageCatInv == ASSUME OnbInv, NEW r \in Run, StageCat(r) PROVE OnbInv'
<1>1. /\ onb[r].stage = "staged" /\ disk' = [disk EXCEPT !["cat.pending"] = Mine(r)] /\ Goes(r, "stagedBoth")
      /\ UNCHANGED <<manifest, registry, keyFile, minted, seen, overlapped, late, onbFaults>>
    BY DEF StageCat, Stage, Write
<1>2. /\ disk'["inv"] = disk["inv"] /\ disk'["cat"] = disk["cat"] /\ disk'["inv.pending"] = disk["inv.pending"]
      /\ disk'["cat.pending"] = Mine(r) /\ disk' \in [File -> Content]
    BY <1>1, StageNames DEF File
<1>3. ASSUME FilesAt(disk, onb, r) PROVE FilesAt(disk', onb', r)
  <2>1. PICK d : d = disk'
      OBVIOUS
  <2>2. PairIsWhole(d, onb)
      BY <1>1, <1>2, <1>3, <2>1 DEF FilesAt, PairIsWhole
  <2>3. d["inv"].by \in Run \cup {NoRun}
      BY <1>2, <2>1 DEF Content, File
  <2>4. PairIsWhole(d, onb')
      BY <1>1, <2>2, <2>3, StageNames, GoesAsRecord, PairStays DEF OnbOver
  <2>5. onb'[r].stage = "stagedBoth"
      BY <1>1, StageNames, GoesAsRecord
  <2>6. Mine(r).by = r
      BY DEF Mine
  <2> QED BY <1>1, <1>2, <1>3, <2>1, <2>4, <2>5, <2>6 DEF FilesAt
<1>4. disk["inv"].sound \/ (late \ {r} \subseteq late' /\ (PastLook("stagedBoth") => r \in late'))
    BY <1>1, StageNames DEF LookedBefore, PastLook, OnbOver
<1>5. \A f \in File : disk'[f] \in {disk[g] : g \in File} \cup {Absent} \/ disk'[f] = Mine(r)
    BY <1>2 DEF File
<1> QED BY <1>1, <1>2, <1>3, <1>4, <1>5, StageMoves, StageNames DEF OnbOver, OnbStages

\* A red report: the staged inventory goes first, then the staged entity.
LEMMA UnlinkInv == ASSUME OnbInv, NEW r \in Run, Unlink(r) PROVE OnbInv'
<1>1. /\ onb[r].stage \in {"red", "redder"}
      /\ disk' = [disk EXCEPT ![IF onb[r].stage = "red" THEN "inv.pending" ELSE "cat.pending"] = Absent]
      /\ Goes(r, Unlinked(onb[r].stage))
      /\ UNCHANGED <<manifest, registry, keyFile, minted, seen, overlapped, late, onbFaults>>
    BY DEF Unlink, Stage, Write
<1>2. PICK b, f : b = Unlinked(onb[r].stage)
                  /\ f = IF onb[r].stage = "red" THEN "inv.pending" ELSE "cat.pending"
    OBVIOUS
<1>3. \/ onb[r].stage = "red" /\ b = "redder" /\ f = "inv.pending"
      \/ onb[r].stage = "redder" /\ b = "refused" /\ f = "cat.pending"
    BY <1>1, <1>2 DEF Unlinked
<1>4. disk' = [disk EXCEPT ![f] = Absent] /\ Goes(r, b) /\ b \in OnbStages
    BY <1>1, <1>2, <1>3 DEF OnbStages
<1>5. /\ disk'["inv"] = disk["inv"] /\ disk'["cat"] = disk["cat"] /\ disk' \in [File -> Content]
      /\ disk'[f] = Absent /\ \A g \in File : g # f => disk'[g] = disk[g]
      /\ "inv.pending" \in File /\ "cat.pending" \in File
    BY <1>3, <1>4, StageNames DEF File
<1>6. ASSUME FilesAt(disk, onb, r) PROVE FilesAt(disk', onb', r)
  <2>1. PICK d : d = disk'
      OBVIOUS
  <2>2. PairIsWhole(d, onb)
      BY <1>3, <1>5, <1>6, <2>1 DEF FilesAt, PairIsWhole
  <2>3. d["inv"].by \in Run \cup {NoRun}
      BY <1>5, <2>1 DEF Content, File
  <2>4. PairIsWhole(d, onb')
      BY <1>3, <1>4, <2>2, <2>3, StageNames, GoesAsRecord, PairStays DEF OnbOver
  <2>5. onb'[r].stage = b
      BY <1>4, StageNames, GoesAsRecord
  <2>6. Absent.by = NoRun
      BY DEF Absent
  <2> QED BY <1>3, <1>5, <1>6, <2>1, <2>4, <2>5, <2>6 DEF FilesAt
<1>7. disk["inv"].sound \/ (late \ {r} \subseteq late' /\ (PastLook(b) => r \in late'))
    BY <1>1, <1>3, StageNames DEF LookedBefore, PastLook, OnbOver
<1>8. \A g \in File : disk'[g] \in {disk[h] : h \in File} \cup {Absent}
    BY <1>5
<1>9. disk'["inv.pending"] \in {disk["inv.pending"], Absent}
    BY <1>5
<1> QED BY <1>1, <1>3, <1>4, <1>5, <1>6, <1>7, <1>8, <1>9, StageMoves, StageNames DEF OnbOver

LEMMA PromoteInvInv == ASSUME OnbInv, NEW r \in Run, PromoteInv(r) PROVE OnbInv'
<1>1. /\ onb[r].stage = "green" /\ Promote(r, "inv.pending", "inv", "promoted")
      /\ UNCHANGED <<manifest, registry, keyFile, minted, seen, overlapped, late, onbFaults>>
    BY DEF PromoteInv, Promote, Stage
<1>2. disk["inv"].sound \/ (late \ {r} \subseteq late' /\ r \in late')
    BY <1>1, StageNames DEF LookedBefore, PastLook, OnbOver
<1>3. CASE disk["inv.pending"] = Absent
  <2>1. Goes(r, "died") /\ UNCHANGED disk
      BY <1>1, <1>3 DEF Promote
  <2>2. ~FilesAt(disk, onb, r)
      BY <1>1, <1>3, OnboardingAssumption DEF FilesAt, Absent
  <2>3. \A f \in File : disk'[f] \in {disk[g] : g \in File}
      BY <2>1
  <2> QED BY <1>1, <1>2, <2>1, <2>2, <2>3, StageMoves, StageNames DEF OnbOver, OnbStages
<1>4. CASE disk["inv.pending"] # Absent
  <2>1. /\ Goes(r, "promoted")
        /\ disk' = [disk EXCEPT !["inv"] = disk["inv.pending"], !["inv.pending"] = Absent]
      BY <1>1, <1>4 DEF Promote
  <2>2. /\ disk'["inv"] = disk["inv.pending"] /\ disk'["inv.pending"] = Absent /\ disk' \in [File -> Content]
        /\ \A f \in File : f \notin {"inv", "inv.pending"} => disk'[f] = disk[f]
        /\ "inv" \in File /\ "cat" \in File /\ "inv.pending" \in File /\ "cat.pending" \in File
      BY <2>1, StageNames DEF File
  <2>3. \A f \in File : disk'[f] \in {disk[g] : g \in File} \cup {Absent}
      BY <2>2
  <2>4. disk'["inv.pending"] \in {disk["inv.pending"], Absent} /\ disk'["inv"] \in {disk["inv"], disk["inv.pending"]}
      BY <2>2
  <2>5. ASSUME FilesAt(disk, onb, r) PROVE FilesAt(disk', onb', r)
    <3>1. onb'[r].stage = "promoted" /\ Absent.by = NoRun
        BY <2>1, StageNames, GoesAsRecord DEF Absent
    <3> QED BY <1>1, <2>2, <2>5, <3>1, OnboardingAssumption DEF FilesAt, PairIsWhole
  <2> QED BY <1>1, <1>2, <2>1, <2>2, <2>3, <2>4, <2>5, StageMoves, StageNames DEF OnbOver, OnbStages
<1> QED BY <1>3, <1>4

LEMMA PromoteCatInv == ASSUME OnbInv, NEW r \in Run, PromoteCat(r) PROVE OnbInv'
<1>1. /\ onb[r].stage = "promoted" /\ Promote(r, "cat.pending", "cat", "admitted")
      /\ UNCHANGED <<manifest, registry, keyFile, minted, seen, overlapped, late, onbFaults>>
    BY DEF PromoteCat, Promote, Stage
<1>2. disk["inv"].sound \/ (late \ {r} \subseteq late' /\ r \in late')
    BY <1>1, StageNames DEF LookedBefore, PastLook, OnbOver
<1>3. CASE disk["cat.pending"] = Absent
  <2>1. Goes(r, "died") /\ UNCHANGED disk
      BY <1>1, <1>3 DEF Promote
  <2>2. ~FilesAt(disk, onb, r)
      BY <1>1, <1>3, OnboardingAssumption DEF FilesAt, Absent
  <2>3. \A f \in File : disk'[f] \in {disk[g] : g \in File}
      BY <2>1
  <2> QED BY <1>1, <1>2, <2>1, <2>2, <2>3, StageMoves, StageNames DEF OnbOver, OnbStages
<1>4. CASE disk["cat.pending"] # Absent
  <2>1. /\ Goes(r, "admitted")
        /\ disk' = [disk EXCEPT !["cat"] = disk["cat.pending"], !["cat.pending"] = Absent]
      BY <1>1, <1>4 DEF Promote
  <2>2. /\ disk'["cat"] = disk["cat.pending"] /\ disk'["cat.pending"] = Absent /\ disk' \in [File -> Content]
        /\ \A f \in File : f \notin {"cat", "cat.pending"} => disk'[f] = disk[f]
        /\ "inv" \in File /\ "cat" \in File /\ "inv.pending" \in File /\ "cat.pending" \in File
      BY <2>1, StageNames DEF File
  <2>3. \A f \in File : disk'[f] \in {disk[g] : g \in File} \cup {Absent}
      BY <2>2
  <2>4. disk'["inv.pending"] \in {disk["inv.pending"], Absent} /\ disk'["inv"] \in {disk["inv"], disk["inv.pending"]}
      BY <2>2
  <2>5. ASSUME FilesAt(disk, onb, r) PROVE FilesAt(disk', onb', r)
    <3>1. onb'[r].stage = "admitted" /\ Absent.by = NoRun
        BY <2>1, StageNames, GoesAsRecord DEF Absent
    <3> QED BY <1>1, <2>2, <2>5, <3>1, OnboardingAssumption DEF FilesAt, PairIsWhole
  <2> QED BY <1>1, <1>2, <2>1, <2>2, <2>3, <2>4, <2>5, StageMoves, StageNames DEF OnbOver, OnbStages
<1> QED BY <1>3, <1>4

-----------------------------------------------------------------------------
\* The inventory is edited: the runs past their look at it are late.
LEMMA EditInventoryInv == ASSUME OnbInv, EditInventory PROVE OnbInv'
<1>1. PICK c : c = disk["inv"]
    OBVIOUS
<1>2. /\ c.by # NoRun /\ disk' = [disk EXCEPT !["inv"] = [c EXCEPT !.sound = FALSE]]
      /\ late' = {r \in UnderWay : onb[r].stage \notin {"registered", "keyless", "keyed"}}
      /\ OnbFault /\ UNCHANGED <<manifest, onb, registry, keyFile, minted, seen, overlapped>>
    BY <1>1 DEF EditInventory, Write
<1>3. /\ OnbTypeOK /\ RunsInv /\ DiskIsWritten /\ OneKey /\ disk \in [File -> Content] /\ c \in Content
      /\ "inv" \in File /\ "inv.pending" \in File
    BY <1>1 DEF OnbInv, RunsInv, DiskInv, OnbTypeOK, File
<1>4. PICK e : e = [c EXCEPT !.sound = FALSE]
    OBVIOUS
<1>5. e.by = c.by /\ e.key = c.key /\ ~e.sound
    BY <1>3, <1>4 DEF Content
<1>6. e \in Content
    BY <1>3, <1>4 DEF Content
<1>7. disk'["inv"] = e /\ (\A f \in File : f # "inv" => disk'[f] = disk[f]) /\ disk' \in [File -> Content]
    BY <1>2, <1>3, <1>4, <1>6
<1>8. onbFaults' \in 0..MaxOnbFaults /\ onbFaults' # 0
    BY <1>2, <1>3, OnboardingAssumption DEF OnbTypeOK, OnbFault
<1>9. RunsInv'
  <2>1. late' \subseteq Run
      BY <1>2 DEF UnderWay
  <2>2. OnbTypeOK'
      BY <1>2, <1>3, <1>7, <1>8, <2>1 DEF OnbTypeOK
  <2>3. NamesAreOwned' /\ OnboardsAlone'
      BY <1>2, <1>3 DEF RunsInv, NamesAreOwned, OnboardsAlone, UnderWay
  <2>4. Keyed' = Keyed
      BY <1>2 DEF Keyed
  <2> QED BY <1>2, <1>3, <2>2, <2>3, <2>4 DEF RunsInv
<1>10. DiskIsWritten'
    BY <1>2, <1>3, <1>5, <1>7 DEF DiskIsWritten
<1>11. LookedBefore'
    BY <1>2 DEF LookedBefore, PastLook, UnderWay
<1>12. OneKey'
    BY <1>1, <1>2, <1>3, <1>5, <1>7 DEF OneKey
<1>13. QuietFiles'
    BY <1>8 DEF QuietFiles
<1> QED BY <1>9, <1>10, <1>11, <1>12, <1>13 DEF OnbInv, DiskInv

LEMMA SpansAgeInv == ASSUME OnbInv, SpansAge PROVE OnbInv'
<1>1. seen' = {} /\ UNCHANGED <<manifest, onb, registry, disk, keyFile, minted, overlapped, late, onbFaults>>
    BY DEF SpansAge
<1>2. RunsInv'
  <2>1. OnbTypeOK'
      BY <1>1 DEF OnbInv, RunsInv, OnbTypeOK
  <2>2. NamesAreOwned' /\ OnboardsAlone' /\ Keyed' = Keyed
      BY <1>1 DEF OnbInv, RunsInv, NamesAreOwned, OnboardsAlone, UnderWay, Keyed
  <2> QED BY <1>1, <2>1, <2>2 DEF OnbInv, RunsInv
<1>3. DiskInv'
    BY <1>1 DEF OnbInv, DiskInv, DiskIsWritten, LookedBefore, OneKey, QuietFiles, UnderWay
<1> QED BY <1>2, <1>3 DEF OnbInv

LEMMA OnbStutterInv == ASSUME OnbInv, UNCHANGED onbVars PROVE OnbInv'
BY DEF onbVars, OnbInv, RunsInv, DiskInv, OnbTypeOK, NamesAreOwned, OnboardsAlone, UnderWay, Keyed,
       DiskIsWritten, LookedBefore, OneKey, QuietFiles

\* A manifest is read and its tools are registered: the run begins, or is over.
LEMMA OnboardInv == ASSUME OnbInv, NEW r \in Run, Onboard(r) PROVE OnbInv'
<1>1. PICK m : m = manifest[r]
    OBVIOUS
<1>2. PICK n : n = IF Sound(m) THEN Taken(m, RegistryOf(r)) ELSE 0
    OBVIOUS
<1>3. PICK passes \in BOOLEAN : passes = (Sound(m) /\ n = Len(m.tools) /\ m.budgets # "unknown_lane")
    OBVIOUS
<1>4. PICK b \in {"registered", "refused"} : b = IF passes THEN "registered" ELSE "refused"
    OBVIOUS
<1>5. /\ onb[r].stage = "idle" /\ Goes(r, b)
      /\ registry' = IF r \in Embedded THEN registry \cup Names(m, n) ELSE registry
      /\ overlapped' = (overlapped \/ (passes /\ UnderWay # {}))
      /\ UNCHANGED <<manifest, disk, keyFile, minted, seen, late, onbFaults>>
    BY <1>1, <1>2, <1>3, <1>4 DEF Onboard, Stage
<1>6. /\ RunsInv /\ OnbTypeOK /\ DiskIsWritten /\ LookedBefore /\ OneKey /\ QuietFiles
      /\ onb \in [Run -> [stage : OnbStages, key : Nat]] /\ NamesAreOwned /\ OnboardsAlone
    BY DEF OnbInv, RunsInv, DiskInv, OnbTypeOK
<1>7. m \in ManifestKind
    BY <1>1, <1>6, OnboardingAssumption DEF OnbTypeOK
<1>8. onb[r].key = 0
    BY <1>5, <1>6 DEF RunsInv, RunShape
<1>9. /\ onb'[r].stage = b /\ onb'[r].key = 0 /\ onb' \in [Run -> [stage : OnbStages, key : Nat]]
      /\ \A s \in Run : s # r => onb'[s] = onb[s]
  <2>1. onb' = [onb EXCEPT ![r] = [stage |-> b, key |-> onb[r].key]]
      BY <1>5, <1>6, GoesAsRecord
  <2>2. [stage |-> b, key |-> onb[r].key] \in [stage : OnbStages, key : Nat]
      BY <1>8 DEF OnbStages
  <2> QED BY <1>6, <1>8, <2>1, <2>2
<1>10. /\ registry \subseteq registry' /\ IsFiniteSet(registry') /\ Cardinality(registry') <= RegistryMax
       /\ (r \in Embedded /\ Sound(m)) => (Names(m, n) \cap registry = {} /\ Names(m, n) \subseteq registry')
  <2>1. IsFiniteSet(registry) /\ Cardinality(registry) <= RegistryMax
      BY <1>6 DEF RunsInv, OnbTypeOK
  <2>2. CASE r \in Embedded /\ Sound(m)
    <3>1. n = Taken(m, registry) /\ registry' = registry \cup Names(m, n)
        BY <1>2, <1>5, <2>2 DEF RegistryOf
    <3>2. /\ IsFiniteSet(registry \cup Names(m, Taken(m, registry)))
          /\ Cardinality(registry \cup Names(m, Taken(m, registry))) <= RegistryMax
          /\ Names(m, Taken(m, registry)) \cap registry = {}
        BY <1>7, <2>1, TakenKeepsWithin
    <3>3. IsFiniteSet(registry') /\ Cardinality(registry') <= RegistryMax /\ Names(m, n) \cap registry = {}
        BY <3>1, <3>2
    <3>4. registry \subseteq registry' /\ Names(m, n) \subseteq registry'
        BY <3>1
    <3> QED BY <3>3, <3>4
  <2>3. CASE ~(r \in Embedded /\ Sound(m))
    <3>1. Names(m, 0) = {}
        BY DEF Names
    <3>2. registry' = registry
        BY <1>2, <1>5, <2>3, <3>1
    <3> QED BY <2>1, <2>3, <3>2
  <2> QED BY <2>2, <2>3
<1>11. b = "registered" => /\ Sound(m) /\ (overlapped' = FALSE => UnderWay = {} /\ UnderWay' = {r})
                           /\ (r \in Embedded => /\ AllNames(m) \subseteq registry'
                                                /\ AllNames(m) \cap registry = {})
  <2> SUFFICES ASSUME b = "registered"
               PROVE  /\ Sound(m) /\ (overlapped' = FALSE => UnderWay = {} /\ UnderWay' = {r})
                      /\ (r \in Embedded => AllNames(m) \subseteq registry' /\ AllNames(m) \cap registry = {})
      OBVIOUS
  <2>1. passes /\ Sound(m) /\ n = Len(m.tools)
      BY <1>3, <1>4
  <2>2. ASSUME overlapped' = FALSE PROVE UnderWay = {} /\ UnderWay' = {r}
    <3>1. UnderWay = {}
        BY <1>5, <2>1, <2>2
    <3>2. \A s \in Run : s # r => onb'[s].stage \in OnbOver
        BY <1>9, <3>1 DEF UnderWay
    <3> QED BY <1>9, <3>1, <3>2 DEF UnderWay, OnbOver
  <2> QED BY <1>10, <2>1, <2>2 DEF AllNames
<1>12. b = "refused" => UnderWay' = UnderWay
    BY <1>5, <1>9 DEF UnderWay, OnbOver
<1>13. RunsInv'
  <2>1. overlapped' \in BOOLEAN
      BY <1>5, <1>6 DEF OnbTypeOK
  <2>2. OnbTypeOK'
      BY <1>5, <1>6, <1>9, <1>10, <2>1 DEF OnbTypeOK
  <2>3. \A s \in Run : RunShape(manifest'[s], onb'[s])
    <3>1. RunShape(m, onb'[r])
        BY <1>4, <1>9, <1>11 DEF RunShape, OnbOver
    <3> QED BY <1>1, <1>5, <1>6, <1>9, <3>1 DEF RunsInv
  <2>4. Keyed' = Keyed
      BY <1>8, <1>9 DEF Keyed
  <2>5. \A s \in seen : onb'[s].key # 0 /\ Sound(manifest[s])
    <3>1. \A s \in seen : s \in Run /\ onb[s].key # 0 /\ Sound(manifest[s])
        BY <1>6 DEF RunsInv, OnbTypeOK
    <3> QED BY <1>8, <1>9, <3>1
  <2>6. NamesAreOwned'
    <3>1. Embedded \subseteq Run
        BY OnboardingAssumption
    <3>2. \A s \in Embedded : s # r /\ Owns(onb'[s].stage) => AllNames(manifest[s]) \subseteq registry
        BY <1>6, <1>9, <3>1 DEF NamesAreOwned
    <3>3. Owns(onb'[r].stage) => b = "registered"
        BY <1>4, <1>9 DEF Owns
    <3> SUFFICES ASSUME NEW s \in Embedded, Owns(onb'[s].stage)
                 PROVE  /\ AllNames(manifest[s]) \subseteq registry'
                        /\ \A t \in Embedded : (t # s /\ Owns(onb'[t].stage)) =>
                               AllNames(manifest[s]) \cap AllNames(manifest[t]) = {}
        BY <1>5 DEF NamesAreOwned
    <3>4. CASE s = r
        BY <1>1, <1>11, <3>2, <3>3, <3>4
    <3>5. CASE s # r
      <4>1. AllNames(manifest[s]) \subseteq registry'
          BY <1>10, <3>2, <3>5
      <4>2. ASSUME NEW t \in Embedded, t # s, Owns(onb'[t].stage)
            PROVE  AllNames(manifest[s]) \cap AllNames(manifest[t]) = {}
        <5>1. CASE t = r
            BY <1>1, <1>11, <3>2, <3>3, <3>5, <4>2, <5>1
        <5>2. CASE t # r
            BY <1>6, <1>9, <3>1, <3>5, <4>2, <5>2 DEF NamesAreOwned
        <5> QED BY <5>1, <5>2
      <4> QED BY <4>1, <4>2
    <3> QED BY <3>4, <3>5
  <2>7. OnboardsAlone'
    <3>1. overlapped' = FALSE => overlapped = FALSE
        BY <1>5, <1>6 DEF OnbTypeOK
    <3> QED BY <1>6, <1>11, <1>12, <2>1, <3>1 DEF OnboardsAlone
  <2> QED BY <1>5, <1>6, <1>10, <2>2, <2>3, <2>4, <2>5, <2>6, <2>7 DEF RunsInv
<1>14. DiskIsWritten'
    BY <1>5, <1>6 DEF DiskIsWritten
<1>15. LookedBefore'
    BY <1>5, <1>6, <1>9 DEF LookedBefore, PastLook, OnbOver
<1>16. OneKey'
  <2>1. KeyOf(onb'[r], keyFile)
      BY <1>9 DEF KeyOf, OnbOver
  <2> QED BY <1>5, <1>6, <1>9, <2>1 DEF OneKey
<1>17. QuietFiles'
  <2> SUFFICES ASSUME ~overlapped', onbFaults = 0
               PROVE  /\ \A s \in UnderWay' : FilesAt(disk, onb', s)
                      /\ UnderWay' = {} => /\ disk["inv.pending"].by = NoRun /\ disk["cat.pending"].by = NoRun
                                           /\ PairIsWhole(disk, onb')
      BY <1>5 DEF QuietFiles
  <2>1. ~overlapped /\ overlapped' = FALSE
      BY <1>5, <1>6 DEF OnbTypeOK
  <2>2. PairIsWhole(disk, onb) => PairIsWhole(disk, onb')
      BY <1>5, <1>6, StageNames, GoesAsRecord, PairStays DEF Content, File
  <2>3. CASE b = "registered"
    <3>1. UnderWay = {} /\ UnderWay' = {r}
        BY <1>11, <2>1, <2>3
    <3>2. disk["inv.pending"].by = NoRun /\ disk["cat.pending"].by = NoRun /\ PairIsWhole(disk, onb')
        BY <1>6, <2>1, <2>2, <3>1 DEF QuietFiles
    <3> QED BY <1>9, <2>3, <3>1, <3>2 DEF FilesAt
  <2>4. CASE b = "refused"
    <3>1. UnderWay' = UnderWay
        BY <1>12, <2>4
    <3>2. \A s \in UnderWay : s # r /\ s \in Run
        BY <1>5 DEF UnderWay, OnbOver
    <3>3. ASSUME NEW s \in UnderWay PROVE FilesAt(disk, onb', s)
      <4>1. FilesAt(disk, onb, s) /\ onb'[s] = onb[s]
          BY <1>6, <1>9, <2>1, <3>2 DEF QuietFiles
      <4> QED BY <2>2, <4>1 DEF FilesAt
    <3> QED BY <1>6, <2>1, <2>2, <3>1, <3>3 DEF QuietFiles
  <2> QED BY <2>3, <2>4
<1> QED BY <1>13, <1>14, <1>15, <1>16, <1>17 DEF OnbInv, DiskInv

LEMMA OnbNextInv == OnbInv /\ [OnbNext]_onbVars => OnbInv'
<1> SUFFICES ASSUME OnbInv, [OnbNext]_onbVars PROVE OnbInv'
    OBVIOUS
<1>1. ASSUME NEW r \in Run,
             \/ Onboard(r) \/ LoadKey(r) \/ CreateKey(r) \/ VerifyPrior(r)
             \/ \E up, exported \in BOOLEAN : Stamp(r, up, exported)
             \/ StageInv(r) \/ StageCat(r)
             \/ \E bound \in BOOLEAN : CheckCoverage(r, bound)
             \/ Unlink(r) \/ PromoteInv(r) \/ PromoteCat(r) \/ Dies(r)
      PROVE  OnbInv'
    BY <1>1, OnboardInv, LoadKeyInv, CreateKeyInv, VerifyPriorInv, StampInv, StageInvInv, StageCatInv,
       CheckCoverageInv, UnlinkInv, PromoteInvInv, PromoteCatInv, DiesInv
<1>2. CASE EditInventory
    BY <1>2, EditInventoryInv
<1>3. CASE SpansAge
    BY <1>3, SpansAgeInv
<1>4. CASE UNCHANGED onbVars
    BY <1>4, OnbStutterInv
<1> QED BY <1>1, <1>2, <1>3, <1>4 DEF OnbNext

\* What an onboarding leaves behind is whole, verifies and owns its names, for any
\* number of runs, manifests, files and faults.
THEOREM OnboardingHolds == OnbSpec => [](OnbTypeOK /\ OnboardedWhole)
<1> QED BY OnbFacts, OnbInitInv, OnbNextInv, PTL DEF OnbSpec

-----------------------------------------------------------------------------
\* What a step may do to the inventory and to a run's verdict.
LEMMA OnbStepKeepsEvidence ==
    ASSUME OnbInv, OnbNext
    PROVE  /\ (~disk["inv"].sound /\ disk'["inv"] # disk["inv"]) => \E r \in late : Stage(r, "green")
           /\ \A r \in Run : (onb'[r].stage = "green" /\ ~Stage(r, "green")) =>
                 \E s \in seen : onb[s].key # 0 /\ Sound(manifest[s])
<1> DEFINE Keeps == (~disk["inv"].sound /\ disk'["inv"] # disk["inv"]) => \E r \in late : Stage(r, "green")
           Sees(r) == (onb'[r].stage = "green" /\ ~Stage(r, "green")) =>
                          \E s \in seen : onb[s].key # 0 /\ Sound(manifest[s])
<1>1. /\ onb \in [Run -> [stage : OnbStages, key : Nat]] /\ disk \in [File -> Content]
      /\ RunsInv /\ LookedBefore
    BY DEF OnbInv, RunsInv, OnbTypeOK, DiskInv
<1>2. ASSUME NEW r \in Run, NEW b, Goes(r, b), b # "green" PROVE \A s \in Run : Sees(s)
    BY <1>1, <1>2 DEF Goes, Stage
<1>3. ASSUME NEW r \in Run, Onboard(r) PROVE Keeps /\ \A s \in Run : Sees(s)
  <2>1. PICK b : Goes(r, b) /\ b \in {"registered", "refused"}
      BY <1>3 DEF Onboard
  <2> QED BY <1>2, <1>3, <2>1 DEF Onboard
<1>4. ASSUME NEW r \in Run, LoadKey(r) \/ CreateKey(r) PROVE Keeps /\ \A s \in Run : Sees(s)
    BY <1>1, <1>4 DEF LoadKey, LooksForKey, CreateKey, Stage
<1>5. ASSUME NEW r \in Run, VerifyPrior(r) PROVE Keeps /\ \A s \in Run : Sees(s)
  <2>1. PICK b : Goes(r, b) /\ b \in {"signed", "refused"}
      BY <1>5 DEF VerifyPrior
  <2> QED BY <1>2, <1>5, <2>1 DEF VerifyPrior
<1>6. ASSUME NEW r \in Run, NEW up \in BOOLEAN, NEW exported \in BOOLEAN, Stamp(r, up, exported)
      PROVE  Keeps /\ \A s \in Run : Sees(s)
  <2>1. PICK b : Goes(r, b) /\ b \in {"stamped", "refused"}
      BY <1>6 DEF Stamp
  <2> QED BY <1>2, <1>6, <2>1 DEF Stamp
<1>7. ASSUME NEW r \in Run, StageInv(r) \/ StageCat(r) PROVE Keeps /\ \A s \in Run : Sees(s)
  <2>1. PICK b, f : Goes(r, b) /\ b # "green" /\ f # "inv" /\ disk' = [disk EXCEPT ![f] = Mine(r)]
      BY <1>7 DEF StageInv, StageCat, Write
  <2>2. disk'["inv"] = disk["inv"]
      BY <1>1, <2>1 DEF File
  <2> QED BY <1>2, <2>1, <2>2
<1>8. ASSUME NEW r \in Run, NEW bound \in BOOLEAN, CheckCoverage(r, bound)
      PROVE  Keeps /\ \A s \in Run : Sees(s)
  <2>1. /\ UNCHANGED disk /\ Goes(r, IF Green(bound) THEN "green" ELSE "red")
      BY <1>8 DEF CheckCoverage
  <2>2. CASE Green(bound)
    <3>1. PICK s \in seen : TRUE
        BY <2>2 DEF Green
    <3>2. onb[s].key # 0 /\ Sound(manifest[s])
        BY <1>1 DEF RunsInv
    <3> QED BY <2>1, <3>2
  <2>3. CASE ~Green(bound)
      BY <1>2, <2>1, <2>3
  <2> QED BY <2>2, <2>3
<1>9. ASSUME NEW r \in Run, Unlink(r) PROVE Keeps /\ \A s \in Run : Sees(s)
  <2>1. PICK b, f : Goes(r, b) /\ b # "green" /\ f # "inv" /\ disk' = [disk EXCEPT ![f] = Absent]
      BY <1>9 DEF Unlink, Write, Unlinked
  <2>2. disk'["inv"] = disk["inv"]
      BY <1>1, <2>1 DEF File
  <2> QED BY <1>2, <2>1, <2>2
<1>10. ASSUME NEW r \in Run, PromoteInv(r) PROVE Keeps /\ \A s \in Run : Sees(s)
  <2>1. Stage(r, "green") /\ PastLook("green")
      BY <1>10 DEF PromoteInv, PastLook, OnbOver
  <2>2. ~disk["inv"].sound => r \in late
      BY <1>1, <2>1 DEF LookedBefore, Stage
  <2>3. PICK b : Goes(r, b) /\ b # "green"
      BY <1>10 DEF PromoteInv, Promote
  <2> QED BY <1>2, <2>1, <2>2, <2>3
<1>11. ASSUME NEW r \in Run, PromoteCat(r) PROVE Keeps /\ \A s \in Run : Sees(s)
  <2>1. PICK b : Goes(r, b) /\ b # "green"
      BY <1>11 DEF PromoteCat, Promote
  <2>2. disk'["inv"] = disk["inv"]
      BY <1>1, <1>11 DEF PromoteCat, Promote, File
  <2> QED BY <1>2, <2>1, <2>2
<1>12. ASSUME NEW r \in Run, Dies(r) PROVE Keeps /\ \A s \in Run : Sees(s)
    BY <1>2, <1>12 DEF Dies
<1>13. ASSUME EditInventory \/ SpansAge PROVE Keeps /\ \A s \in Run : Sees(s)
    BY <1>13 DEF EditInventory, SpansAge, Stage
<1> QED BY <1>3, <1>4, <1>5, <1>6, <1>7, <1>8, <1>9, <1>10, <1>11, <1>12, <1>13 DEF OnbNext

\* An inventory that does not verify is replaced only by a run that looked before
\* it broke, and a run turns green only for spans that a run with a key made the
\* backend show.
THEOREM EvidenceHolds == OnbSpec => EvidenceStands
<1>1. OnbInv /\ [OnbNext]_onbVars =>
        [(~disk["inv"].sound /\ disk'["inv"] # disk["inv"]) => \E r \in late : Stage(r, "green")]_onbVars
    BY OnbStepKeepsEvidence
<1>2. OnbInv /\ [OnbNext]_onbVars =>
        [\A r \in Run : (onb'[r].stage = "green" /\ ~Stage(r, "green")) =>
            \E s \in seen : onb[s].key # 0 /\ Sound(manifest[s])]_onbVars
    BY OnbStepKeepsEvidence
<1> QED BY <1>1, <1>2, OnbInitInv, OnbNextInv, PTL DEF OnbSpec, EvidenceStands, EvidenceIsKept, AdmittedWasVisible

-----------------------------------------------------------------------------
(* The evaluation gate. EvalSideInv is what one run and the report it      *)
(* sealed keep to, whatever became of the file since; EvalVerdictInv is    *)
(* what the gate read.                                                     *)

\* A report has its five fields.
IsContent(c) ==
    c = [score |-> c.score, passed |-> c.passed, suite_score |-> c.suite_score,
         per_dimension |-> c.per_dimension, leaking |-> c.leaking]

LeakFails(report) ==
    \E i \in DOMAIN report.outcomes : report.of.expect[i] = "no_leakage" /\ ~report.outcomes[i]

\* The runs, the files and the observations are functions of the side.
EvalShape ==
    /\ evalRun = [s \in Side |-> [stage |-> evalRun[s].stage, cases |-> evalRun[s].cases,
                                  todo |-> evalRun[s].todo]]
    /\ leaked = [s \in Side |-> leaked[s]]
    /\ reportFile = [s \in Side |-> reportFile[s]]

\* A run keeps its cases and a leak it has seen fails a case; what it seals is
\* what it ran, whatever became of the file since.
EvalSideOK(run, leaks, file) ==
    /\ run.stage \in {"idle", "running", "written", "aborted"}
    /\ run.stage = "idle" => run.cases = NoCases
    /\ IsFiniteSet(DOMAIN run.cases)
    /\ \A k \in DOMAIN run.todo : run.todo[k] \in Expecting
    /\ \A k \in DOMAIN run.cases :
        /\ run.cases[k] \in CaseReport /\ k \notin DOMAIN run.todo
        /\ Len(run.cases[k].outcomes) = Len(run.cases[k].of.expect)
    /\ \A k \in leaks : k \in DOMAIN run.cases /\ (run.cases[k].of.tagged => k \in Leaking(run.cases))
    /\ run.stage # "written" => file = << >>
    /\ run.stage = "written" =>
        \E c, e : /\ file = <<[content |-> c, sealed |-> Redacted(ReportContent(run.cases)),
                               elapsed |-> e]>>
                  /\ IsContent(c)

EvalSideInv(s) == EvalSideOK(evalRun[s], leaked[s], reportFile[s])

\* What was judged is there and as it was when it was judged.
EvalVerdictInv ==
    /\ evalVerdict \in {"none", "refused", "fail", "pass"}
    /\ edits \in 0..MaxEdits
    /\ evalVerdict \in {"pass", "fail"} => \A s \in Side : evalRun[s].stage = "written"
    /\ JudgesWhatWasRun
    /\ evalVerdict = "pass" => ~Regressed(ReportContent(Ran("baseline")), ReportContent(Ran("candidate")))

EvalInv == EvalShape /\ EvalVerdictInv /\ \A s \in Side : EvalSideInv(s)

-----------------------------------------------------------------------------
\* The properties follow from what the gate compared.
LEMMA EvalPassFacts ==
    ASSUME EvalInv PROVE PassIsEarned
<1> DEFINE B == Ran("baseline")
           C == Ran("candidate")
           b == ReportContent(B)
           c == ReportContent(C)
<1> SUFFICES ASSUME evalVerdict = "pass"
             PROVE  PassKeepsEveryCase /\ PassMeansNoLeak /\ NoDimensionIsUngraded
    BY DEF PassIsEarned, EvalInv, EvalVerdictInv, PassKeepsEveryCase, PassMeansNoLeak,
           NoDimensionIsUngraded
<1>1. ~Regressed(b, c)
    BY DEF EvalInv, EvalVerdictInv
<1>2. /\ b.passed = [k \in DOMAIN B |-> B[k].how = "answered" /\ Complete(Score(B[k]))]
      /\ c.passed = [k \in DOMAIN C |-> C[k].how = "answered" /\ Complete(Score(C[k]))]
      /\ b.per_dimension = PerDimension(B) /\ c.per_dimension = PerDimension(C)
      /\ c.leaking = Cardinality(Leaking(C))
    BY DEF ReportContent
<1> HIDE DEF b, c
<1>3. PassKeepsEveryCase
  <2> SUFFICES ASSUME NEW k \in EvalCase, Won("baseline", k) PROVE Won("candidate", k)
      BY DEF PassKeepsEveryCase
  <2>1. k \in DOMAIN B /\ b.passed[k]
      BY <1>2 DEF Won
  <2>2. k \in DOMAIN C
      BY <1>1, <1>2, <2>1 DEF Regressed, Missing
  <2>3. k \in DOMAIN b.passed \cap DOMAIN c.passed
      BY <1>2, <2>1, <2>2
  <2>4. c.passed[k]
      BY <1>1, <2>1, <2>3 DEF Regressed
  <2> QED BY <1>2, <2>2, <2>4 DEF Won
<1>4. PassMeansNoLeak
  <2>1. Leaking(C) \in SUBSET DOMAIN C
      BY DEF Leaking
  <2>2. IsFiniteSet(Leaking(C)) /\ Cardinality(Leaking(C)) \in Nat
      BY <2>1, FS_Subset, FS_CardinalityType DEF EvalInv, EvalSideInv, EvalSideOK, Ran, Side
  <2>3. Cardinality(Leaking(C)) = 0
      BY <1>1, <1>2, <2>2 DEF Regressed
  <2>4. Leaking(C) = {}
      BY <2>2, <2>3, FS_EmptySet
  <2> QED BY <2>4 DEF PassMeansNoLeak, EvalInv, EvalSideInv, EvalSideOK, Ran, Side
<1>5. NoDimensionIsUngraded
  <2> SUFFICES ASSUME NEW d \in DOMAIN PerDimension(B), d \notin DOMAIN PerDimension(C)
               PROVE  ~DropsBy(PerDimension(B)[d], <<0, 1>>, DimensionDrop)
      BY DEF NoDimensionIsUngraded
  <2>1. ~DropsBy(b.per_dimension[d], DimensionScore(c.per_dimension, d, b.per_dimension[d]),
                 DimensionDrop)
      BY <1>1, <1>2 DEF Regressed
  <2>2. DimensionScore(c.per_dimension, d, b.per_dimension[d]) = <<0, 1>>
      BY <1>2 DEF DimensionScore
  <2> QED BY <1>2, <2>1, <2>2
<1> QED BY <1>3, <1>4, <1>5

LEMMA EvalTypeFacts == EvalInv => EvalTypeOK
<1> SUFFICES ASSUME EvalInv PROVE EvalTypeOK
    OBVIOUS
<1>1. ASSUME NEW s \in Side
      PROVE  /\ evalRun[s].stage \in {"idle", "running", "written", "aborted"}
             /\ \A k \in DOMAIN evalRun[s].cases :
                 /\ evalRun[s].cases[k] \in CaseReport /\ k \notin DOMAIN evalRun[s].todo
                 /\ Len(evalRun[s].cases[k].outcomes) = Len(evalRun[s].cases[k].of.expect)
             /\ leaked[s] \subseteq DOMAIN evalRun[s].cases
    BY DEF EvalInv, EvalSideInv, EvalSideOK
<1>2. ASSUME NEW s \in Side PROVE reportFile[s] # << >> <=> evalRun[s].stage = "written"
  <2>1. CASE evalRun[s].stage = "written"
    <3>1. PICK r : reportFile[s] = <<r>>
        BY <2>1 DEF EvalInv, EvalSideInv, EvalSideOK
    <3> QED BY <2>1, <3>1
  <2>2. CASE evalRun[s].stage # "written"
      BY <2>2 DEF EvalInv, EvalSideInv, EvalSideOK
  <2> QED BY <2>1, <2>2
<1> QED BY <1>1, <1>2 DEF EvalInv, EvalVerdictInv, EvalTypeOK

LEMMA EvalInitInv == EvalInit => EvalInv
<1> SUFFICES ASSUME EvalInit PROVE EvalInv
    OBVIOUS
<1>1. EvalShape
    BY DEF EvalInit, EvalShape
<1>2. EvalVerdictInv
  <2>1. evalVerdict = "none" /\ edits = 0
      BY DEF EvalInit
  <2> QED BY <2>1, EvalAssumption DEF EvalVerdictInv, JudgesWhatWasRun
<1>3. ASSUME NEW s \in Side PROVE EvalSideInv(s)
  <2>1. /\ evalRun[s].stage = "idle" /\ evalRun[s].cases = NoCases /\ evalRun[s].todo = NoCases
        /\ leaked[s] = {} /\ reportFile[s] = << >>
      BY DEF EvalInit, Ran
  <2>2. DOMAIN NoCases = {}
      BY DEF NoCases
  <2>3. IsFiniteSet(DOMAIN evalRun[s].cases)
      BY <2>1, <2>2, FS_EmptySet
  <2> QED BY <2>1, <2>2, <2>3 DEF EvalSideInv, EvalSideOK
<1> QED BY <1>1, <1>2, <1>3 DEF EvalInv

\* A side that is left alone is as it was.
LEMMA EvalSideStays ==
    ASSUME NEW o \in Side, EvalSideInv(o), evalRun'[o] = evalRun[o], leaked'[o] = leaked[o],
           reportFile'[o] = reportFile[o]
    PROVE  EvalSideInv(o)'
BY DEF EvalSideInv

\* A run that is not written yet has not been judged.
LEMMA EvalUnjudged ==
    ASSUME EvalInv, NEW s \in Side, evalRun[s].stage # "written", UNCHANGED <<evalVerdict, edits>>
    PROVE  EvalVerdictInv'
<1>1. evalVerdict \in {"none", "refused"} /\ edits \in 0..MaxEdits
    BY DEF EvalInv, EvalVerdictInv
<1> QED BY <1>1 DEF EvalVerdictInv, JudgesWhatWasRun

LEMMA BeginSuiteInv ==
    ASSUME EvalInv, NEW s \in Side, BeginSuite(s) PROVE EvalInv'
<1>1. EvalShape /\ EvalSideInv(s)
    BY DEF EvalInv
<1>2. PICK su \in Suite : evalRun' = [evalRun EXCEPT ![s] =
            IF su.sound THEN [stage |-> "running", cases |-> NoCases, todo |-> su.cases]
            ELSE [@ EXCEPT !.stage = "aborted"]]
    BY DEF BeginSuite
<1>3. evalRun[s].stage = "idle" /\ UNCHANGED <<leaked, reportFile, evalVerdict, edits>>
    BY DEF BeginSuite
<1>4. \A o \in Side : o # s => evalRun'[o] = evalRun[o]
    BY <1>1, <1>2 DEF EvalShape
<1>5. \/ evalRun'[s] = [stage |-> "running", cases |-> NoCases, todo |-> su.cases]
      \/ evalRun'[s] = [stage |-> "aborted", cases |-> evalRun[s].cases, todo |-> evalRun[s].todo]
  <2>1. evalRun'[s] = IF su.sound THEN [stage |-> "running", cases |-> NoCases, todo |-> su.cases]
                      ELSE [evalRun[s] EXCEPT !.stage = "aborted"]
      BY <1>1, <1>2 DEF EvalShape
  <2>2. evalRun[s] = [stage |-> evalRun[s].stage, cases |-> evalRun[s].cases, todo |-> evalRun[s].todo]
      BY <1>1 DEF EvalShape, Ran
  <2>3. [evalRun[s] EXCEPT !.stage = "aborted"]
            = [stage |-> "aborted", cases |-> evalRun[s].cases, todo |-> evalRun[s].todo]
      BY <2>2
  <2> QED BY <2>1, <2>3
<1>6. EvalShape'
  <2>1. evalRun' = [o \in Side |-> evalRun'[o]]
      BY <1>1, <1>2 DEF EvalShape
  <2>2. \A o \in Side : evalRun'[o] = [stage |-> evalRun'[o].stage, cases |-> evalRun'[o].cases,
                                       todo |-> evalRun'[o].todo]
      BY <1>1, <1>4, <1>5 DEF EvalShape
  <2> QED BY <1>1, <1>3, <2>1, <2>2 DEF EvalShape
<1>7. EvalVerdictInv'
    BY <1>3, EvalUnjudged
<1>8. \A o \in Side : o # s => EvalSideInv(o)'
    BY <1>3, <1>4, EvalSideStays DEF EvalInv
<1>9. EvalSideInv(s)'
  <2>1. reportFile'[s] = << >> /\ leaked'[s] = leaked[s]
      BY <1>1, <1>3 DEF EvalSideInv, EvalSideOK
  <2>2. CASE evalRun'[s] = [stage |-> "running", cases |-> NoCases, todo |-> su.cases]
    <3>1. evalRun'[s].cases = NoCases /\ DOMAIN NoCases = {}
        BY <2>2 DEF Ran, NoCases
    <3>2. evalRun'[s].stage = "running" /\ evalRun'[s].todo = su.cases
        BY <2>2
    <3>3. \A k \in DOMAIN evalRun'[s].todo : evalRun'[s].todo[k] \in Expecting
        BY <3>2, EvalAssumption
    <3>4. IsFiniteSet(DOMAIN evalRun'[s].cases)
        BY <3>1, FS_EmptySet
    <3>5. leaked'[s] = {}
      <4>1. evalRun[s].cases = NoCases
          BY <1>1, <1>3 DEF EvalSideInv, EvalSideOK
      <4> QED BY <1>1, <2>1, <3>1, <4>1 DEF EvalSideInv, EvalSideOK
    <3> QED BY <2>1, <3>1, <3>2, <3>3, <3>4, <3>5 DEF EvalSideInv, EvalSideOK
  <2>3. CASE evalRun'[s] = [stage |-> "aborted", cases |-> evalRun[s].cases, todo |-> evalRun[s].todo]
    <3>1. /\ evalRun'[s].stage = "aborted" /\ evalRun'[s].cases = evalRun[s].cases
          /\ evalRun'[s].todo = evalRun[s].todo
        BY <2>3 DEF Ran
    <3>2. Leaking(evalRun[s].cases)' = Leaking(evalRun[s].cases)
        BY <3>1 DEF Leaking
    <3> QED BY <1>1, <2>1, <3>1, <3>2 DEF EvalSideInv, EvalSideOK
  <2> QED BY <1>5, <2>2, <2>3
<1> QED BY <1>6, <1>7, <1>8, <1>9 DEF EvalInv
\* One more case is reported, and leaves what is still to do.
LEMMA ReportedInv ==
    ASSUME EvalInv, NEW s \in Side, NEW k, Pending(s, k), NEW report \in CaseReport,
           Len(report.outcomes) = Len(report.of.expect), Reported(s, k, report),
           \/ leaked' = leaked
           \/ leaked' = [leaked EXCEPT ![s] = @ \cup {k}] /\ LeakFails(report),
           UNCHANGED <<reportFile, evalVerdict, edits>>
    PROVE  EvalInv'
<1>1. EvalShape /\ EvalSideInv(s) /\ evalRun[s].stage = "running" /\ k \in DOMAIN evalRun[s].todo
    BY DEF EvalInv, Pending
<1>2. evalRun[s] = [stage |-> "running", cases |-> evalRun[s].cases, todo |-> evalRun[s].todo]
    BY <1>1 DEF EvalShape, Ran
<1> DEFINE cases == [j \in DOMAIN evalRun[s].cases \cup {k} |-> IF j = k THEN report ELSE evalRun[s].cases[j]]
           todo == [j \in DOMAIN evalRun[s].todo \ {k} |-> evalRun[s].todo[j]]
<1>3. evalRun'[s] = [stage |-> "running", cases |-> cases, todo |-> todo]
    BY <1>1 DEF EvalShape, Reported
<1>4. \A o \in Side : o # s => evalRun'[o] = evalRun[o]
    BY <1>1 DEF EvalShape, Reported
<1>5. leaked' = [o \in Side |-> leaked'[o]] /\ \A o \in Side : o # s => leaked'[o] = leaked[o]
    BY <1>1 DEF EvalShape
<1>6. EvalShape'
  <2>1. evalRun' = [o \in Side |-> evalRun'[o]]
      BY <1>1 DEF EvalShape, Reported
  <2>2. \A o \in Side : evalRun'[o] = [stage |-> evalRun'[o].stage, cases |-> evalRun'[o].cases,
                                       todo |-> evalRun'[o].todo]
    <3> SUFFICES ASSUME NEW o \in Side
                 PROVE  evalRun'[o] = [stage |-> evalRun'[o].stage, cases |-> evalRun'[o].cases,
                                       todo |-> evalRun'[o].todo]
        OBVIOUS
    <3>1. CASE o = s
        BY <1>3, <3>1
    <3>2. CASE o # s
        BY ZenonT(30), <1>1, <1>4, <3>2 DEF EvalShape
    <3> QED BY <3>1, <3>2
  <2> QED BY <1>1, <1>5, <2>1, <2>2 DEF EvalShape
<1>7. EvalVerdictInv'
    BY <1>1, EvalUnjudged
<1>8. \A o \in Side : o # s => EvalSideInv(o)'
    BY <1>4, <1>5, EvalSideStays DEF EvalInv
<1>9. EvalSideInv(s)'
  <2>1. evalRun'[s].cases = cases /\ evalRun'[s].todo = todo /\ evalRun'[s].stage = "running"
      BY <1>3 DEF Ran
  <2>2. IsFiniteSet(DOMAIN evalRun[s].cases \cup {k})
      BY <1>1, FS_AddElement DEF EvalSideInv, EvalSideOK
  <2>3. \A j \in DOMAIN todo : todo[j] \in Expecting
      BY <1>1 DEF EvalSideInv, EvalSideOK
  <2>4. \A j \in DOMAIN cases : cases[j] \in CaseReport /\ j \notin DOMAIN todo
                                /\ Len(cases[j].outcomes) = Len(cases[j].of.expect)
      BY <1>1 DEF EvalSideInv, EvalSideOK
  <2>5. k \notin DOMAIN evalRun[s].cases
      BY <1>1 DEF EvalSideInv, EvalSideOK
  <2>6. \A j \in DOMAIN evalRun[s].cases : cases[j] = evalRun[s].cases[j] /\ j \in DOMAIN cases
      BY <2>5
  <2>7. \A j \in leaked[s] : j \in DOMAIN cases /\ (cases[j].of.tagged => j \in Leaking(cases))
    <3> SUFFICES ASSUME NEW j \in leaked[s]
                 PROVE  j \in DOMAIN cases /\ (cases[j].of.tagged => j \in Leaking(cases))
        OBVIOUS
    <3>1. j \in DOMAIN evalRun[s].cases /\ (evalRun[s].cases[j].of.tagged => j \in Leaking(evalRun[s].cases))
        BY <1>1 DEF EvalSideInv, EvalSideOK
    <3>2. cases[j] = evalRun[s].cases[j] /\ j \in DOMAIN cases
        BY <2>6, <3>1
    <3> HIDE DEF cases
    <3> QED BY <3>1, <3>2 DEF Leaking
  <2>8. (leaked' # leaked) => (cases[k].of.tagged => k \in Leaking(cases))
      BY DEF Leaking, LeakFails
  <2>9. \A j \in leaked'[s] : j \in DOMAIN cases /\ (cases[j].of.tagged => j \in Leaking(cases))
    <3>1. leaked'[s] = leaked[s] \/ (leaked'[s] = leaked[s] \cup {k} /\ leaked' # leaked)
      <4>1. CASE leaked' = leaked
          BY <4>1
      <4>2. CASE leaked' # leaked
        <5>1. leaked' = [leaked EXCEPT ![s] = @ \cup {k}]
            BY <4>2
        <5>2. leaked'[s] = leaked[s] \cup {k}
            BY <1>1, <5>1 DEF EvalShape
        <5> QED BY <4>2, <5>2
      <4> QED BY <4>1, <4>2
    <3>2. k \in DOMAIN cases
        OBVIOUS
    <3> HIDE DEF cases
    <3> QED BY <2>7, <2>8, <3>1, <3>2
  <2>10. reportFile'[s] = << >>
      BY <1>1 DEF EvalSideInv, EvalSideOK
  <2>11. DOMAIN cases = DOMAIN evalRun[s].cases \cup {k}
      OBVIOUS
  <2> HIDE DEF cases, todo
  <2> QED BY <2>1, <2>2, <2>3, <2>4, <2>9, <2>10, <2>11 DEF EvalSideInv, EvalSideOK
<1> QED BY <1>6, <1>7, <1>8, <1>9 DEF EvalInv

LEMMA CaseAnsweredInv ==
    ASSUME EvalInv, NEW s \in Side, NEW k, CaseAnswered(s, k) PROVE EvalInv'
<1>1. EvalShape /\ EvalSideInv(s) /\ Pending(s, k)
    BY DEF EvalInv, CaseAnswered
<1> DEFINE c == evalRun[s].todo[k]
<1>2. c \in Expecting
    BY <1>1 DEF EvalSideInv, EvalSideOK, Pending
<1>3. PICK r \in EvalResult :
        IF "unknown" \in ToSet(c.expect)
        THEN evalRun' = [evalRun EXCEPT ![s].stage = "aborted"] /\ UNCHANGED leaked
        ELSE /\ Reported(s, k, Answered(c, r))
             /\ leaked' = IF r.claimed /\ r.verdict # "passed" /\ "no_leakage" \in ToSet(c.expect)
                          THEN [leaked EXCEPT ![s] = @ \cup {k}] ELSE leaked
    BY DEF CaseAnswered
<1>4. UNCHANGED <<reportFile, evalVerdict, edits>>
    BY DEF CaseAnswered
<1> HIDE DEF c
<1>5. CASE "unknown" \in ToSet(c.expect)
  <2>1. evalRun' = [evalRun EXCEPT ![s].stage = "aborted"] /\ leaked' = leaked
      BY <1>3, <1>5
  <2>2. \A o \in Side : o # s => evalRun'[o] = evalRun[o]
      BY <1>1, <2>1 DEF EvalShape
  <2>3. evalRun'[s] = [stage |-> "aborted", cases |-> evalRun[s].cases, todo |-> evalRun[s].todo]
      BY <1>1, <2>1 DEF EvalShape
  <2>4. EvalShape'
    <3>1. evalRun' = [o \in Side |-> evalRun'[o]]
        BY <1>1, <2>1 DEF EvalShape
    <3>2. ASSUME NEW o \in Side
          PROVE  evalRun'[o] = [stage |-> evalRun'[o].stage, cases |-> evalRun'[o].cases,
                                todo |-> evalRun'[o].todo]
      <4>1. CASE o = s
          BY <2>3, <4>1
      <4>2. CASE o # s
          BY <1>1, <2>2, <4>2 DEF EvalShape
      <4> QED BY <4>1, <4>2
    <3> QED BY <1>1, <1>4, <2>1, <3>1, <3>2 DEF EvalShape
  <2>5. EvalVerdictInv'
      BY <1>1, <1>4, EvalUnjudged DEF Pending
  <2>6. \A o \in Side : o # s => EvalSideInv(o)'
      BY <1>4, <2>1, <2>2, EvalSideStays DEF EvalInv
  <2>7. EvalSideInv(s)'
      BY <1>1, <1>4, <2>1, <2>3 DEF EvalSideInv, EvalSideOK, Pending
  <2> QED BY <2>4, <2>5, <2>6, <2>7 DEF EvalInv
<1>6. CASE "unknown" \notin ToSet(c.expect)
  <2>1. Reported(s, k, Answered(c, r))
      BY <1>3, <1>6
  <2>2. leaked' = leaked \/
            (leaked' = [leaked EXCEPT ![s] = @ \cup {k}] /\ Leaks(r) /\ "no_leakage" \in ToSet(c.expect))
      BY <1>3, <1>6 DEF Leaks
  <2>3. \A i \in DOMAIN c.expect : Passes(c.expect[i], r) \in BOOLEAN
      BY DEF Passes, Leaks, EvalResult
  <2>4. c.expect \in Seq(Check)
      BY <1>2 DEF Expecting
  <2>5. [i \in DOMAIN c.expect |-> Passes(c.expect[i], r)] \in Seq(BOOLEAN)
        /\ Len([i \in DOMAIN c.expect |-> Passes(c.expect[i], r)]) = Len(c.expect)
    <3>1. DOMAIN c.expect = 1..Len(c.expect) /\ Len(c.expect) \in Nat
        BY <2>4
    <3> DEFINE o == [i \in DOMAIN c.expect |-> Passes(c.expect[i], r)]
    <3>2. o \in [1..Len(c.expect) -> BOOLEAN]
        BY <2>3, <3>1
    <3> HIDE DEF o
    <3>3. o \in Seq(BOOLEAN) /\ Len(o) = Len(c.expect)
        BY <3>1, <3>2
    <3> QED BY <3>3 DEF o
  <2>6. Answered(c, r) \in CaseReport /\ Len(Answered(c, r).outcomes) = Len(Answered(c, r).of.expect)
      BY <1>2, <2>5 DEF Answered, CaseReport
  <2>7. Leaks(r) /\ "no_leakage" \in ToSet(c.expect) => LeakFails(Answered(c, r))
    <3> SUFFICES ASSUME Leaks(r), "no_leakage" \in ToSet(c.expect) PROVE LeakFails(Answered(c, r))
        OBVIOUS
    <3>1. PICK i \in DOMAIN c.expect : c.expect[i] = "no_leakage"
        BY DEF ToSet
    <3>2. ~Passes(c.expect[i], r)
        BY <3>1 DEF Passes
    <3>3. /\ DOMAIN Answered(c, r).outcomes = DOMAIN c.expect
          /\ Answered(c, r).of.expect[i] = "no_leakage"
          /\ Answered(c, r).outcomes[i] = Passes(c.expect[i], r)
        BY <3>1 DEF Answered
    <3> QED BY <3>1, <3>2, <3>3 DEF LeakFails
  <2> HIDE DEF Pending
  <2> QED BY <1>1, <1>4, <2>1, <2>2, <2>6, <2>7, ReportedInv
<1> QED BY <1>5, <1>6

LEMMA CaseUnansweredInv ==
    ASSUME EvalInv, NEW s \in Side, NEW k, CaseUnanswered(s, k) PROVE EvalInv'
<1>1. EvalSideInv(s) /\ Pending(s, k)
    BY DEF EvalInv, CaseUnanswered
<1> DEFINE c == evalRun[s].todo[k]
<1>2. c \in Expecting
    BY <1>1 DEF EvalSideInv, EvalSideOK, Pending
<1>3. PICK how \in {"timed_out", "agent_error"} : Reported(s, k, CaseFailed(c, how))
    BY DEF CaseUnanswered
<1>4. UNCHANGED <<leaked, reportFile, evalVerdict, edits>>
    BY DEF CaseUnanswered
<1> HIDE DEF c
<1>5. c.expect \in Seq(Check)
    BY <1>2 DEF Expecting
<1>6. [i \in DOMAIN c.expect |-> FALSE] \in Seq(BOOLEAN)
      /\ Len([i \in DOMAIN c.expect |-> FALSE]) = Len(c.expect)
  <2>1. DOMAIN c.expect = 1..Len(c.expect) /\ Len(c.expect) \in Nat
      BY <1>5
  <2> DEFINE o == [i \in DOMAIN c.expect |-> FALSE]
  <2>2. o \in [1..Len(c.expect) -> BOOLEAN]
      BY <2>1
  <2> HIDE DEF o
  <2>3. o \in Seq(BOOLEAN) /\ Len(o) = Len(c.expect)
      BY <2>1, <2>2
  <2> QED BY <2>3 DEF o
<1>7. CaseFailed(c, how) \in CaseReport
      /\ Len(CaseFailed(c, how).outcomes) = Len(CaseFailed(c, how).of.expect)
    BY <1>2, <1>6 DEF CaseFailed, CaseReport
<1> QED BY <1>1, <1>3, <1>4, <1>7, ReportedInv

\* The content of a report is a report's.
LEMMA ReportContentShape == \A cases : IsContent(ReportContent(cases))
BY DEF IsContent, ReportContent

\* One hash, one content.
LEMMA RedactedIsOneToOne ==
    ASSUME NEW c, NEW d, IsContent(c), IsContent(d), Redacted(c) = Redacted(d)
    PROVE  c = d
BY DEF IsContent, Redacted

LEMMA WriteReportInv ==
    ASSUME EvalInv, NEW s \in Side, WriteReport(s) PROVE EvalInv'
<1>1. EvalShape /\ EvalSideInv(s) /\ evalRun[s].stage = "running"
    BY DEF EvalInv, WriteReport
<1> DEFINE content == ReportContent(evalRun[s].cases)
           report == <<[content |-> content, sealed |-> Redacted(content), elapsed |-> "measured"]>>
<1>2. /\ reportFile' = [reportFile EXCEPT ![s] = report]
      /\ evalRun' = [evalRun EXCEPT ![s].stage = "written"]
      /\ UNCHANGED <<leaked, evalVerdict, edits>>
    BY DEF WriteReport
<1>3. IsContent(content)
    BY ReportContentShape
<1> HIDE DEF content
<1>4. /\ \A o \in Side : o # s => evalRun'[o] = evalRun[o] /\ reportFile'[o] = reportFile[o]
      /\ reportFile'[s] = report
    BY <1>1, <1>2 DEF EvalShape
<1>5. evalRun'[s] = [stage |-> "written", cases |-> evalRun[s].cases, todo |-> evalRun[s].todo]
    BY <1>1, <1>2 DEF EvalShape
<1>6. EvalShape'
  <2>1. evalRun' = [o \in Side |-> evalRun'[o]] /\ reportFile' = [o \in Side |-> reportFile'[o]]
      BY <1>1, <1>2 DEF EvalShape
  <2>2. ASSUME NEW o \in Side
        PROVE  evalRun'[o] = [stage |-> evalRun'[o].stage, cases |-> evalRun'[o].cases,
                              todo |-> evalRun'[o].todo]
    <3>1. CASE o = s
        BY <1>5, <3>1
    <3>2. CASE o # s
        BY <1>1, <1>4, <3>2 DEF EvalShape
    <3> QED BY <3>1, <3>2
  <2> QED BY <1>1, <1>2, <2>1, <2>2 DEF EvalShape
<1>7. EvalVerdictInv'
    BY <1>1, <1>2, EvalUnjudged
<1>8. \A o \in Side : o # s => EvalSideInv(o)'
    BY <1>2, <1>4, EvalSideStays DEF EvalInv
<1>9. EvalSideInv(s)'
  <2>1. \E c, e : /\ report = <<[content |-> c, sealed |-> Redacted(ReportContent(evalRun[s].cases)),
                                 elapsed |-> e]>>
                  /\ IsContent(c)
      BY <1>3 DEF content
  <2> HIDE DEF report
  <2>2. EvalSideOK([stage |-> "written", cases |-> evalRun[s].cases, todo |-> evalRun[s].todo],
                   leaked[s], report)
      BY <1>1, <2>1 DEF EvalSideInv, EvalSideOK
  <2> QED BY <1>2, <1>4, <1>5, <2>2 DEF EvalSideInv
<1> QED BY <1>6, <1>7, <1>8, <1>9 DEF EvalInv

LEMMA ContentEdit ==
    ASSUME NEW c, IsContent(c), NEW v
    PROVE  IsContent([c EXCEPT !.passed = v]) /\ IsContent([c EXCEPT !.leaking = v])
BY DEF IsContent

LEMMA SealedEdit ==
    ASSUME NEW r, NEW c, NEW seal, NEW e, r = [content |-> c, sealed |-> seal, elapsed |-> e], NEW v
    PROVE  /\ [r EXCEPT !.content = v] = [content |-> v, sealed |-> seal, elapsed |-> e]
           /\ [r EXCEPT !.elapsed = v] = [content |-> c, sealed |-> seal, elapsed |-> v]
OBVIOUS

\* An edit leaves the seal.
LEMMA EditReportInv ==
    ASSUME EvalInv, NEW s \in Side, evalVerdict = "none", EditReport(s) PROVE EvalInv'
<1>1. EvalShape /\ EvalSideInv(s)
    BY DEF EvalInv
<1>2. reportFile[s] # << >> /\ edits < MaxEdits /\ edits' = edits + 1
      /\ UNCHANGED <<evalRun, leaked, evalVerdict>>
    BY DEF EditReport
<1>3. evalRun[s].stage = "written"
    BY <1>1, <1>2 DEF EvalSideInv, EvalSideOK
<1> DEFINE seal == Redacted(ReportContent(evalRun[s].cases))
<1>4. PICK c, e : reportFile[s] = <<[content |-> c, sealed |-> seal, elapsed |-> e]>> /\ IsContent(c)
    BY <1>1, <1>3 DEF EvalSideInv, EvalSideOK
<1> HIDE DEF seal
<1> DEFINE r == reportFile[s][1]
<1>5. \E d, f : /\ reportFile' = [reportFile EXCEPT ![s] = <<[content |-> d, sealed |-> seal, elapsed |-> f]>>]
                /\ IsContent(d)
  <2>1. r = [content |-> c, sealed |-> seal, elapsed |-> e] /\ r.content = c
      BY <1>4
  <2>2. PICK edited \in {[r EXCEPT !.content.passed[k] = TRUE] : k \in DOMAIN r.content.passed}
                          \cup {[r EXCEPT !.content.leaking = 0], [r EXCEPT !.elapsed = "edited"]} :
            reportFile' = [reportFile EXCEPT ![s] = <<edited>>]
      BY DEF EditReport
  <2> HIDE DEF r
  <2>3. CASE \E k : edited = [r EXCEPT !.content.passed[k] = TRUE]
    <3>1. PICK k : edited = [r EXCEPT !.content.passed[k] = TRUE]
        BY <2>3
    <3>2. edited = [r EXCEPT !.content = [c EXCEPT !.passed = [c.passed EXCEPT ![k] = TRUE]]]
        BY <2>1, <3>1
    <3>3. edited.content = [c EXCEPT !.passed = [c.passed EXCEPT ![k] = TRUE]]
        BY <2>1, <3>2
    <3> QED BY ZenonT(30), <1>4, <2>1, <2>2, <3>2, SealedEdit, ContentEdit
  <2>4. CASE edited = [r EXCEPT !.content.leaking = 0]
    <3>1. edited = [r EXCEPT !.content = [c EXCEPT !.leaking = 0]]
        BY <2>1, <2>4
    <3> QED BY ZenonT(30), <1>4, <2>1, <2>2, <3>1, SealedEdit, ContentEdit
  <2>5. CASE edited = [r EXCEPT !.elapsed = "edited"]
      BY <1>4, <2>1, <2>2, <2>5, SealedEdit
  <2> QED BY <2>2, <2>3, <2>4, <2>5
<1>6. PICK d, f : /\ reportFile' = [reportFile EXCEPT ![s] = <<[content |-> d, sealed |-> seal, elapsed |-> f]>>]
                  /\ IsContent(d)
    BY <1>5
<1>7. /\ reportFile'[s] = <<[content |-> d, sealed |-> seal, elapsed |-> f]>>
      /\ \A o \in Side : o # s => reportFile'[o] = reportFile[o]
      /\ reportFile' = [o \in Side |-> reportFile'[o]]
    BY <1>1, <1>6 DEF EvalShape
<1>8. EvalShape'
    BY <1>1, <1>2, <1>7 DEF EvalShape
<1>9. EvalVerdictInv'
  <2>1. edits' \in 0..MaxEdits
      BY <1>2, EvalAssumption DEF EvalInv, EvalVerdictInv
  <2> QED BY <1>2, <2>1 DEF EvalVerdictInv, JudgesWhatWasRun
<1>10. \A o \in Side : o # s => EvalSideInv(o)'
    BY <1>2, <1>7, EvalSideStays DEF EvalInv
<1>11. EvalSideInv(s)'
    BY <1>1, <1>2, <1>3, <1>6, <1>7 DEF EvalSideInv, EvalSideOK, seal
<1> QED BY <1>8, <1>9, <1>10, <1>11 DEF EvalInv

\* An accepted report is what was run.
LEMMA AcceptedIsRun ==
    ASSUME EvalInv, NEW s \in Side, Accepted(s)
    PROVE  evalRun[s].stage = "written" /\ reportFile[s][1].content = ReportContent(evalRun[s].cases)
<1>1. EvalSideInv(s)
    BY DEF EvalInv
<1>2. evalRun[s].stage = "written"
    BY <1>1 DEF EvalSideInv, EvalSideOK, Accepted
<1>3. PICK c, e : /\ reportFile[s] = <<[content |-> c, sealed |-> Redacted(ReportContent(evalRun[s].cases)),
                                        elapsed |-> e]>>
                  /\ IsContent(c)
    BY <1>1, <1>2 DEF EvalSideInv, EvalSideOK
<1>4. Redacted(ReportContent(evalRun[s].cases)) = Redacted(c)
  <2>1. reportFile[s][1].sealed = Redacted(ReportContent(evalRun[s].cases)) /\ reportFile[s][1].content = c
      BY <1>3
  <2> QED BY <2>1 DEF Accepted
<1>5. c = ReportContent(evalRun[s].cases)
    BY <1>3, <1>4, ReportContentShape, RedactedIsOneToOne
<1> QED BY <1>2, <1>3, <1>5

LEMMA RunGateInv == ASSUME EvalInv, RunGate PROVE EvalInv'
<1>1. UNCHANGED <<leaked, reportFile, evalRun, edits>>
    BY DEF RunGate
<1>2. EvalShape'
    BY <1>1 DEF EvalInv, EvalShape
<1>3. \A s \in Side : EvalSideInv(s)'
    BY <1>1 DEF EvalInv, EvalSideInv
<1>4. CASE \E s \in Side : ~Accepted(s)
  <2>1. evalVerdict' = "refused"
      BY <1>4 DEF RunGate
  <2> QED BY <1>1, <1>2, <1>3, <2>1 DEF EvalInv, EvalVerdictInv, JudgesWhatWasRun
<1>5. CASE \A s \in Side : Accepted(s)
  <2>1. \A s \in Side : evalRun[s].stage = "written" /\ reportFile[s][1].content = ReportContent(Ran(s))
      BY <1>5, AcceptedIsRun DEF Ran
  <2>2. evalVerdict' = IF Regressed(ReportContent(Ran("baseline")), ReportContent(Ran("candidate")))
                       THEN "fail" ELSE "pass"
      BY <1>5, <2>1 DEF RunGate, Side
  <2>3. \A s \in Side : Ran(s)' = Ran(s)
      BY <1>1 DEF Ran
  <2>4. JudgesWhatWasRun'
      BY <1>1, <2>1 DEF JudgesWhatWasRun, Ran
  <2>5. evalVerdict' = "pass" =>
            ~Regressed(ReportContent(Ran("baseline")), ReportContent(Ran("candidate")))'
      BY <1>1, <2>2 DEF Ran
  <2>6. evalVerdict' \in {"fail", "pass"}
      BY <2>2
  <2>7. EvalVerdictInv'
      BY <1>1, <2>1, <2>4, <2>5, <2>6 DEF EvalInv, EvalVerdictInv
  <2> QED BY <1>2, <1>3, <2>7 DEF EvalInv
<1> QED BY <1>4, <1>5

LEMMA EvalNextInv == EvalInv /\ [EvalNext]_evalVars => EvalInv'
<1> SUFFICES ASSUME EvalInv, [EvalNext]_evalVars PROVE EvalInv'
    OBVIOUS
<1>1. ASSUME NEW s \in Side, BeginSuite(s) PROVE EvalInv'
    BY <1>1, BeginSuiteInv
<1>2. ASSUME NEW s \in Side, NEW k \in EvalCase, CaseAnswered(s, k) \/ CaseUnanswered(s, k)
      PROVE  EvalInv'
    BY <1>2, CaseAnsweredInv, CaseUnansweredInv
<1>3. ASSUME NEW s \in Side, WriteReport(s) PROVE EvalInv'
    BY <1>3, WriteReportInv
<1>4. ASSUME NEW s \in Side, evalVerdict = "none", EditReport(s) PROVE EvalInv'
    BY <1>4, EditReportInv
<1>5. CASE RunGate
    BY <1>5, RunGateInv
<1>6. CASE UNCHANGED evalVars
  <2>1. UNCHANGED <<evalRun, leaked, reportFile, evalVerdict, edits>>
      BY <1>6 DEF evalVars
  <2>2. EvalShape' /\ \A s \in Side : EvalSideInv(s)'
      BY <2>1 DEF EvalInv, EvalShape, EvalSideInv
  <2>3. EvalVerdictInv'
      BY <2>1 DEF EvalInv, EvalVerdictInv, JudgesWhatWasRun, Ran
  <2> QED BY <2>2, <2>3 DEF EvalInv
<1> QED BY <1>1, <1>2, <1>3, <1>4, <1>5, <1>6 DEF EvalNext

\* Whatever the suites hold, whatever an agent answers and however the two reports
\* are edited: a candidate that passes won every case the baseline won, has no
\* leaking false success, and still grades what the baseline held.
THEOREM EvalHolds == EvalSpec => [](EvalTypeOK /\ PassIsEarned)
<1> QED BY EvalPassFacts, EvalTypeFacts, EvalInitInv, EvalNextInv, PTL DEF EvalSpec

-----------------------------------------------------------------------------
(* The exporter of spans. OneExport places every span that ended while no  *)
(* two exports overlap; BufferHasRoom counts what is in the buffer with    *)
(* what the exporting threads may still put back.                          *)

Sending == {x \in ObsThread : exporting[x].stage = "sent"}

\* The thread that exports, when there is one at a time.
ExportShape(e, buffer) ==
    /\ e.stage = "copied" => ToSet(buffer) \subseteq ToSet(e.pending)
    /\ e.stage = "sent" => buffer = << >>

OneExport ==
    ~exportsOverlap =>
        /\ \A x, y \in ObsThread : exporting[x] # Resting /\ exporting[y] # Resting => x = y
        /\ \A x \in ObsThread : ExportShape(exporting[x], spanBuffer)
        /\ (\A x \in ObsThread : exporting[x] = Resting) => health.buffered = Len(spanBuffer)
        /\ ended \subseteq collected \cup ToSet(spanBuffer) \cup InHand \cup shed

ObsTypes ==
    /\ ended \subseteq Span /\ collected \subseteq ended /\ shed \subseteq ended
    /\ spanBuffer \in Seq(Span) /\ ToSet(spanBuffer) \subseteq ended
    /\ exporting \in [ObsThread -> [stage : {"resting", "copied", "sent"}, pending : Seq(Span)]]
    /\ \A x \in ObsThread : ToSet(exporting[x].pending) \subseteq ended
    /\ \A x \in ObsThread : exporting[x].stage = "resting" => exporting[x] = Resting
    /\ health \in [failures : 0..obsFaults, buffered : 0..(Cardinality(ObsThread) * BufferMax), dropped : Nat]
    /\ exportsOverlap \in BOOLEAN
    /\ obsFaults \in 0..MaxObsFaults

\* What is in the buffer and what the threads may still put back.
BufferHasRoom == Len(spanBuffer) + BufferMax * Cardinality(Sending) <= BufferMax * Cardinality(ObsThread)

ObsInv == ObsTypes /\ BufferHasRoom /\ OneExport /\ Cardinality(shed) <= health.dropped

-----------------------------------------------------------------------------
LEMMA JoinedSeq ==
    ASSUME NEW S, NEW s \in Seq(S), NEW t \in Seq(S)
    PROVE  /\ s \o t \in Seq(S) /\ Len(s \o t) = Len(s) + Len(t)
           /\ ToSet(s \o t) = ToSet(s) \cup ToSet(t)
<1>1. Len(s) \in Nat /\ DOMAIN s = 1..Len(s) /\ Len(t) \in Nat /\ DOMAIN t = 1..Len(t)
    OBVIOUS
<1>2. /\ s \o t \in Seq(S) /\ Len(s \o t) = Len(s) + Len(t) /\ DOMAIN (s \o t) = 1..(Len(s) + Len(t))
      /\ \A i \in 1..Len(s) : (s \o t)[i] = s[i]
      /\ \A i \in 1..Len(t) : (s \o t)[Len(s) + i] = t[i]
    BY <1>1
<1>3. ToSet(s) \cup ToSet(t) \subseteq ToSet(s \o t)
  <2>1. \A i \in 1..Len(s) : i \in 1..(Len(s) + Len(t))
      BY <1>1
  <2>2. \A i \in 1..Len(t) : Len(s) + i \in 1..(Len(s) + Len(t))
      BY <1>1
  <2> QED BY <1>1, <1>2, <2>1, <2>2 DEF ToSet
<1>4. ToSet(s \o t) \subseteq ToSet(s) \cup ToSet(t)
  <2> SUFFICES ASSUME NEW i \in 1..(Len(s) + Len(t)) PROVE (s \o t)[i] \in ToSet(s) \cup ToSet(t)
      BY <1>2 DEF ToSet
  <2>1. CASE i \in 1..Len(s)
      BY <1>1, <1>2, <2>1 DEF ToSet
  <2>2. CASE i \notin 1..Len(s)
    <3>1. i - Len(s) \in 1..Len(t) /\ i = Len(s) + (i - Len(s))
        BY <1>1, <2>2
    <3> QED BY <1>1, <1>2, <3>1 DEF ToSet
  <2> QED BY <2>1, <2>2
<1> QED BY <1>2, <1>3, <1>4

\* A sequence cut in two, and one element more.
LEMMA PartsOfSeq ==
    ASSUME NEW S, NEW s \in Seq(S)
    PROVE  /\ ToSet(s) \subseteq S
           /\ \A e \in S : Append(s, e) \in Seq(S) /\ ToSet(Append(s, e)) = ToSet(s) \cup {e}
           /\ \A k \in 0..Len(s) : /\ SubSeq(s, 1, k) \in Seq(S) /\ SubSeq(s, k + 1, Len(s)) \in Seq(S)
                                   /\ Len(SubSeq(s, 1, k)) = k /\ Len(SubSeq(s, k + 1, Len(s))) = Len(s) - k
                                   /\ ToSet(SubSeq(s, 1, k)) \cup ToSet(SubSeq(s, k + 1, Len(s))) = ToSet(s)
<1>1. Len(s) \in Nat /\ DOMAIN s = 1..Len(s) /\ \A i \in 1..Len(s) : s[i] \in S
    OBVIOUS
<1>2. ToSet(s) \subseteq S
    BY <1>1 DEF ToSet
<1>3. ASSUME NEW e \in S PROVE Append(s, e) \in Seq(S) /\ ToSet(Append(s, e)) = ToSet(s) \cup {e}
  <2>1. /\ Append(s, e) \in Seq(S) /\ DOMAIN Append(s, e) = 1..(Len(s) + 1)
        /\ \A i \in 1..Len(s) : Append(s, e)[i] = s[i]
        /\ Append(s, e)[Len(s) + 1] = e
      BY <1>1
  <2>2. \A i : i \in 1..(Len(s) + 1) <=> i \in 1..Len(s) \/ i = Len(s) + 1
      BY <1>1
  <2> QED BY <1>1, <2>1, <2>2 DEF ToSet
<1>4. ASSUME NEW k \in 0..Len(s)
      PROVE  /\ SubSeq(s, 1, k) \in Seq(S) /\ SubSeq(s, k + 1, Len(s)) \in Seq(S)
             /\ Len(SubSeq(s, 1, k)) = k /\ Len(SubSeq(s, k + 1, Len(s))) = Len(s) - k
             /\ ToSet(SubSeq(s, 1, k)) \cup ToSet(SubSeq(s, k + 1, Len(s))) = ToSet(s)
  <2>1. k \in Int /\ k \in Nat /\ k <= Len(s) /\ 1 \in Int /\ Len(s) \in Int /\ k + 1 \in Int
      BY <1>1
  <2>2. \A i \in 1..k : s[i] \in S
      BY <1>1, <2>1
  <2>3. \A i \in (k + 1)..Len(s) : s[i] \in S
      BY <1>1, <2>1
  <2>4. SubSeq(s, 1, k) \in Seq(S) /\ Len(SubSeq(s, 1, k)) = IF 1 <= k THEN k - 1 + 1 ELSE 0
      BY <2>1, <2>2, SubSeqProperties
  <2>5. /\ SubSeq(s, k + 1, Len(s)) \in Seq(S)
        /\ Len(SubSeq(s, k + 1, Len(s))) = IF k + 1 <= Len(s) THEN Len(s) - (k + 1) + 1 ELSE 0
      BY <2>1, <2>3, SubSeqProperties
  <2>6. SubSeq(s, 1, k) \o SubSeq(s, k + 1, Len(s)) = s
    <3>1. PICK m : m = 1
        OBVIOUS
    <3>2. m \in 1..(Len(s) + 1) /\ k \in (m - 1)..Len(s) /\ Len(s) \in k..Len(s)
        BY <1>1, <2>1, <3>1
    <3>3. SubSeq(s, m, k) \o SubSeq(s, k + 1, Len(s)) = SubSeq(s, m, Len(s))
        BY <3>2, ConcatAdjacentSubSeq
    <3> QED BY <3>1, <3>3, SubSeqFull
  <2>7. Len(SubSeq(s, 1, k)) = k /\ Len(SubSeq(s, k + 1, Len(s))) = Len(s) - k
    <3>1. PICK a, b, n : a = Len(SubSeq(s, 1, k)) /\ b = Len(SubSeq(s, k + 1, Len(s))) /\ n = Len(s)
        OBVIOUS
    <3>2. n \in Nat /\ k \in Nat /\ k <= n
        BY <1>1, <2>1, <3>1
    <3>3. a = IF 1 <= k THEN k - 1 + 1 ELSE 0
        BY <2>4, <3>1
    <3>4. b = IF k + 1 <= n THEN n - (k + 1) + 1 ELSE 0
        BY <2>5, <3>1
    <3>5. a = k
        BY <3>2, <3>3
    <3>6. b = n - k
        BY <3>2, <3>4
    <3> QED BY <3>1, <3>5, <3>6
  <2>8. ToSet(SubSeq(s, 1, k)) \cup ToSet(SubSeq(s, k + 1, Len(s))) = ToSet(s)
      BY <2>4, <2>5, <2>6, JoinedSeq
  <2> QED BY <2>4, <2>5, <2>7, <2>8
<1> QED BY <1>2, <1>3, <1>4

\* A sequence has at most as many elements as places.
LEMMA ElementsOfSeq ==
    ASSUME NEW S, NEW s \in Seq(S)
    PROVE  IsFiniteSet(ToSet(s)) /\ Cardinality(ToSet(s)) <= Len(s) /\ Cardinality(ToSet(s)) \in Nat
<1>1. Len(s) \in Nat /\ DOMAIN s = 1..Len(s)
    OBVIOUS
<1>2. IsFiniteSet(1..Len(s)) /\ Cardinality(1..Len(s)) = Len(s)
    BY <1>1, FS_Interval
<1>3. s \in Surjection(1..Len(s), ToSet(s))
  <2>1. s \in [1..Len(s) -> ToSet(s)]
      BY <1>1 DEF ToSet
  <2> QED BY <1>1, <2>1 DEF Surjection, ToSet
<1>4. IsFiniteSet(ToSet(s)) /\ Cardinality(ToSet(s)) <= Cardinality(1..Len(s))
    BY <1>2, <1>3, FS_Surjection
<1> QED BY <1>2, <1>4, FS_CardinalityType

LEMMA Products ==
    ASSUME NEW a \in Nat, NEW s \in Nat
    PROVE  /\ a * s \in Nat /\ a * (s + 1) = a * s + a
           /\ \A t \in Nat : s <= t => a * s <= a * t
<1>1. a * s \in Nat /\ a * (s + 1) = a * s + a
    OBVIOUS
<1>2. ASSUME NEW t \in Nat, s <= t PROVE a * s <= a * t
  <2>1. PICK d \in Nat : t = s + d
    <3>1. t - s \in Nat /\ t = s + (t - s)
        BY <1>2
    <3> QED BY <3>1
  <2>2. a * t = a * s + a * d
      BY <2>1
  <2>3. a * d \in Nat
      OBVIOUS
  <2> QED BY <1>1, <2>2, <2>3
<1> QED BY <1>1, <1>2

-----------------------------------------------------------------------------
LEMMA ThreadsAreCounted ==
    /\ IsFiniteSet(Sending) /\ Cardinality(Sending) \in Nat /\ Cardinality(ObsThread) \in Nat
    /\ Cardinality(Sending) <= Cardinality(ObsThread) /\ Sending \subseteq ObsThread
<1>1. Sending \subseteq ObsThread
    BY DEF Sending
<1> QED BY <1>1, ObsAssumption, FS_Subset, FS_CardinalityType

LEMMA ObsFacts == ObsInv => ObsTypeOK /\ SpansAreAccountedFor
<1> SUFFICES ASSUME ObsInv PROVE ObsTypeOK /\ SpansAreAccountedFor
    OBVIOUS
<1> USE ObsAssumption
<1>1. ObsTypes /\ BufferHasRoom /\ OneExport /\ Cardinality(shed) <= health.dropped
    BY DEF ObsInv
<1>2. ObsTypeOK
    BY <1>1 DEF ObsTypes, ObsTypeOK
<1>3. NothingIsDroppedQuietly
    BY <1>1 DEF NothingIsDroppedQuietly, OneExport
<1>4. HealthyOwesNothing
  <2> SUFFICES ASSUME ~exportsOverlap, Healthy, \A x \in ObsThread : exporting[x] = Resting
               PROVE  ended \subseteq collected
      BY DEF HealthyOwesNothing
  <2>1. InHand = {}
    <3>1. ToSet(<< >>) = {}
        BY DEF ToSet
    <3> QED BY <3>1 DEF InHand, Resting
  <2>2. spanBuffer = << >>
    <3>1. Len(spanBuffer) = 0
        BY <1>1 DEF OneExport, Healthy
    <3> QED BY <1>1, <3>1 DEF ObsTypes
  <2>3. shed = {}
    <3>1. IsFiniteSet(shed) /\ Cardinality(shed) \in Nat
        BY <1>1, FS_Subset, FS_CardinalityType DEF ObsTypes
    <3>2. Cardinality(shed) = 0
        BY <1>1, <3>1 DEF Healthy
    <3> QED BY <3>1, <3>2, FS_EmptySet
  <2>4. ToSet(spanBuffer) = {}
      BY <2>2 DEF ToSet
  <2> QED BY <1>1, <2>1, <2>3, <2>4 DEF OneExport
<1>5. BufferStaysBounded
  <2>1. BufferMax * Cardinality(Sending) \in Nat /\ Len(spanBuffer) \in Nat
        /\ BufferMax * Cardinality(ObsThread) \in Nat
      BY <1>1, ThreadsAreCounted, Products DEF ObsTypes
  <2>2. Len(spanBuffer) <= BufferMax * Cardinality(ObsThread)
      BY <1>1, <2>1 DEF BufferHasRoom
  <2>3. BufferMax * Cardinality(ObsThread) = Cardinality(ObsThread) * BufferMax
      BY ThreadsAreCounted
  <2> QED BY <2>2, <2>3 DEF BufferStaysBounded
<1> QED BY <1>2, <1>3, <1>4, <1>5 DEF SpansAreAccountedFor

LEMMA ObsInitInv == ObsInit => ObsInv
<1> SUFFICES ASSUME ObsInit PROVE ObsInv
    OBVIOUS
<1> USE ObsAssumption
<1>1. \A x \in ObsThread : exporting[x] = Resting
    BY DEF ObsInit
<1>2. Resting \in [stage : {"resting", "copied", "sent"}, pending : Seq(Span)]
      /\ Resting.stage = "resting" /\ Resting.pending = << >> /\ ToSet(<< >>) = {}
    BY DEF Resting, ToSet
<1>3. /\ IsFiniteSet(ObsThread) /\ Cardinality(ObsThread) \in Nat /\ Cardinality({}) = 0
      /\ Cardinality(ObsThread) * BufferMax \in Nat /\ BufferMax * Cardinality(ObsThread) \in Nat
      /\ BufferMax * 0 = 0
    BY FS_CardinalityType, FS_EmptySet
<1>4. ObsTypes
  <2>1. exporting \in [ObsThread -> [stage : {"resting", "copied", "sent"}, pending : Seq(Span)]]
      BY <1>2 DEF ObsInit
  <2>2. health \in [failures : 0..obsFaults, buffered : 0..(Cardinality(ObsThread) * BufferMax), dropped : Nat]
      BY <1>3 DEF ObsInit
  <2>3. spanBuffer \in Seq(Span) /\ ToSet(spanBuffer) \subseteq ended
      BY <1>2 DEF ObsInit
  <2>4. obsFaults \in 0..MaxObsFaults
      BY DEF ObsInit
  <2>6. exportsOverlap \in BOOLEAN
      BY DEF ObsInit
  <2>5. ended \subseteq Span /\ collected \subseteq ended /\ shed \subseteq ended
      BY DEF ObsInit
  <2> QED BY <1>1, <1>2, <2>1, <2>2, <2>3, <2>4, <2>5, <2>6 DEF ObsTypes
<1>5. Sending = {}
    BY <1>1, <1>2 DEF Sending
<1>6. BufferHasRoom
    BY <1>3, <1>5 DEF BufferHasRoom, ObsInit
<1>7. OneExport
    BY <1>1, <1>2 DEF OneExport, ExportShape, ObsInit
<1> QED BY <1>3, <1>4, <1>6, <1>7 DEF ObsInv, ObsInit

-----------------------------------------------------------------------------
\* A thread begins an export: of the buffer, with the span that ended or without.
LEMMA ExportsInv ==
    ASSUME ObsInv, NEW x \in ObsThread, exporting[x] = Resting, NEW pending \in Seq(Span),
           Exports(x, pending), ended' \subseteq Span, ended \subseteq ended',
           ToSet(spanBuffer) \subseteq ToSet(pending), ToSet(pending) \subseteq ended',
           ended' \subseteq ended \cup ToSet(pending),
           UNCHANGED <<spanBuffer, collected, health, shed, obsFaults>>
    PROVE  ObsInv'
<1> DEFINE e == [stage |-> "copied", pending |-> pending]
<1>1. /\ exporting' = [exporting EXCEPT ![x] = e]
      /\ exportsOverlap' = (exportsOverlap \/ \E y \in ObsThread \ {x} : exporting[y] # Resting)
    BY DEF Exports
<1>2. e \in [stage : {"resting", "copied", "sent"}, pending : Seq(Span)]
      /\ e.stage = "copied" /\ e.pending = pending
    OBVIOUS
<1> HIDE DEF e
<1>3. /\ ObsTypes /\ BufferHasRoom /\ OneExport /\ Cardinality(shed) <= health.dropped
      /\ exporting \in [ObsThread -> [stage : {"resting", "copied", "sent"}, pending : Seq(Span)]]
    BY DEF ObsInv, ObsTypes
<1>4. exporting'[x] = e /\ \A y \in ObsThread : y # x => exporting'[y] = exporting[y]
    BY <1>1, <1>3
<1>5. exportsOverlap' \in BOOLEAN
    BY <1>1, <1>3 DEF ObsTypes
<1>6. ObsTypes'
  <2>1. exporting' \in [ObsThread -> [stage : {"resting", "copied", "sent"}, pending : Seq(Span)]]
      BY <1>1, <1>2, <1>3
  <2>2. \A y \in ObsThread : ToSet(exporting'[y].pending) \subseteq ended'
      BY <1>2, <1>3, <1>4 DEF ObsTypes
  <2>3. \A y \in ObsThread : exporting'[y].stage = "resting" => exporting'[y] = Resting
      BY <1>2, <1>3, <1>4 DEF ObsTypes
  <2> QED BY <1>3, <1>5, <2>1, <2>2, <2>3 DEF ObsTypes
<1>7. Sending' = Sending
    BY <1>2, <1>4 DEF Sending, Resting
<1>8. BufferHasRoom'
    BY <1>3, <1>7 DEF BufferHasRoom
<1>9. OneExport'
  <2> SUFFICES ASSUME ~exportsOverlap'
               PROVE  /\ \A y, z \in ObsThread : (exporting'[y] # Resting /\ exporting'[z] # Resting) => y = z
                      /\ \A y \in ObsThread : ExportShape(exporting'[y], spanBuffer')
                      /\ (\A y \in ObsThread : exporting'[y] = Resting) => health'.buffered = Len(spanBuffer')
                      /\ ended' \subseteq collected' \cup ToSet(spanBuffer') \cup InHand' \cup shed'
      BY DEF OneExport
  <2>1. ~exportsOverlap /\ \A y \in ObsThread : y # x => exporting[y] = Resting
      BY <1>1, <1>3 DEF ObsTypes
  <2>2. \A y \in ObsThread : y # x => exporting'[y] = Resting
      BY <1>4, <2>1
  <2>3. e # Resting /\ ExportShape(e, spanBuffer) /\ ExportShape(Resting, spanBuffer)
      BY <1>2 DEF Resting, ExportShape
  <2>4. \A y \in ObsThread : ExportShape(exporting'[y], spanBuffer')
      BY <1>4, <2>2, <2>3
  <2>5. ToSet(pending) \subseteq InHand'
      BY <1>2, <1>4 DEF InHand
  <2>6. InHand \subseteq InHand'
    <3>1. \A y \in ObsThread : ToSet(exporting[y].pending) = {}
        BY <2>1 DEF Resting, ToSet
    <3> QED BY <3>1 DEF InHand
  <2>7. ended' \subseteq collected' \cup ToSet(spanBuffer') \cup InHand' \cup shed'
      BY <1>3, <2>1, <2>5, <2>6 DEF OneExport
  <2> QED BY <1>4, <2>2, <2>3, <2>4, <2>7
<1> QED BY <1>3, <1>6, <1>8, <1>9 DEF ObsInv

LEMMA EndSpanInv == ASSUME ObsInv, NEW x \in ObsThread, NEW p \in Span, EndSpan(x, p) PROVE ObsInv'
<1>1. ObsTypes /\ spanBuffer \in Seq(Span)
    BY DEF ObsInv, ObsTypes
<1>2. PICK pending : pending = Append(spanBuffer, p)
    OBVIOUS
<1>3. pending \in Seq(Span) /\ ToSet(pending) = ToSet(spanBuffer) \cup {p}
    BY <1>1, <1>2, PartsOfSeq
<1>4. /\ exporting[x] = Resting /\ ended' = ended \cup {p} /\ Exports(x, pending)
      /\ UNCHANGED <<spanBuffer, collected, health, shed, obsFaults>>
    BY <1>2 DEF EndSpan
<1> QED BY <1>1, <1>3, <1>4, ExportsInv DEF ObsTypes

LEMMA FlushBufferedInv == ASSUME ObsInv, NEW x \in ObsThread, FlushBuffered(x) PROVE ObsInv'
<1>1. ObsTypes /\ spanBuffer \in Seq(Span)
    BY DEF ObsInv, ObsTypes
<1>2. /\ exporting[x] = Resting /\ Exports(x, spanBuffer)
      /\ UNCHANGED <<ended, spanBuffer, collected, health, shed, obsFaults>>
    BY DEF FlushBuffered
<1> QED BY <1>1, <1>2, ExportsInv DEF ObsTypes

LEMMA ClearBufferInv == ASSUME ObsInv, NEW x \in ObsThread, ClearBuffer(x) PROVE ObsInv'
<1>1. PICK e : e = [exporting[x] EXCEPT !.stage = "sent"]
    OBVIOUS
<1>2. /\ exporting[x].stage = "copied" /\ spanBuffer' = << >> /\ exporting' = [exporting EXCEPT ![x] = e]
      /\ UNCHANGED <<ended, collected, health, shed, exportsOverlap, obsFaults>>
    BY <1>1 DEF ClearBuffer
<1>3. /\ ObsTypes /\ BufferHasRoom /\ OneExport /\ Cardinality(shed) <= health.dropped
      /\ exporting \in [ObsThread -> [stage : {"resting", "copied", "sent"}, pending : Seq(Span)]]
    BY DEF ObsInv, ObsTypes
<1>4. /\ e \in [stage : {"resting", "copied", "sent"}, pending : Seq(Span)]
      /\ e.stage = "sent" /\ e.pending = exporting[x].pending
    BY <1>1, <1>3
<1>5. exporting'[x] = e /\ \A y \in ObsThread : y # x => exporting'[y] = exporting[y]
    BY <1>2, <1>3
<1>6. ToSet(<< >>) = {} /\ Len(<< >>) = 0 /\ << >> \in Seq(Span)
    BY DEF ToSet
<1>7. ObsTypes'
  <2>1. exporting' \in [ObsThread -> [stage : {"resting", "copied", "sent"}, pending : Seq(Span)]]
      BY <1>2, <1>3, <1>4
  <2>2. \A y \in ObsThread : ToSet(exporting'[y].pending) \subseteq ended
      BY <1>3, <1>4, <1>5 DEF ObsTypes
  <2>3. \A y \in ObsThread : exporting'[y].stage = "resting" => exporting'[y] = Resting
      BY <1>3, <1>4, <1>5 DEF ObsTypes
  <2> QED BY <1>2, <1>3, <1>6, <2>1, <2>2, <2>3 DEF ObsTypes
<1>8. BufferHasRoom'
  <2>1. /\ Cardinality(Sending)' <= Cardinality(ObsThread) /\ Cardinality(Sending)' \in Nat
        /\ Cardinality(ObsThread) \in Nat /\ BufferMax \in Nat
    <3>1. Sending' \subseteq ObsThread
        BY DEF Sending
    <3> QED BY <3>1, ObsAssumption, FS_Subset, FS_CardinalityType
  <2>2. BufferMax * Cardinality(Sending)' <= BufferMax * Cardinality(ObsThread)
        /\ BufferMax * Cardinality(Sending)' \in Nat
      BY <2>1, Products
  <2> QED BY <1>2, <1>6, <2>2 DEF BufferHasRoom
<1>9. OneExport'
  <2> SUFFICES ASSUME ~exportsOverlap
               PROVE  /\ \A y, z \in ObsThread : (exporting'[y] # Resting /\ exporting'[z] # Resting) => y = z
                      /\ \A y \in ObsThread : ExportShape(exporting'[y], spanBuffer')
                      /\ (\A y \in ObsThread : exporting'[y] = Resting) => health'.buffered = Len(spanBuffer')
                      /\ ended' \subseteq collected' \cup ToSet(spanBuffer') \cup InHand' \cup shed'
      BY <1>2 DEF OneExport
  <2>1. exporting[x] # Resting /\ e # Resting
      BY <1>2, <1>4 DEF Resting
  <2>2. \A y \in ObsThread : y # x => exporting[y] = Resting /\ exporting'[y] = Resting
      BY <1>3, <1>5, <2>1 DEF OneExport
  <2>3. ExportShape(e, << >>) /\ ExportShape(Resting, << >>)
      BY <1>4 DEF ExportShape, Resting
  <2>4. ToSet(spanBuffer) \subseteq ToSet(e.pending)
      BY <1>2, <1>3, <1>4 DEF OneExport, ExportShape
  <2>5. ToSet(e.pending) \subseteq InHand'
      BY <1>5 DEF InHand
  <2>6. InHand \subseteq InHand'
      BY <1>4, <1>5 DEF InHand
  <2>7. ended' \subseteq collected' \cup ToSet(spanBuffer') \cup InHand' \cup shed'
      BY <1>2, <1>3, <2>4, <2>5, <2>6 DEF OneExport
  <2>8. \A y \in ObsThread : ExportShape(exporting'[y], spanBuffer')
      BY <1>2, <1>5, <2>2, <2>3
  <2> QED BY <1>5, <2>1, <2>2, <2>7, <2>8
<1> QED BY <1>2, <1>3, <1>7, <1>8, <1>9 DEF ObsInv

\* An export ends, delivered or not: what was in hand is with the collector, or
\* back in the buffer, or counted as dropped.
LEMMA ExportEndsInv ==
    ASSUME ObsInv, NEW x \in ObsThread, exporting[x].stage = "sent",
           exporting' = [exporting EXCEPT ![x] = Resting],
           NEW put \in Seq(Span), Len(put) <= BufferMax, ToSet(put) \subseteq ToSet(exporting[x].pending),
           spanBuffer' = spanBuffer \o put,
           collected \subseteq collected', collected' \subseteq collected \cup ToSet(exporting[x].pending),
           shed \subseteq shed', shed' \subseteq shed \cup ToSet(exporting[x].pending),
           ToSet(exporting[x].pending) \subseteq collected' \cup ToSet(put) \cup shed',
           ~exportsOverlap => health'.buffered = Len(spanBuffer'),
           health'.buffered = 0 \/ health'.buffered = Len(spanBuffer'),
           health' \in [failures : 0..obsFaults', buffered : Nat, dropped : Nat],
           Cardinality(shed') <= health'.dropped, obsFaults' \in 0..MaxObsFaults,
           UNCHANGED <<ended, exportsOverlap>>
    PROVE  ObsInv'
<1>1. /\ ObsTypes /\ BufferHasRoom /\ OneExport
      /\ exporting \in [ObsThread -> [stage : {"resting", "copied", "sent"}, pending : Seq(Span)]]
      /\ spanBuffer \in Seq(Span) /\ ToSet(exporting[x].pending) \subseteq ended
    BY DEF ObsInv, ObsTypes
<1>2. exporting'[x] = Resting /\ \A y \in ObsThread : y # x => exporting'[y] = exporting[y]
    BY <1>1
<1>3. /\ spanBuffer' \in Seq(Span) /\ Len(spanBuffer') = Len(spanBuffer) + Len(put)
      /\ ToSet(spanBuffer') = ToSet(spanBuffer) \cup ToSet(put)
    BY <1>1, JoinedSeq
<1>4. Resting \in [stage : {"resting", "copied", "sent"}, pending : Seq(Span)] /\ Resting.stage = "resting"
      /\ Resting.pending = << >> /\ ToSet(<< >>) = {}
    BY DEF Resting, ToSet
<1>5. BufferHasRoom'
  <2>1. Sending' = Sending \ {x} /\ x \in Sending
      BY <1>2, <1>4 DEF Sending
  <2>2. /\ Cardinality(Sending') = Cardinality(Sending) - 1 /\ Cardinality(Sending') \in Nat
        /\ Cardinality(Sending) \in Nat
      BY <2>1, ThreadsAreCounted, FS_RemoveElement, FS_CardinalityType
  <2>3. BufferMax * Cardinality(Sending) = BufferMax * Cardinality(Sending') + BufferMax
        /\ BufferMax * Cardinality(Sending') \in Nat
    <3>1. Cardinality(Sending) = Cardinality(Sending') + 1
        BY <2>2
    <3> QED BY <2>2, <3>1, ObsAssumption, Products
  <2>4. BufferMax * Cardinality(ObsThread) \in Nat /\ Len(spanBuffer) \in Nat /\ Len(put) \in Nat /\ BufferMax \in Nat
      BY <1>1, ThreadsAreCounted, ObsAssumption, Products
  <2>5. Len(spanBuffer) + BufferMax * Cardinality(Sending) <= BufferMax * Cardinality(ObsThread)
      BY <1>1 DEF BufferHasRoom
  <2>6. Len(spanBuffer') + BufferMax * Cardinality(Sending') <= BufferMax * Cardinality(ObsThread)
      BY <1>3, <2>3, <2>4, <2>5
  <2> QED BY <2>6 DEF BufferHasRoom
<1>6. ObsTypes'
  <2>1. exporting' \in [ObsThread -> [stage : {"resting", "copied", "sent"}, pending : Seq(Span)]]
      BY <1>1, <1>4
  <2>2. \A y \in ObsThread : ToSet(exporting'[y].pending) \subseteq ended
      BY <1>1, <1>2, <1>4 DEF ObsTypes
  <2>3. \A y \in ObsThread : exporting'[y].stage = "resting" => exporting'[y] = Resting
      BY <1>1, <1>2 DEF ObsTypes
  <2>4. health'.buffered \in 0..(Cardinality(ObsThread) * BufferMax)
    <3>1. /\ Cardinality(Sending') \in Nat /\ BufferMax * Cardinality(Sending') \in Nat
          /\ BufferMax * Cardinality(ObsThread) \in Nat
          /\ Cardinality(ObsThread) * BufferMax = BufferMax * Cardinality(ObsThread)
      <4>1. Sending' \subseteq ObsThread
          BY DEF Sending
      <4>2. Cardinality(Sending') \in Nat
          BY <4>1, ObsAssumption, FS_Subset, FS_CardinalityType
      <4> QED BY <4>2, ThreadsAreCounted, ObsAssumption, Products
    <3>2. Len(spanBuffer') <= BufferMax * Cardinality(ObsThread) /\ Len(spanBuffer') \in Nat
        BY <1>3, <1>5, <3>1 DEF BufferHasRoom
    <3> QED BY <3>1, <3>2
  <2>5. health' \in [failures : 0..obsFaults', buffered : 0..(Cardinality(ObsThread) * BufferMax), dropped : Nat]
      BY <2>4
  <2>6. collected' \subseteq ended /\ shed' \subseteq ended /\ ToSet(spanBuffer') \subseteq ended
      BY <1>1, <1>3 DEF ObsTypes
  <2> QED BY <1>1, <1>3, <2>1, <2>2, <2>3, <2>5, <2>6 DEF ObsTypes
<1>7. OneExport'
  <2> SUFFICES ASSUME ~exportsOverlap
               PROVE  /\ \A y, z \in ObsThread : (exporting'[y] # Resting /\ exporting'[z] # Resting) => y = z
                      /\ \A y \in ObsThread : ExportShape(exporting'[y], spanBuffer')
                      /\ (\A y \in ObsThread : exporting'[y] = Resting) => health'.buffered = Len(spanBuffer')
                      /\ ended' \subseteq collected' \cup ToSet(spanBuffer') \cup InHand' \cup shed'
      BY DEF OneExport
  <2>1. exporting[x] # Resting
      BY <1>4
  <2>2. \A y \in ObsThread : exporting'[y] = Resting
      BY <1>1, <1>2, <2>1 DEF OneExport
  <2>3. \A y \in ObsThread : y # x => exporting[y] = Resting
      BY <1>1, <2>1 DEF OneExport
  <2>4. InHand \subseteq ToSet(exporting[x].pending)
    <3>1. \A y \in ObsThread : y # x => ToSet(exporting[y].pending) = {}
        BY <1>4, <2>3
    <3> QED BY <3>1 DEF InHand
  <2>5. ended \subseteq collected \cup ToSet(spanBuffer) \cup InHand \cup shed
      BY <1>1 DEF OneExport
  <2>6. ended' \subseteq collected' \cup ToSet(spanBuffer') \cup InHand' \cup shed'
      BY <1>3, <2>4, <2>5
  <2>7. ExportShape(Resting, spanBuffer')
      BY <1>4 DEF ExportShape
  <2> QED BY <2>2, <2>6, <2>7
<1> QED BY <1>5, <1>6, <1>7 DEF ObsInv

LEMMA ExportedInv == ASSUME ObsInv, NEW x \in ObsThread, Exported(x) PROVE ObsInv'
<1>1. /\ exporting[x].stage = "sent" /\ collected' = collected \cup ToSet(exporting[x].pending)
      /\ health' = [health EXCEPT !.buffered = 0] /\ exporting' = [exporting EXCEPT ![x] = Resting]
      /\ UNCHANGED <<ended, spanBuffer, shed, exportsOverlap, obsFaults>>
    BY DEF Exported
<1>2. /\ ObsTypes /\ OneExport /\ spanBuffer \in Seq(Span) /\ obsFaults \in 0..MaxObsFaults
      /\ health \in [failures : 0..obsFaults, buffered : 0..(Cardinality(ObsThread) * BufferMax), dropped : Nat]
      /\ Cardinality(shed) <= health.dropped
    BY DEF ObsInv, ObsTypes
<1>7. << >> \in Seq(Span)
    OBVIOUS
<1>3. PICK put \in Seq(Span) : put = << >>
    BY <1>7
<1>4. Len(put) <= BufferMax /\ ToSet(put) = {} /\ spanBuffer' = spanBuffer \o put
    BY <1>1, <1>2, <1>3, ObsAssumption DEF ToSet
<1>5. /\ health' \in [failures : 0..obsFaults', buffered : Nat, dropped : Nat]
      /\ health'.buffered = 0 /\ health'.dropped = health.dropped
  <2>1. health.failures \in 0..obsFaults /\ health.dropped \in Nat
      BY <1>2
  <2> QED BY <1>1, <1>2, <2>1
<1>6. ~exportsOverlap => health'.buffered = Len(spanBuffer')
    BY <1>1, <1>2, <1>5 DEF OneExport, ExportShape
<1> QED BY <1>1, <1>2, <1>4, <1>5, <1>6, ExportEndsInv

LEMMA OverflowFits ==
    ASSUME NEW pending \in Seq(Span)
    PROVE  /\ Overflow(pending) \in 0..Len(pending) /\ Len(pending) - Overflow(pending) <= BufferMax
           /\ Overflow(pending) \in Nat
<1>1. Len(pending) \in Nat /\ BufferMax \in Nat
    BY ObsAssumption
<1>2. CASE Len(pending) > BufferMax
    BY <1>1, <1>2 DEF Overflow
<1>3. CASE ~(Len(pending) > BufferMax)
    BY <1>1, <1>3 DEF Overflow
<1> QED BY <1>2, <1>3

LEMMA ExportFailsInv == ASSUME ObsInv, NEW x \in ObsThread, ExportFails(x) PROVE ObsInv'
<1>1. PICK pending : pending = exporting[x].pending
    OBVIOUS
<1>2. PICK overflow : overflow = Overflow(pending)
    OBVIOUS
<1>3. PICK put, given : put = SubSeq(pending, overflow + 1, Len(pending)) /\ given = SubSeq(pending, 1, overflow)
    OBVIOUS
<1>4. PICK kept : kept = spanBuffer \o put
    OBVIOUS
<1>5. /\ exporting[x].stage = "sent" /\ obsFaults < MaxObsFaults /\ obsFaults' = obsFaults + 1
      /\ spanBuffer' = kept /\ shed' = shed \cup ToSet(given) /\ health' = Alert(overflow, kept)
      /\ collected' \in {collected, collected \cup ToSet(pending)}
      /\ exporting' = [exporting EXCEPT ![x] = Resting] /\ UNCHANGED <<ended, exportsOverlap>>
    BY <1>1, <1>2, <1>3, <1>4 DEF ExportFails
<1>6. /\ ObsTypes /\ spanBuffer \in Seq(Span) /\ obsFaults \in 0..MaxObsFaults /\ obsFaults \in Nat
      /\ health \in [failures : 0..obsFaults, buffered : 0..(Cardinality(ObsThread) * BufferMax), dropped : Nat]
      /\ Cardinality(shed) <= health.dropped /\ pending \in Seq(Span) /\ shed \subseteq Span
    BY <1>1, ObsAssumption DEF ObsInv, ObsTypes
<1>7. overflow \in 0..Len(pending) /\ Len(pending) - overflow <= BufferMax /\ overflow \in Nat
    BY <1>2, <1>6, OverflowFits
<1>8. /\ put \in Seq(Span) /\ given \in Seq(Span) /\ Len(put) <= BufferMax /\ Len(given) = overflow
      /\ ToSet(given) \cup ToSet(put) = ToSet(pending)
  <2>1. /\ put \in Seq(Span) /\ given \in Seq(Span)
        /\ Len(given) = overflow /\ Len(put) = Len(pending) - overflow
        /\ ToSet(given) \cup ToSet(put) = ToSet(pending)
      BY <1>3, <1>6, <1>7, PartsOfSeq
  <2> QED BY <1>7, <2>1
<1>9. kept \in Seq(Span) /\ Len(kept) \in Nat
    BY <1>4, <1>6, <1>8, JoinedSeq
<1>10. PICK f, d, n : f = health.failures + 1 /\ d = health.dropped + overflow /\ n = Len(kept)
    OBVIOUS
<1>11. health' = [health EXCEPT !.failures = f, !.dropped = d, !.buffered = n]
    BY <1>5, <1>10 DEF Alert
<1>12. f \in 0..obsFaults' /\ d \in Nat /\ n \in Nat
  <2>1. health.failures \in 0..obsFaults /\ health.dropped \in Nat
      BY <1>6
  <2> QED BY <1>5, <1>6, <1>7, <1>9, <1>10, <2>1
<1>13. health'.dropped = d /\ health'.buffered = n
    BY <1>6, <1>11
<1>14. health' \in [failures : 0..obsFaults', buffered : Nat, dropped : Nat]
    BY <1>6, <1>11, <1>12
<1>15. Cardinality(shed') <= health'.dropped
  <2>1. IsFiniteSet(shed) /\ Cardinality(shed) \in Nat
      BY <1>6, ObsAssumption, FS_Subset, FS_CardinalityType
  <2>2. IsFiniteSet(ToSet(given)) /\ Cardinality(ToSet(given)) <= overflow /\ Cardinality(ToSet(given)) \in Nat
      BY <1>8, ElementsOfSeq
  <2>3. /\ Cardinality(shed \cup ToSet(given))
             = Cardinality(shed) + Cardinality(ToSet(given)) - Cardinality(shed \cap ToSet(given))
        /\ Cardinality(shed \cap ToSet(given)) \in Nat
      BY <2>1, <2>2, FS_Union, FS_Intersection, FS_CardinalityType
  <2>4. health.dropped \in Nat
      BY <1>6
  <2> QED BY SMTT(30), <1>5, <1>6, <1>7, <1>10, <1>13, <2>1, <2>2, <2>3, <2>4
<1>16. health'.buffered = Len(spanBuffer')
    BY <1>5, <1>10, <1>13
<1>17. obsFaults' \in 0..MaxObsFaults
    BY <1>5, <1>6, ObsAssumption
<1>18. /\ collected \subseteq collected' /\ collected' \subseteq collected \cup ToSet(pending)
       /\ shed \subseteq shed' /\ shed' \subseteq shed \cup ToSet(pending)
       /\ ToSet(pending) \subseteq collected' \cup ToSet(put) \cup shed' /\ ToSet(put) \subseteq ToSet(pending)
    BY <1>5, <1>8
<1> QED BY <1>1, <1>4, <1>5, <1>8, <1>14, <1>15, <1>16, <1>17, <1>18, ExportEndsInv

LEMMA ObsNextInv == ObsInv /\ [ObsNext]_obsVars => ObsInv'
<1> SUFFICES ASSUME ObsInv, [ObsNext]_obsVars PROVE ObsInv'
    OBVIOUS
<1>1. ASSUME NEW x \in ObsThread,
             \/ \E p \in Span : EndSpan(x, p)
             \/ FlushBuffered(x) \/ ClearBuffer(x) \/ Exported(x) \/ ExportFails(x)
      PROVE  ObsInv'
    BY <1>1, EndSpanInv, FlushBufferedInv, ClearBufferInv, ExportedInv, ExportFailsInv
<1>2. CASE UNCHANGED obsVars
    BY <1>2 DEF obsVars, ObsInv, ObsTypes, BufferHasRoom, OneExport, Sending, InHand
<1> QED BY <1>1, <1>2 DEF ObsNext

\* Every span is accounted for and the buffer stays bounded, for any threads, spans
\* and buffer size.
THEOREM TelemetryHolds == ObsSpec => [](ObsTypeOK /\ SpansAreAccountedFor)
<1> QED BY ObsFacts, ObsInitInv, ObsNextInv, PTL DEF ObsSpec
=============================================================================
