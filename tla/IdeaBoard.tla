----------------------------- MODULE IdeaBoard -----------------------------
(***************************************************************************)
(* From an idea on the phone to a session that works on it: the drafts of  *)
(* handlers/idea_flow.py, the GitHub issues that are the board, and the    *)
(* ticks of scripts/dispatch-agent-go.py, which start a session for the    *)
(* oldest card in To Do.                                                   *)
(*                                                                         *)
(*   draft --answer--> card(agent-go | icebox) --tick--> worktree, session *)
(*     ^                        |                             |            *)
(*     +------- activate -------+                      claim: in-progress  *)
(*                                                                         *)
(* Drafts and cards are numbered in the order they are made.  An answer is *)
(* a process of its own (read the draft, mark it used, call gh), and so is *)
(* a tick (list, add the worktree, run for five seconds, label); two of    *)
(* either may overlap.                                                     *)
(*                                                                         *)
(* X_Something is a mutant of X: X with a plausible mistake in it.         *)
(***************************************************************************)
EXTENDS Naturals, FiniteSets, Sequences

CONSTANTS
    Answer,         \* processes that run `create`
    Tick,           \* processes that run the dispatcher
    Page,           \* -L 50: how many cards one listing shows
    MaxDrafts,      \* bound: drafts in one behaviour
    MaxCards,       \* bound: cards in one behaviour
    MaxBoardFaults  \* bound: failures of gh, git or a runtime

ASSUME BoardAssumption ==
    /\ IsFiniteSet(Tick)
    /\ Page \in Nat \ {0}
    /\ MaxDrafts \in Nat /\ MaxCards \in Nat /\ MaxBoardFaults \in Nat

VARIABLES
    drafts,    \* state/idea-flow: the drafts, by nonce
    answers,   \* answers[a]: where a run of `create` is
    cards,     \* the issues, by number
    ticks,     \* ticks[k]: where a run of the dispatcher is
    sessions,  \* sessions[n]: sessions started for card n (an observation)
    lost,      \* lost[n]: claims of n that never reached the board, and picks of
               \* n while another tick had it in hand (an observation)
    boardFaults

boardVars == <<drafts, answers, cards, ticks, sessions, lost, boardFaults>>

BoardChoices == {"todo", "icebox", "drop"}
Labels  == {"agent-go", "icebox", "in-progress"}

\* used: how the draft was answered last; raced: two answers read it unused.
Draft == [used : {"no"} \cup BoardChoices, raced : BOOLEAN]

\* home: is there a checkout of the repository the card names.
Card == [draft : 1..MaxDrafts, choice : BoardChoices, labels : SUBSET Labels, open : BOOLEAN,
         home : BOOLEAN, worktree : BOOLEAN]

AnswerState == [stage : {"idle", "read", "marked"}, draft : 0..MaxDrafts, choice : BoardChoices]
NoAnswer    == [stage |-> "idle", draft |-> 0, choice |-> "drop"]

TickState == [stage : {"idle", "picked", "ready", "started"}, card : 0..MaxCards]
NoTick    == [stage |-> "idle", card |-> 0]

BoardTypeOK ==
    /\ drafts \in Seq(Draft) /\ Len(drafts) <= MaxDrafts
    /\ answers \in [Answer -> AnswerState]
    /\ cards \in Seq(Card)
    /\ ticks \in [Tick -> TickState]
    /\ sessions \in [1..MaxCards -> Nat]
    /\ lost \in [1..MaxCards -> Nat]
    /\ boardFaults \in 0..MaxBoardFaults

BoardInit ==
    /\ drafts = << >>
    /\ answers = [a \in Answer |-> NoAnswer]
    /\ cards = << >>
    /\ ticks = [k \in Tick |-> NoTick]
    /\ sessions = [n \in 1..MaxCards |-> 0]
    /\ lost = [n \in 1..MaxCards |-> 0]
    /\ boardFaults = 0

BoardFault == boardFaults < MaxBoardFaults /\ boardFaults' = boardFaults + 1

-----------------------------------------------------------------------------
(* idea_flow: draft, create, activate.                                     *)

\* draft, and activate: an icebox card becomes a draft again, the card stays.
MakeDraft ==
    /\ Len(drafts) < MaxDrafts
    /\ drafts' = Append(drafts, [used |-> "no", raced |-> FALSE])
    /\ UNCHANGED <<answers, cards, ticks, sessions, lost, boardFaults>>

Unanswered(d) == drafts[d].used = "no"

Reading(d) == {a \in Answer : answers[a].stage = "read" /\ answers[a].draft = d}

\* create reads the draft; one that was answered is refused.
ReadDraft(a, d, choice) ==
    /\ answers[a].stage = "idle"
    /\ d \in 1..Len(drafts)
    /\ Unanswered(d)
    /\ answers' = [answers EXCEPT ![a] = [stage |-> "read", draft |-> d, choice |-> choice]]
    /\ drafts' = [drafts EXCEPT ![d].raced = @ \/ Reading(d) # {}]
    /\ UNCHANGED <<cards, ticks, sessions, lost, boardFaults>>

\* It writes the whole record back, marked, before anything is on the board.
MarkUsed(a) ==
    /\ answers[a].stage = "read"
    /\ LET d == answers[a].draft  c == answers[a].choice IN
       /\ drafts' = [drafts EXCEPT ![d].used = c]
       /\ answers' = [answers EXCEPT ![a] = IF c = "drop" THEN NoAnswer
                                            ELSE [@ EXCEPT !.stage = "marked"]]
    /\ UNCHANGED <<cards, ticks, sessions, lost, boardFaults>>

LabelOf_Claimed(c) == IF c = "todo" THEN {"agent-go", "in-progress"} ELSE {"icebox"}

LabelOf(c) == IF c = "todo" THEN {"agent-go"} ELSE {"icebox"}

Opened(a, home) ==
    Append(cards, [draft |-> answers[a].draft, choice |-> answers[a].choice,
                   labels |-> LabelOf(answers[a].choice), open |-> TRUE,
                   home |-> home, worktree |-> FALSE])

Done(a) == answers' = [answers EXCEPT ![a] = NoAnswer]

\* gh opens the issue; told or not told (a timeout), create is over.
OpenCard(a, home) ==
    /\ answers[a].stage = "marked"
    /\ Len(cards) < MaxCards
    /\ cards' = Opened(a, home)
    /\ Done(a)
    /\ UNCHANGED <<drafts, ticks, sessions, lost, boardFaults>>

\* gh fails: the draft stays used and there is no card.
CardRefused(a) ==
    /\ answers[a].stage = "marked"
    /\ BoardFault
    /\ Done(a)
    /\ UNCHANGED <<drafts, cards, ticks, sessions, lost>>

-----------------------------------------------------------------------------
(* dispatch-agent-go: one tick.                                            *)

Column == {n \in 1..Len(cards) : cards[n].open /\ "agent-go" \in cards[n].labels}

\* gh issue list shows the newest, claimed cards among them.
Listed == {n \in Column : Cardinality({m \in Column : m > n}) < Page}

Ready_ClaimsToo(listed) == {n \in listed : "icebox" \notin cards[n].labels}

\* pick: not claimed and in no never column.
Ready(listed) == {n \in listed : cards[n].labels \cap {"in-progress", "icebox"} = {}}

Oldest(S) == CHOOSE n \in S : \A m \in S : n <= m

Beside(k, n) == {j \in Tick \ {k} : ticks[j].card = n}

\* The tick lists and picks, whether or not another tick has just picked the
\* same card.  No checkout of the card's repository ends it there, with nothing
\* changed: that tick is not a step.
Pick(k) ==
    /\ ticks[k].stage = "idle"
    /\ Ready(Listed) # {}
    /\ LET n == Oldest(Ready(Listed)) IN
       /\ cards[n].home
       /\ ticks' = [ticks EXCEPT ![k] = [stage |-> "picked", card |-> n]]
       /\ lost' = IF Beside(k, n) = {} THEN lost ELSE [lost EXCEPT ![n] = @ + 1]
    /\ UNCHANGED <<drafts, answers, cards, sessions, boardFaults>>

\* start: a worktree that is there is used again, else it is added.
AddWorktree(k) ==
    /\ ticks[k].stage = "picked"
    /\ cards' = [cards EXCEPT ![ticks[k].card].worktree = TRUE]
    /\ ticks' = [ticks EXCEPT ![k].stage = "ready"]
    /\ UNCHANGED <<drafts, answers, sessions, lost, boardFaults>>

\* git worktree add fails, the runtime is not on PATH, or it dies within five
\* seconds: the card is left as it is.
StartFails(k) ==
    /\ ticks[k].stage \in {"picked", "ready"}
    /\ BoardFault
    /\ ticks' = [ticks EXCEPT ![k] = NoTick]
    /\ UNCHANGED <<drafts, answers, cards, sessions, lost>>

\* The session runs, whatever has become of the card since it was listed.
StartSession(k) ==
    /\ ticks[k].stage = "ready"
    /\ sessions' = [sessions EXCEPT ![ticks[k].card] = @ + 1]
    /\ ticks' = [ticks EXCEPT ![k].stage = "started"]
    /\ UNCHANGED <<drafts, answers, cards, lost, boardFaults>>

\* gh issue edit --add-label.
Claimed(n) == cards[n].labels \cup {"in-progress"}

Claim(k) ==
    /\ ticks[k].stage = "started"
    /\ cards' = [cards EXCEPT ![ticks[k].card].labels = Claimed(ticks[k].card)]
    /\ ticks' = [ticks EXCEPT ![k] = NoTick]
    /\ UNCHANGED <<drafts, answers, sessions, lost, boardFaults>>

\* Its failure is not looked at, and neither is a tick that dies before it.
ClaimLost(k) ==
    /\ ticks[k].stage = "started"
    /\ BoardFault
    /\ lost' = [lost EXCEPT ![ticks[k].card] = @ + 1]
    /\ ticks' = [ticks EXCEPT ![k] = NoTick]
    /\ UNCHANGED <<drafts, answers, cards, sessions>>

\* The card is closed when its pull request is merged.
CloseCard(n) ==
    /\ n \in 1..Len(cards)
    /\ cards[n].open /\ "in-progress" \in cards[n].labels
    /\ cards' = [cards EXCEPT ![n].open = FALSE]
    /\ UNCHANGED <<drafts, answers, ticks, sessions, lost, boardFaults>>

-----------------------------------------------------------------------------
IdeaAnswering(a) ==
    \/ \E d \in 1..MaxDrafts, c \in BoardChoices : ReadDraft(a, d, c)
    \/ MarkUsed(a)
    \/ \E home \in BOOLEAN : OpenCard(a, home)
    \/ CardRefused(a)

TickStep(k) == Pick(k) \/ AddWorktree(k) \/ StartSession(k) \/ Claim(k)

BoardNext ==
    \/ MakeDraft
    \/ \E a \in Answer : IdeaAnswering(a)
    \/ \E k \in Tick : TickStep(k) \/ StartFails(k) \/ ClaimLost(k)
    \/ \E n \in 1..MaxCards : CloseCard(n)

BoardSpec == BoardInit /\ [][BoardNext]_boardVars

\* cron ticks for ever; an answer and a tick that began go on.
BoardFairness == \A k \in Tick : WF_boardVars(TickStep(k))

-----------------------------------------------------------------------------
(* What must hold.                                                         *)

CardsOf(d) == {n \in 1..Len(cards) : cards[n].draft = d}

\* A card exists only for a draft that was answered, under the column of an
\* answer to it; and one draft makes one card, and a dropped one none, unless
\* two answers to it overlapped.
OneAnswerOneCard ==
    \A d \in 1..Len(drafts) :
        /\ CardsOf(d) # {} => drafts[d].used # "no"
        /\ ~drafts[d].raced =>
              /\ Cardinality(CardsOf(d)) <= 1
              /\ \A n \in CardsOf(d) : cards[n].choice = drafts[d].used /\ drafts[d].used # "drop"

\* A card is worked on once: every further session is paid for by a claim that
\* never reached the board, or by two ticks that overlapped on it.
SecondSessionIsPaidFor ==
    \A n \in 1..MaxCards : sessions[n] <= 1 + lost[n]

\* A card is claimed only after a session was started for it, in a worktree, and
\* only a card that was put in To Do.
ClaimedWasStarted ==
    \A n \in 1..Len(cards) :
        "in-progress" \in cards[n].labels =>
            sessions[n] > 0 /\ cards[n].worktree /\ cards[n].choice = "todo"

\* What keeps a card in To Do waiting although ticks go on: it is off the page,
\* or an older one has no checkout, which every tick stumbles over first.
Blocked(n) ==
    \/ n \notin Listed
    \/ \E m \in Ready(Listed) : m <= n /\ ~cards[m].home

\* A card in To Do is worked on, unless it is blocked: by cards that are already
\* claimed, or by one nobody can work on.
TodoIsTakenUp ==
    \A n \in 1..MaxCards :
        (n \in Column) ~> (sessions[n] > 0 \/ Blocked(n))

\* From the answer to the session nothing is made twice for nothing.
WorkIsPaidFor == OneAnswerOneCard /\ SecondSessionIsPaidFor /\ ClaimedWasStarted
=============================================================================
