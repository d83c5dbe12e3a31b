---------------------------- MODULE TurnHistory ----------------------------
(***************************************************************************)
(* The turn record of memory/conversation.py read back as the past of the  *)
(* next question.  Rows arrive in any order, since the tasks they belong   *)
(* to are answered side by side; the reader sorts by when each was asked.  *)
(*                                                                         *)
(* X_Something is a mutant of X: X with a plausible mistake in it.         *)
(***************************************************************************)
EXTENDS PromptBudget

CONSTANTS
    Sender,        \* a tenant on a surface
    TalkSize,      \* what an exchange can weigh
    Window,        \* within
    MaxTalk,       \* bound: rows
    MaxTalkHours   \* bound: how far the clock goes

ASSUME TalkAssumption ==
    /\ TalkSize \subseteq Nat \ {0}
    /\ Window \in Nat /\ MaxTalk \in Nat /\ MaxTalkHours \in Nat

VARIABLES
    rows,      \* otto_turns
    talkHour

talkVars == <<rows, talkHour>>

\* n: the task; answered: the answer is there and not empty.
TalkRow ==
    [n : 1..MaxTalk, sender : Sender, asked : 0..MaxTalkHours, size : TalkSize, answered : BOOLEAN]

TalkTypeOK ==
    /\ rows \subseteq TalkRow
    /\ \A r, s \in rows : r.n = s.n => r = s
    /\ talkHour \in 0..MaxTalkHours

TalkInit ==
    /\ rows = {}
    /\ talkHour = 0

\* write_turn: ON CONFLICT (task_ulid) DO NOTHING.
Recorded(row) ==
    rows' = IF \E r \in rows : r.n = row.n THEN rows ELSE rows \cup {row}

RecordTurn(row) ==
    /\ row.asked <= talkHour
    /\ Recorded(row)
    /\ UNCHANGED talkHour

TalkHourPasses ==
    /\ talkHour < MaxTalkHours
    /\ talkHour' = talkHour + 1
    /\ UNCHANGED rows

Eligible(q) == {r \in rows : r.sender = q /\ r.answered /\ r.asked + Window > talkHour}

ByAsked_Ascending(a, b) == a.asked < b.asked \/ (a.asked = b.asked /\ a.n < b.n)

\* ORDER BY asked_at DESC; rows of the same instant in some order of their own.
ByAsked(a, b) == a.asked > b.asked \/ (a.asked = b.asked /\ a.n > b.n)

\* recent_messages: fetched newest first, the budget spent in that order, shown
\* oldest first.
RecentMessages(q) == Reverse(Taking(FirstOf(InOrder(Eligible(q), ByAsked), MaxShown)))

TalkNext ==
    \/ \E row \in TalkRow : RecordTurn(row)
    \/ TalkHourPasses

TalkSpec == TalkInit /\ [][TalkNext]_talkVars

-----------------------------------------------------------------------------
(* What must hold.                                                         *)

\* The record loses its oldest exchanges, never its newest (conversation.py: "a
\* long conversation loses its oldest exchanges rather than its most recent
\* ones"): what is left out was asked before everything that is shown, and
\* while anything is eligible something is shown, in the order it was asked.
OldestAreLeftOut ==
    \A q \in Sender :
        LET shown == RecentMessages(q) IN
        /\ Eligible(q) # {} => shown # << >>
        /\ \A k \in DOMAIN shown : k > 1 => shown[k - 1].asked <= shown[k].asked
        /\ \A r \in Eligible(q) :
              (\A k \in DOMAIN shown : shown[k] # r) =>
                  \A k \in DOMAIN shown : r.asked <= shown[k].asked

\* The past that travels is within its budget, or one exchange alone.
HistoryFits == \A q \in Sender : WithinBudget(RecentMessages(q))
=============================================================================
