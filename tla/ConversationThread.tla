------------------------- MODULE ConversationThread -------------------------
(***************************************************************************)
(* The thread store of ingress/thread.py: one head row per principal, its  *)
(* turns under the head's thread id, and the messages made of them.        *)
(* Several connections append: each reads the head, then inserts.          *)
(*                                                                         *)
(* X_Something is a mutant of X: X with a plausible mistake in it.         *)
(***************************************************************************)
EXTENDS PromptBudget

CONSTANTS
    Principal,
    Conn,           \* connections to the store
    Size,           \* what a turn can weigh
    IdleAfter,      \* idle_hours
    MaxTurnRows,    \* bound: turns
    MaxThreads,     \* bound: threads
    MaxThreadHours  \* bound: how far the clock goes

ASSUME ThreadAssumption ==
    /\ Size \subseteq Nat \ {0}
    /\ IdleAfter \in Nat
    /\ MaxTurnRows \in Nat /\ MaxThreads \in Nat /\ MaxThreadHours \in Nat

VARIABLES
    heads,      \* heads[p]: conversation_head
    turns,      \* conversation_turn, in the order of created_at
    writer,     \* writer[c]: an append between its SELECT and its INSERT
    threads,    \* thread ids minted so far
    threadHour,
    topic,      \* topic[p]: the first turn after p's last new_topic (an observation)
    overtaken   \* turns written under a head another connection had replaced
                \* (an observation)

threadVars == <<heads, turns, writer, threads, threadHour, topic, overtaken>>

HeadRow == [thread : Nat, started : Nat]
NoHead  == [thread |-> 0, started |-> 0]
TurnRow == [thread : Nat, principal : Principal, size : Size, at : Nat]

\* for: the principal it writes for, Conn's own element while it is idle.
Writer == [busy : BOOLEAN, thread : Nat, for : Principal \cup Conn]

ThreadTypeOK ==
    /\ heads \in [Principal -> HeadRow]
    /\ \A p \in Principal : heads[p].thread <= threads /\ heads[p].started <= threadHour
    /\ turns \in Seq(TurnRow) /\ Len(turns) <= MaxTurnRows
    /\ writer \in [Conn -> Writer]
    /\ \A c \in Conn : writer[c].busy => writer[c].for \in Principal
    /\ threads \in 0..MaxThreads
    /\ threadHour \in 0..MaxThreadHours
    /\ topic \in [Principal -> 1..MaxTurnRows + 1]
    /\ overtaken \subseteq 1..Len(turns)

ThreadInit ==
    /\ heads = [p \in Principal |-> NoHead]
    /\ turns = << >>
    /\ writer = [c \in Conn |-> [busy |-> FALSE, thread |-> 0, for |-> c]]
    /\ threads = 0
    /\ threadHour = 0
    /\ topic = [p \in Principal |-> 1]
    /\ overtaken = {}

-----------------------------------------------------------------------------
Live(at) == at + IdleAfter >= threadHour

LiveHead(p) == heads[p].thread # 0 /\ Live(heads[p].started)

\* The first half of append: the principal's live head, or none.
LookForHead(c, p) ==
    /\ ~writer[c].busy
    /\ writer' = [writer EXCEPT ![c] = [busy |-> TRUE, for |-> p,
                                        thread |-> IF LiveHead(p) THEN heads[p].thread ELSE 0]]
    /\ UNCHANGED <<heads, turns, threads, threadHour, topic, overtaken>>

\* _new_opaque_thread_id: no two are alike.
MintThread == threads + 1

WriteTurn(thread, p, size) ==
    turns' = Append(turns, [thread |-> thread, principal |-> p, size |-> size,
                            at |-> threadHour])

\* The second half, under the head it saw, whatever became of it since.
InsertTurn(c, size) ==
    /\ writer[c].busy /\ writer[c].thread # 0
    /\ Len(turns) < MaxTurnRows
    /\ WriteTurn(writer[c].thread, writer[c].for, size)
    /\ overtaken' = IF heads[writer[c].for].thread = writer[c].thread THEN overtaken
                    ELSE overtaken \cup {Len(turns) + 1}
    /\ writer' = [writer EXCEPT ![c] = [busy |-> FALSE, thread |-> 0, for |-> c]]
    /\ UNCHANGED <<heads, threads, threadHour, topic>>

\* INSERT INTO conversation_head: its primary key is the principal.
TakesHead(p) == heads[p].thread = 0

\* No live head was seen: a head row and the turn, in one transaction, or the
\* IntegrityError that a head which is there, live or idle, makes of it.
InsertHeadAndTurn(c, size) ==
    LET p == writer[c].for IN
    /\ writer[c].busy /\ writer[c].thread = 0
    /\ Len(turns) < MaxTurnRows
    /\ IF TakesHead(p)
       THEN /\ threads < MaxThreads
            /\ heads' = [heads EXCEPT ![p] = [thread |-> MintThread, started |-> threadHour]]
            /\ WriteTurn(MintThread, p, size)
            /\ threads' = MintThread
       ELSE UNCHANGED <<heads, turns, threads>>
    /\ writer' = [writer EXCEPT ![c] = [busy |-> FALSE, thread |-> 0, for |-> c]]
    /\ UNCHANGED <<threadHour, topic, overtaken>>

\* new_topic: a head of its own, over the one that is there.
NewTopic(p) ==
    /\ threads < MaxThreads
    /\ heads' = [heads EXCEPT ![p] = [thread |-> MintThread, started |-> threadHour]]
    /\ threads' = MintThread
    /\ topic' = [topic EXCEPT ![p] = Len(turns) + 1]
    /\ UNCHANGED <<turns, writer, threadHour, overtaken>>

ThreadHourPasses ==
    /\ threadHour < MaxThreadHours
    /\ threadHour' = threadHour + 1
    /\ UNCHANGED <<heads, turns, writer, threads, topic, overtaken>>

\* The rows of p's thread that are recent enough.
LiveTurns(p) == {k \in DOMAIN turns : turns[k].thread = heads[p].thread /\ Live(turns[k].at)}

\* thread_for: nothing when the head is idle, however recent its turns.
ThreadFor(p) ==
    LET inOrder == InOrder(LiveTurns(p), LAMBDA j, k : j < k) IN
    IF LiveHead(p) THEN [i \in DOMAIN inOrder |-> turns[inOrder[i]]] ELSE << >>

\* thread_messages: from the oldest of the last max_turns on.
ThreadMessages(p) == Taking(LastOf(ThreadFor(p), MaxShown))

ThreadNext ==
    \/ \E c \in Conn :
        \/ \E p \in Principal : LookForHead(c, p)
        \/ \E size \in Size : InsertTurn(c, size) \/ InsertHeadAndTurn(c, size)
    \/ \E p \in Principal : NewTopic(p)
    \/ ThreadHourPasses

ThreadSpec == ThreadInit /\ [][ThreadNext]_threadVars

-----------------------------------------------------------------------------
(* What must hold.                                                         *)

\* No thread is shared: what a principal reads back, it said itself (thread.py:
\* "Untrusted senders never share the founder's thread").
ThreadIsPrivate ==
    \A p \in Principal :
        \A k \in DOMAIN ThreadFor(p) : ThreadFor(p)[k].principal = p

\* A turn is served again while the topic it was said under lasts, whichever
\* connection wrote it: until a new topic is opened or the head, which no turn
\* refreshes, idles out.  Only a turn written under a head that another
\* connection had just replaced never is.
SaidIsServed ==
    \A p \in Principal, k \in DOMAIN turns :
        (/\ LiveHead(p)
         /\ turns[k].principal = p
         /\ k >= topic[p] /\ k \notin overtaken)
        => \E j \in DOMAIN ThreadFor(p) : ThreadFor(p)[j] = turns[k]

\* A prompt is within its budget, or one turn alone.
ThreadPromptFits == \A p \in Principal : WithinBudget(ThreadMessages(p))
=============================================================================
