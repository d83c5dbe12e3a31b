---------------------------- MODULE TaskHistory ----------------------------
(***************************************************************************)
(* One task's history on the bus: a Lifecycle that publishes the task's    *)
(* events, numbered by a counter in the process, onto three streams, and a *)
(* replay that sweeps the streams one after the other and looks for gaps.  *)
(*                                                                         *)
(*   run: counter 1, 2, 3 ... --> OTTO_TASKS, OTTO_AUDIT, OTTO_VERDICTS    *)
(*                                     |          |            |           *)
(*   replay:                       sweep 1    sweep 2      sweep 3 -> gaps *)
(*                                                                         *)
(* The server drops a message whose Nats-Msg-Id (task and number) it has   *)
(* seen on that stream within the duplicate window, and still answers with *)
(* an acknowledgement.  A process that takes the task up again makes a new *)
(* Lifecycle, whose counter starts at one.                                 *)
(*                                                                         *)
(* X_Something is a mutant of X: X with a plausible mistake in it.         *)
(***************************************************************************)
EXTENDS Naturals, FiniteSets, Sequences

CONSTANTS
    Script,           \* the streams run_to_completion publishes to, in order
    MaxRestarts,      \* bound: times a process takes the task up again
    MaxHistoryFaults  \* bound: failed publishes, short sweeps, expiries

Streams == {"tasks", "audit", "verdicts"}
SweepOrder == <<"tasks", "audit", "verdicts">>

ASSUME HistoryAssumption ==
    /\ Script \in Seq(Streams)
    /\ MaxRestarts \in Nat /\ MaxHistoryFaults \in Nat

VARIABLES
    life,       \* the process: its run, its counter, its place in the script
    stream,     \* stream[s]: the task's messages on s, in order of storage
    window,     \* window[s]: numbers the server still remembers on s
    acked,      \* the events whose publish was answered (an observation)
    sweep,      \* the replay under way
    cut,        \* has retention or a short sweep taken anything from view
    historyFaults

historyVars == <<life, stream, window, acked, sweep, cut, historyFaults>>

\* An event is told apart by the run that published it and its place in it.
Message == [seq : Nat, run : Nat, at : Nat]

\* stage 1..3: the sweep that is next; quiet: the run was over all along.
NoSweep == [stage |-> 0, read |-> {}, quiet |-> FALSE]

HistoryTypeOK ==
    /\ life \in [run : 0..MaxRestarts, seq : Nat, at : 0..Len(Script), up : BOOLEAN]
    /\ stream \in [Streams -> Seq(Message)]
    /\ window \in [Streams -> SUBSET Nat]
    /\ acked \subseteq Message
    /\ sweep \in [stage : 0..4, read : SUBSET Message, quiet : BOOLEAN]
    /\ cut \in BOOLEAN
    /\ historyFaults \in 0..MaxHistoryFaults

HistoryInit ==
    /\ life = [run |-> 0, seq |-> 0, at |-> 0, up |-> TRUE]
    /\ stream = [s \in Streams |-> << >>]
    /\ window = [s \in Streams |-> {}]
    /\ acked = {}
    /\ sweep = NoSweep
    /\ cut = FALSE
    /\ historyFaults = 0

HistoryFault == historyFaults < MaxHistoryFaults /\ historyFaults' = historyFaults + 1

-----------------------------------------------------------------------------
(* Lifecycle over Bus.publish.                                             *)

Numbered_PerStream(l) ==
    [l EXCEPT !.seq = Cardinality({i \in 1..l.at : Script[i] = Script[l.at + 1]}) + 1,
              !.at = @ + 1]

\* _next: the number is taken before the publish, whatever becomes of it.
Numbered(l) == [l EXCEPT !.seq = @ + 1, !.at = @ + 1]

Running == life.up /\ life.at < Len(Script)

Event == [seq |-> Numbered(life).seq, run |-> life.run, at |-> life.at + 1]
Target == Script[life.at + 1]

\* What the server does with a message: a number it remembers is dropped.
Stored(s, m) ==
    /\ stream' = IF m.seq \in window[s] THEN stream
                 ELSE [stream EXCEPT ![s] = Append(@, m)]
    /\ window' = [window EXCEPT ![s] = @ \cup {m.seq}]

\* The publish is answered; that it was a duplicate nobody looks at.
Publish ==
    /\ Running
    /\ Stored(Target, Event)
    /\ acked' = acked \cup {Event}
    /\ life' = Numbered(life)
    /\ UNCHANGED <<sweep, cut, historyFaults>>

\* The publish raises, stored or not; the caller goes on with the next event,
\* or the run ends there.
PublishFails(stored, goesOn) ==
    /\ Running
    /\ HistoryFault
    /\ IF stored THEN Stored(Target, Event) ELSE UNCHANGED <<stream, window>>
    /\ life' = [Numbered(life) EXCEPT !.up = goesOn]
    /\ UNCHANGED <<acked, sweep, cut>>

\* The process is gone, or done; another one takes the task up from the start.
TakeUpAgain ==
    /\ life.run < MaxRestarts
    /\ life.at > 0
    /\ life' = [run |-> life.run + 1, seq |-> 0, at |-> 0, up |-> TRUE]
    /\ UNCHANGED <<stream, window, acked, sweep, cut, historyFaults>>

\* The duplicate window passes; retention takes the oldest message of a stream.
WindowPasses(s) ==
    /\ window[s] # {}
    /\ HistoryFault
    /\ window' = [window EXCEPT ![s] = {}]
    /\ UNCHANGED <<life, stream, acked, sweep, cut>>

Expire(s) ==
    /\ stream[s] # << >>
    /\ HistoryFault
    /\ stream' = [stream EXCEPT ![s] = Tail(@)]
    /\ cut' = TRUE
    /\ UNCHANGED <<life, window, acked, sweep>>

-----------------------------------------------------------------------------
(* replay: three sweeps, then the search for gaps.                         *)

BeginReplay ==
    /\ sweep.stage \in {0, 4}
    /\ sweep' = [NoSweep EXCEPT !.stage = 1, !.quiet = ~Running]
    /\ UNCHANGED <<life, stream, window, acked, cut, historyFaults>>

\* read_all of the next stream: everything, or what came before a fetch that
\* took longer than its second.
SweepNext(k) ==
    LET s == SweepOrder[sweep.stage] IN
    /\ sweep.stage \in 1..3
    /\ k <= Len(stream[s])
    /\ IF k = Len(stream[s]) THEN UNCHANGED <<cut, historyFaults>>
                             ELSE HistoryFault /\ cut' = TRUE
    /\ sweep' = [sweep EXCEPT !.stage = @ + 1,
                              !.read = @ \cup {stream[s][i] : i \in 1..k},
                              !.quiet = @ /\ ~Running]
    /\ UNCHANGED <<life, stream, window, acked>>

Seqs(S) == {m.seq : m \in S}

\* _find_gaps: only below the highest number that was read.
Gaps(S) == {q \in 1..Len(Script) : q \notin Seqs(S) /\ \E m \in S : q < m.seq}

-----------------------------------------------------------------------------
HistoryNext ==
    \/ Publish
    \/ \E stored, goesOn \in BOOLEAN : PublishFails(stored, goesOn)
    \/ TakeUpAgain
    \/ \E s \in Streams : WindowPasses(s) \/ Expire(s)
    \/ BeginReplay
    \/ \E k \in 0..(Len(Script) * (MaxRestarts + 1)) : SweepNext(k)

HistorySpec == HistoryInit /\ [][HistoryNext]_historyVars

-----------------------------------------------------------------------------
(* What must hold.                                                         *)

Kept == UNION {{stream[s][i] : i \in 1..Len(stream[s])} : s \in Streams}

\* An acknowledged event that is not on its stream was taken by retention, or
\* an event of an earlier run had its number: within one run nothing that was
\* acknowledged is missing.
AckedIsThereOrShadowed ==
    ~cut => \A m \in acked : m \in Kept \/ \E e \in Kept : e.seq = m.seq /\ e.run < m.run

\* A replay of one run that began after it, with everything still there, tells
\* it: every acknowledged event, no two under one number, in the order they
\* were published, and the gaps are the publishes that failed before another
\* succeeded.
ReplayTellsTheRun ==
    sweep.stage = 4 /\ sweep.quiet /\ ~cut /\ life.run = 0 =>
        /\ acked \subseteq sweep.read
        /\ \A m, e \in sweep.read : m.at < e.at <=> m.seq < e.seq
        /\ \A q \in Gaps(sweep.read) : \A m \in acked : m.at # q

\* The history of a task is what its runs were told it would be.
HistoryIsTold == AckedIsThereOrShadowed /\ ReplayTellsTheRun
=============================================================================
