------------------------------ MODULE Telemetry ------------------------------
(***************************************************************************)
(* The export layer of obs/: every finished span is exported at once by    *)
(* the thread that ended it (SimpleSpanProcessor), through the exporter    *)
(* of obs/export.py, which keeps what the collector refuses.               *)
(*                                                                         *)
(*   export: copy the buffer -> clear it -> delegate -> keep or forget     *)
(*                                                                         *)
(* There is no lock: two exports of one handle may overlap.                *)
(*                                                                         *)
(* X_Something is a mutant of X: X with a plausible mistake in it.         *)
(***************************************************************************)
EXTENDS Naturals, Sequences, FiniteSets, SequencesExt

CONSTANTS
    ObsThread,        \* threads that end spans of one handle
    Span,             \* spans they end
    BufferMax,        \* export_buffer_max
    MaxObsFaults      \* bound: failed exports

ASSUME ObsAssumption ==
    /\ IsFiniteSet(ObsThread) /\ IsFiniteSet(Span)
    /\ BufferMax \in Nat /\ MaxObsFaults \in Nat

VARIABLES
    ended,       \* spans handed to export
    spanBuffer,  \* MonitoredSpanExporter._buffer
    exporting,   \* exporting[x]: the locals of a thread in export
    collected,   \* spans the collector has
    health,      \* the counters of Health
    shed,        \* spans left out of a full buffer (an observation)
    exportsOverlap,  \* have two exports overlapped (an observation)
    obsFaults

obsVars == <<ended, spanBuffer, exporting, collected, health, shed, exportsOverlap, obsFaults>>

Resting == [stage |-> "resting", pending |-> << >>]

ObsInit ==
    /\ ended = {}
    /\ spanBuffer = << >>
    /\ exporting = [x \in ObsThread |-> Resting]
    /\ collected = {}
    /\ health = [failures |-> 0, buffered |-> 0, dropped |-> 0]
    /\ shed = {}
    /\ exportsOverlap = FALSE
    /\ obsFaults = 0

-----------------------------------------------------------------------------
Exports(x, pending) ==
    /\ exporting' = [exporting EXCEPT ![x] = [stage |-> "copied", pending |-> pending]]
    /\ exportsOverlap' = (exportsOverlap \/ \E y \in ObsThread \ {x} : exporting[y] # Resting)

\* on_end of a span: export([span]), which retries the buffer in front of it.
EndSpan(x, p) ==
    /\ exporting[x] = Resting /\ p \notin ended
    /\ ended' = ended \cup {p}
    /\ Exports(x, Append(spanBuffer, p))
    /\ UNCHANGED <<spanBuffer, collected, health, shed, obsFaults>>

\* flush_buffered: export([]), unless there is nothing to retry.
FlushBuffered(x) ==
    /\ exporting[x] = Resting /\ spanBuffer # << >>
    /\ Exports(x, spanBuffer)
    /\ UNCHANGED <<ended, spanBuffer, collected, health, shed, obsFaults>>

ClearBuffer(x) ==
    /\ exporting[x].stage = "copied"
    /\ spanBuffer' = << >>
    /\ exporting' = [exporting EXCEPT ![x].stage = "sent"]
    /\ UNCHANGED <<ended, collected, health, shed, exportsOverlap, obsFaults>>

\* The delegate says SUCCESS.
Exported(x) ==
    /\ exporting[x].stage = "sent"
    /\ collected' = collected \cup ToSet(exporting[x].pending)
    /\ health' = [health EXCEPT !.buffered = 0]
    /\ exporting' = [exporting EXCEPT ![x] = Resting]
    /\ UNCHANGED <<ended, spanBuffer, shed, exportsOverlap, obsFaults>>

\* How many of the oldest do not fit.
Overflow(pending) == IF Len(pending) > BufferMax THEN Len(pending) - BufferMax ELSE 0

Alert_Late(overflow, kept) ==
    [health EXCEPT !.failures = @ + 1, !.dropped = @ + overflow, !.buffered = Len(spanBuffer)]

\* The counters after a failure.
Alert(overflow, kept) ==
    [health EXCEPT !.failures = @ + 1, !.dropped = @ + overflow, !.buffered = Len(kept)]

\* _buffer_and_alert: the delegate raises or says FAILURE; with an answer that
\* was lost the collector has the spans all the same.
ExportFails(x) ==
    /\ exporting[x].stage = "sent"
    /\ obsFaults < MaxObsFaults /\ obsFaults' = obsFaults + 1
    /\ LET pending == exporting[x].pending
           overflow == Overflow(pending)
           kept == spanBuffer \o SubSeq(pending, overflow + 1, Len(pending))
       IN  /\ spanBuffer' = kept
           /\ shed' = shed \cup ToSet(SubSeq(pending, 1, overflow))
           /\ health' = Alert(overflow, kept)
           /\ collected' \in {collected, collected \cup ToSet(pending)}
    /\ exporting' = [exporting EXCEPT ![x] = Resting]
    /\ UNCHANGED <<ended, exportsOverlap>>

ObsNext ==
    \E x \in ObsThread :
        \/ \E p \in Span : EndSpan(x, p)
        \/ FlushBuffered(x)
        \/ ClearBuffer(x)
        \/ Exported(x)
        \/ ExportFails(x)

ObsSpec == ObsInit /\ [][ObsNext]_obsVars

-----------------------------------------------------------------------------
(* What must hold.                                                         *)

ObsTypeOK ==
    /\ ended \subseteq Span /\ collected \subseteq ended /\ shed \subseteq ended
    /\ ToSet(spanBuffer) \subseteq ended
    /\ \A x \in ObsThread :
        /\ exporting[x].stage \in {"resting", "copied", "sent"}
        /\ ToSet(exporting[x].pending) \subseteq ended
    /\ health \in [failures : 0..obsFaults, dropped : Nat,
                   buffered : 0..(Cardinality(ObsThread) * BufferMax)]
    /\ exportsOverlap \in BOOLEAN
    /\ obsFaults \in 0..MaxObsFaults

InHand == UNION {ToSet(exporting[x].pending) : x \in ObsThread}

\* As long as exports of the handle do not overlap, every span that ended is with
\* the collector, in the buffer, in an export under way, or counted as dropped
\* (export.py:11: "nothing is ever dropped quietly").
NothingIsDroppedQuietly ==
    ~exportsOverlap =>
        /\ ended \subseteq collected \cup ToSet(spanBuffer) \cup InHand \cup shed
        /\ Cardinality(shed) <= health.dropped

Healthy == health.buffered = 0 /\ health.dropped = 0

\* A handle at rest that says it is healthy owes the collector nothing.
HealthyOwesNothing ==
    (~exportsOverlap /\ Healthy /\ \A x \in ObsThread : exporting[x] = Resting) =>
        ended \subseteq collected

\* The collector may be away as long as it likes: the buffer stays within what
\* each of the threads may put back, even when their exports overlap.
BufferStaysBounded == Len(spanBuffer) <= Cardinality(ObsThread) * BufferMax

\* A span is accounted for until it is delivered, within bounded memory.
SpansAreAccountedFor ==
    NothingIsDroppedQuietly /\ HealthyOwesNothing /\ BufferStaysBounded
=============================================================================
