------------------------------ MODULE Backfill ------------------------------
(***************************************************************************)
(* The one-off bridge of memory/backfill.py: the memories of a hindsight   *)
(* bank, listed page by page, become facts of the store under the same id. *)
(*                                                                         *)
(*   page -> item: empty? there already? -> embed -> write -> next item    *)
(*                                                                         *)
(* The bank goes on living while it is paged through by offset, and two    *)
(* runs may overlap.                                                       *)
(*                                                                         *)
(* X_Something is a mutant of X: X with a plausible mistake in it.         *)
(***************************************************************************)
EXTENDS Naturals, Sequences, FiniteSets, SequencesExt

CONSTANTS
    Memory,           \* memories by id
    Filler,           \* runs of the bridge
    Plain,            \* those that find no embedding provider
    Empty,            \* memories without a text
    Unusable,         \* memories with a text that cannot be made a Fact
    PageSize,         \* HINDSIGHT page size
    MaxFillFaults     \* bound: refusals of the lane, the store, the bank; moves of the bank

ASSUME BackfillAssumption ==
    /\ Empty \subseteq Memory /\ Unusable \subseteq Memory /\ Plain \subseteq Filler
    /\ PageSize \in Nat \ {0} /\ MaxFillFaults \in Nat

VARIABLES
    bank,        \* the list, in the vendor's order
    stored,      \* the facts of the store, with who wrote them
    filler,      \* filler[b]: the locals of a run
    shifted,     \* runs during which a memory left the list (an observation)
    fillFaults

fillVars == <<bank, stored, filler, shifted, fillFaults>>

FillStages == {"idle", "paging", "item", "absent", "embedded", "done", "failed"}

\* vector: what is to be written has one; due: what was in the bank when the run
\* began; last: the page ends it.
FillerState == [stage : FillStages, vector : BOOLEAN, offset : Nat, page : Seq(Memory),
                at : Nat, last : BOOLEAN, refused : Nat, due : SUBSET Memory]

Fact == [id : Memory, by : Filler, vector : BOOLEAN]

FillTypeOK ==
    /\ bank \in Seq(Memory) /\ IsInjective(bank)
    /\ stored \subseteq Fact /\ \A f, g \in stored : f.id = g.id => f = g
    /\ filler \in [Filler -> FillerState]
    /\ \A b \in Filler : filler[b].stage \in {"item", "absent", "embedded"} =>
          filler[b].at \in 1..Len(filler[b].page)
    /\ shifted \subseteq Filler
    /\ fillFaults \in 0..MaxFillFaults

FillInit ==
    /\ bank \in UNION {SetToSeqs(s) : s \in {t \in SUBSET Memory : IsFiniteSet(t)}}
    /\ stored = {}
    /\ filler = [b \in Filler |->
                   [stage |-> "idle", vector |-> b \notin Plain, offset |-> 0, page |-> << >>,
                    at |-> 0, last |-> FALSE, refused |-> 0, due |-> {}]]
    /\ shifted = {}
    /\ fillFaults = 0

-----------------------------------------------------------------------------
FillFault == fillFaults < MaxFillFaults /\ fillFaults' = fillFaults + 1

Turns(b, s) == filler' = [filler EXCEPT ![b] = s]

FactStored(i) == \E f \in stored : f.id = i

Item(b) == filler[b].page[filler[b].at]

\* The loop goes to the next item, or the page is done: the offset moves by what
\* the page held, and the total, when there is one, may end the run.
After(s) ==
    IF s.at < Len(s.page) THEN [s EXCEPT !.stage = "item", !.at = @ + 1]
    ELSE [s EXCEPT !.stage = IF s.last THEN "done" ELSE "paging", !.page = << >>, !.at = 0,
                   !.offset = @ + Len(s.page)]

Begin(b) ==
    /\ filler[b].stage = "idle"
    /\ Turns(b, [filler[b] EXCEPT !.stage = "paging", !.due = ToSet(bank)])
    /\ shifted' = shifted \ {b}
    /\ UNCHANGED <<bank, stored, fillFaults>>

LastIndex(offset) == IF offset + PageSize < Len(bank) THEN offset + PageSize ELSE Len(bank)

\* offset >= total, once the page is done.
IsLast(b, page) == filler[b].offset + Len(page) >= Len(bank)

\* One listing, which may say how many there are in all; no items end the run.
FillPage(b) ==
    /\ filler[b].stage = "paging"
    /\ \E counted \in BOOLEAN :
       LET page == SubSeq(bank, filler[b].offset + 1, LastIndex(filler[b].offset)) IN
       Turns(b, IF page = << >> THEN [filler[b] EXCEPT !.stage = "done"]
                ELSE [filler[b] EXCEPT !.stage = "item", !.page = page, !.at = 1,
                                       !.last = counted /\ IsLast(b, page)])
    /\ UNCHANGED <<bank, stored, shifted, fillFaults>>

\* _to_fact and get_fact: nothing in it, nothing to be made of it, there
\* already, or to be written.
Look(b) ==
    /\ filler[b].stage = "item"
    /\ Turns(b, IF Item(b) \in Empty \cup Unusable \/ FactStored(Item(b))
                THEN After(filler[b])
                ELSE [filler[b] EXCEPT !.stage = "absent"])
    /\ UNCHANGED <<bank, stored, shifted, fillFaults>>

Embed(b) ==
    /\ filler[b].stage = "absent"
    /\ Turns(b, [filler[b] EXCEPT !.stage = "embedded"])
    /\ UNCHANGED <<bank, stored, shifted, fillFaults>>

\* BackfillIncomplete: the first refusal of the embedding lane ends the run.
Declined(s) == [s EXCEPT !.stage = "failed"]

EmbedRefused(b) ==
    /\ filler[b].stage = "absent" /\ b \notin Plain
    /\ FillFault
    /\ Turns(b, Declined(filler[b]))
    /\ UNCHANGED <<bank, stored, shifted>>

Refused_NotCounted(s) == After(s)

Refused(s) == After([s EXCEPT !.refused = @ + 1])

\* write_fact: an id that came in the meantime is refused by the primary key.
\* A refused row is counted, and the run goes on.
WriteFill(b) ==
    /\ filler[b].stage = "embedded"
    /\ IF FactStored(Item(b)) THEN UNCHANGED stored /\ Turns(b, Refused(filler[b]))
       ELSE /\ stored' = stored \cup {[id |-> Item(b), by |-> b, vector |-> filler[b].vector]}
            /\ Turns(b, After(filler[b]))
    /\ UNCHANGED <<bank, shifted, fillFaults>>

\* The write fails, or its commit does and only the answer to it was lost:
\* either way "fact write did not complete".
WriteRefused(b) ==
    /\ filler[b].stage = "embedded"
    /\ FillFault
    /\ stored' \in {stored} \cup
            (IF FactStored(Item(b)) THEN {}
             ELSE {stored \cup {[id |-> Item(b), by |-> b, vector |-> filler[b].vector]}})
    /\ Turns(b, Refused(filler[b]))
    /\ UNCHANGED <<bank, shifted>>

\* The bank does not answer, or the process dies.
FillDies(b) ==
    /\ filler[b].stage \notin {"idle", "done", "failed"}
    /\ FillFault
    /\ Turns(b, [filler[b] EXCEPT !.stage = "failed"])
    /\ UNCHANGED <<bank, stored, shifted>>

\* The bank forgets a memory: everything behind it moves up by one.
Forget(k) ==
    /\ bank' = RemoveAt(bank, k)
    /\ FillFault
    /\ shifted' = {b \in Filler : filler[b].stage # "idle"}
    /\ UNCHANGED <<stored, filler>>

\* The bank learns a memory, in front or at the end.
Retain(i) ==
    /\ i \notin ToSet(bank)
    /\ \/ bank' = Append(bank, i)
       \/ bank' = <<i>> \o bank
    /\ FillFault
    /\ UNCHANGED <<stored, filler, shifted>>

FillNext ==
    \/ \E b \in Filler :
        \/ Begin(b) \/ FillPage(b) \/ Look(b)
        \/ Embed(b) \/ EmbedRefused(b)
        \/ WriteFill(b) \/ WriteRefused(b)
        \/ FillDies(b)
    \/ \E k \in DOMAIN bank : Forget(k)
    \/ \E i \in Memory : Retain(i)

FillSpec == FillInit /\ [][FillNext]_fillVars

-----------------------------------------------------------------------------
(* What must hold.                                                         *)

\* Exit 0: every item was stored or had nothing in it to store.
Succeeded(b) == filler[b].stage = "done" /\ filler[b].refused = 0

\* A run that reports success has bridged everything that was in the bank when
\* it began, however the bank grew meanwhile and whoever else was bridging;
\* what it cannot make a fact of it counts as empty and leaves behind, and what
\* moves up in the list while it pages it does not see.
SuccessIsComplete ==
    \A b \in Filler :
        (Succeeded(b) /\ b \notin shifted) =>
            \A i \in filler[b].due \ (Empty \cup Unusable) : FactStored(i)

\* A fact without its vector is never the work of a run that embeds
\* (backfill.py: "the gap is permanent and silent").
VectorOrNothing ==
    \A f \in stored : f.by \notin Plain => f.vector

\* A bridge that reports success has left nothing behind and nothing half done.
BridgeIsComplete == SuccessIsComplete /\ VectorOrNothing
=============================================================================
