----------------------------- MODULE FactStore -----------------------------
(***************************************************************************)
(* The fact table of otto.memory and the two jobs that thin it out.        *)
(*                                                                         *)
(* run_hygiene reads what has expired, reads what is duplicated, counts    *)
(* the table, stops if that is too much of it, and then deletes row by     *)
(* row, each DELETE in one transaction with its audit row.                 *)
(* compact_over_budget reads the facts a context had no room for, writes   *)
(* one summary of them and points them at it.  Neither takes a lock, every *)
(* read is a snapshot of its own, any number of runs go on at once, facts  *)
(* are written meanwhile, and a run may die anywhere.                      *)
(*                                                                         *)
(* A run of hygiene or of compaction is one call; a compaction is named by *)
(* the (fresh) id of the summary it would write.                           *)
(*                                                                         *)
(* A definition named X_Something is a mutant of X.                        *)
(***************************************************************************)
EXTENDS Naturals, FiniteSets

CONSTANTS
    Note,          \* ids of the facts that callers write
    Compaction,    \* calls of compact_over_budget
    Run,           \* calls of run_hygiene
    Key,           \* Key[n]: n's (entity, attribute), or None
    StaleAfter,    \* StaleAfter[n]: n's own expiry, or None
    Tainted,       \* notes that come from untrusted content
    Tier,          \* Tier[n]: its place in VALID_TIERS, 0 the most trusted
    None,
    TTL,           \* default_ttl_days
    Lookback,      \* dedup_lookback_days
    Batch,         \* hygiene_batch_size
    CapNum, CapDen,\* hygiene_max_deletion_fraction = CapNum / CapDen
    MaxTime,       \* bound: clock
    MaxRewrites    \* bound: ids written again after their deletion

ASSUME FactStoreAssumption ==
    /\ Note \cap Compaction = {} /\ None \notin Note \cup Compaction
    /\ IsFiniteSet(Note) /\ IsFiniteSet(Compaction)
    /\ Tainted \subseteq Note
    /\ Tier \in [Note -> 0..3]
    /\ TTL \in Nat \ {0} /\ Lookback \in Nat /\ Batch \in Nat
    /\ CapNum \in Nat \ {0} /\ CapDen \in Nat \ {0} /\ CapNum <= CapDen
    /\ MaxTime \in Nat /\ MaxRewrites \in Nat

Fact == Note \cup Compaction

VARIABLES
    now,
    facts,         \* the rows of otto_facts
    born,          \* created_at
    link,          \* superseded_by
    dirty,         \* summaries written with tainted = true
    rank,          \* tier_at_capture of the summaries
    removed,       \* removed[f]: times the row of f was deleted
    audits,        \* audits[f]: otto_fact_audit rows that say so
    rewrites,
    stage,         \* stage[r]: where a call of run_hygiene is
    at,            \* at[r]: the now it works with
    expired,       \* expired[r]: rows it still has to expire
    twins,         \* twins[r]: <<keep, duplicate>> pairs it still has to delete
    total,         \* total[r]: its count of the table
    gone,          \* gone[r]: rows it deleted
    alerts,        \* runs that left a row in otto_hygiene_alerts
    step,          \* step[c]: where a call of compact_over_budget is
    chosen,        \* chosen[c]: the facts it works on
    covers         \* covers[c]: compacted_fact_ids of its audit row

table == <<now, facts, born, link, dirty, rank, removed, audits, rewrites>>
hygiene == <<stage, at, expired, twins, total, gone, alerts>>
compaction == <<step, chosen, covers>>
vars == <<table, hygiene, compaction>>

TypeOK ==
    /\ now \in Nat
    /\ facts \in SUBSET Fact
    /\ born \in [Fact -> Nat]
    /\ link \in [Fact -> Fact \cup {None}]
    /\ dirty \in SUBSET Compaction
    /\ rank \in [Compaction -> 0..3]
    /\ removed \in [Fact -> Nat]
    /\ audits \in [Fact -> Nat]
    /\ rewrites \in 0..MaxRewrites
    /\ stage \in [Run -> {"new", "expired", "scanned", "deleting", "over"}]
    /\ at \in [Run -> Nat]
    /\ expired \in [Run -> SUBSET Fact]
    /\ twins \in [Run -> SUBSET (Note \X Note)]
    /\ total \in [Run -> Nat]
    /\ gone \in [Run -> Nat]
    /\ alerts \in SUBSET Run
    /\ step \in [Compaction -> {"new", "assembled", "selected", "over"}]
    /\ chosen \in [Compaction -> SUBSET Fact]
    /\ covers \in [Compaction -> SUBSET Fact]

Init ==
    /\ now = 0
    /\ facts = {}
    /\ born = [f \in Fact |-> 0]
    /\ link = [f \in Fact |-> None]
    /\ dirty = {}
    /\ rank = [c \in Compaction |-> 0]
    /\ removed = [f \in Fact |-> 0]
    /\ audits = [f \in Fact |-> 0]
    /\ rewrites = 0
    /\ stage = [r \in Run |-> "new"]
    /\ at = [r \in Run |-> 0]
    /\ expired = [r \in Run |-> {}]
    /\ twins = [r \in Run |-> {}]
    /\ total = [r \in Run |-> 0]
    /\ gone = [r \in Run |-> 0]
    /\ alerts = {}
    /\ step = [c \in Compaction |-> "new"]
    /\ chosen = [c \in Compaction |-> {}]
    /\ covers = [c \in Compaction |-> {}]

(***************************************************************************)
(* Writing and reading facts.                                              *)
(***************************************************************************)

\* write_fact: the primary key refuses an id that is there, the foreign key
\* one that supersedes by a row that is not.  (It would take a fact superseded
\* by itself; no caller writes one.)
Write(n, s) ==
    /\ n \notin facts
    /\ s \in facts \cup {None}
    /\ removed[n] > 0 => rewrites < MaxRewrites
    /\ rewrites' = IF removed[n] > 0 THEN rewrites + 1 ELSE rewrites
    /\ facts' = facts \cup {n}
    /\ born' = [born EXCEPT ![n] = now]
    /\ link' = [link EXCEPT ![n] = s]
    /\ UNCHANGED <<now, dirty, rank, removed, audits, hygiene, compaction>>

\* What both arms of search return: nothing superseded.
Active == {f \in facts : link[f] = None}

Tick ==
    /\ now < MaxTime
    /\ now' = now + 1
    /\ UNCHANGED <<facts, born, link, dirty, rank, removed, audits, rewrites,
                   hygiene, compaction>>

(***************************************************************************)
(* run_hygiene.                                                            *)
(***************************************************************************)

\* A summary has neither a stale_after nor an entity.
Expired(f, t) ==
    IF f \in Note /\ StaleAfter[f] # None
    THEN StaleAfter[f] <= t
    ELSE born[f] + TTL <= t

Keyed(t) == {n \in facts \cap Note : Key[n] # None /\ t <= born[n] + Lookback}

\* The first Batch rows of S by created_at, ties in any order.
OldestOf(S) ==
    {T \in SUBSET S : /\ Cardinality(T) <= Batch
                      /\ Cardinality(T) < Batch => T = S
                      /\ \A f \in T, g \in S \ T : born[f] <= born[g]}

\* The first Batch rows of S by key and then newest first.
NewestOf(S) ==
    {T \in SUBSET S : /\ Cardinality(T) <= Batch
                      /\ Cardinality(T) < Batch => T = S
                      /\ \A f \in T, g \in S \ T : Key[f] = Key[g] => born[f] >= born[g]}

\* The pairs of a group: its head, a newest row, with every other.
Pairs(T, heads) == {p \in heads \X (T \ heads) : Key[p[1]] = Key[p[2]]}

HeadsOf(T) ==
    {H \in SUBSET T : /\ \A f \in T : \E h \in H : Key[h] = Key[f]
                      /\ \A g, h \in H : Key[g] = Key[h] => g = h
                      /\ \A h \in H, f \in T : Key[h] = Key[f] => born[h] >= born[f]}

FindExpired(r) ==
    /\ stage[r] = "new"
    /\ at' = [at EXCEPT ![r] = now]
    /\ \E T \in OldestOf({f \in facts : Expired(f, now)}) :
          expired' = [expired EXCEPT ![r] = T]
    /\ stage' = [stage EXCEPT ![r] = "expired"]
    /\ UNCHANGED <<table, twins, total, gone, alerts, compaction>>

\* Duplicates are not counted.
Candidates_Expired(r) == Cardinality(expired[r])

FindDuplicates(r) ==
    /\ stage[r] = "expired"
    /\ \E T \in NewestOf(Keyed(at[r])) : \E H \in HeadsOf(T) :
          twins' = [twins EXCEPT ![r] = Pairs(T, H)]
    /\ stage' = [stage EXCEPT ![r] = "scanned"]
    /\ UNCHANGED <<table, at, expired, total, gone, alerts, compaction>>

Candidates(r) == Cardinality(expired[r]) + Cardinality(twins[r])

OverCap(r, n) == Candidates(r) * CapDen > CapNum * n

\* The call returns or raises, and its local variables go with it.
Return(r) ==
    /\ stage' = [stage EXCEPT ![r] = "over"]
    /\ at' = [at EXCEPT ![r] = 0]
    /\ expired' = [expired EXCEPT ![r] = {}]
    /\ twins' = [twins EXCEPT ![r] = {}]
    /\ total' = [total EXCEPT ![r] = 0]
    /\ gone' = [gone EXCEPT ![r] = 0]
    /\ UNCHANGED <<table, compaction>>

\* Too much of the table: stop, and leave an alert.
Cap(r) ==
    /\ stage[r] = "scanned"
    /\ facts # {} /\ OverCap(r, Cardinality(facts))
    /\ alerts' = alerts \cup {r}
    /\ Return(r)

Proceed(r) ==
    /\ stage[r] = "scanned"
    /\ facts # {} => ~OverCap(r, Cardinality(facts))
    /\ total' = [total EXCEPT ![r] = Cardinality(facts)]
    /\ stage' = [stage EXCEPT ![r] = "deleting"]
    /\ UNCHANGED <<table, at, expired, twins, gone, alerts, compaction>>

\* superseded_by without its foreign key.
Referenced_Never(f) == FALSE

\* Some row still names f in its superseded_by.
Referenced(f) == \E g \in facts : link[g] = f

\* One audit row per fact id.
AuditRow_Once(f) == [audits EXCEPT ![f] = 1]

AuditRow(f) == [audits EXCEPT ![f] = @ + 1]

\* _delete_and_audit: the DELETE finds the row or not, the audit row is
\* written either way.  An emitter that raises after the commit is a Stop.
DeleteAndAudit(r, f) ==
    /\ ~Referenced(f)
    /\ facts' = facts \ {f}
    /\ removed' = IF f \in facts THEN [removed EXCEPT ![f] = @ + 1] ELSE removed
    /\ gone' = IF f \in facts THEN [gone EXCEPT ![r] = @ + 1] ELSE gone
    /\ audits' = AuditRow(f)
    /\ link' = [link EXCEPT ![f] = None]
    /\ UNCHANGED <<now, born, dirty, rank, rewrites, stage, at, total, alerts, compaction>>

Expire(r, f) ==
    /\ stage[r] = "deleting"
    /\ f \in expired[r]
    /\ \A g \in expired[r] : born[f] <= born[g]
    /\ DeleteAndAudit(r, f)
    /\ expired' = [expired EXCEPT ![r] = @ \ {f}]
    /\ UNCHANGED twins

CompactDuplicate(r, p) ==
    /\ stage[r] = "deleting" /\ expired[r] = {}
    /\ p \in twins[r]
    /\ DeleteAndAudit(r, p[2])
    /\ twins' = [twins EXCEPT ![r] = @ \ {p}]
    /\ UNCHANGED expired

\* The run is through, it was a dry run, its session is lost, its emitter
\* raises, or the foreign key refuses a DELETE.
Stop(r) ==
    /\ stage[r] \in {"expired", "scanned", "deleting"}
    /\ Return(r)
    /\ UNCHANGED alerts

(***************************************************************************)
(* compact_over_budget.                                                    *)
(***************************************************************************)

\* search, then assemble_context: D is what the budget had no room for.
Assemble(c, D) ==
    /\ step[c] = "new"
    /\ D \subseteq Active /\ D # {}
    /\ step' = [step EXCEPT ![c] = "assembled"]
    /\ chosen' = [chosen EXCEPT ![c] = D]
    /\ UNCHANGED <<table, hygiene, covers>>

Select(c) ==
    /\ step[c] = "assembled"
    /\ chosen' = [chosen EXCEPT ![c] = @ \cap Active]
    /\ step' = [step EXCEPT ![c] = IF chosen[c] \cap Active = {} THEN "over" ELSE "selected"]
    /\ UNCHANGED <<table, hygiene, covers>>

IsTainted(f) == f \in Tainted \cup dirty

TierOf(f) == IF f \in Note THEN Tier[f] ELSE rank[f]

\* Only the newest row is asked.
TaintOf_Newest(S) == \E f \in S : IsTainted(f) /\ \A g \in S : born[f] >= born[g]

\* tier_at_capture of the summary: that of the least trusted of the rows.
Weakest(S) ==
    CHOOSE t \in 0..3 : /\ \E f \in S : TierOf(f) = t
                        /\ \A f \in S : TierOf(f) <= t

TaintOf(S) == \E f \in S : IsTainted(f)

\* The summary, the links of the rows that are still there, and the audit row.
Summarise(c) ==
    /\ step[c] = "selected"
    /\ facts' = facts \cup {c}
    /\ born' = [born EXCEPT ![c] = now]
    /\ rank' = [rank EXCEPT ![c] = Weakest(chosen[c])]
    /\ dirty' = IF TaintOf(chosen[c]) THEN dirty \cup {c} ELSE dirty
    /\ link' = [f \in Fact |-> IF f \in chosen[c] \cap facts THEN c ELSE link[f]]
    /\ covers' = [covers EXCEPT ![c] = chosen[c]]
    /\ step' = [step EXCEPT ![c] = "over"]
    /\ chosen' = [chosen EXCEPT ![c] = {}]
    /\ UNCHANGED <<now, removed, audits, rewrites, hygiene>>

GiveUp(c) ==
    /\ step[c] \in {"assembled", "selected"}
    /\ step' = [step EXCEPT ![c] = "over"]
    /\ chosen' = [chosen EXCEPT ![c] = {}]
    /\ UNCHANGED <<table, hygiene, covers>>

Next ==
    \/ Tick
    \/ \E n \in Note, s \in Fact \cup {None} : Write(n, s)
    \/ \E r \in Run :
          \/ FindExpired(r) \/ FindDuplicates(r)
          \/ Cap(r) \/ Proceed(r)
          \/ \E f \in expired[r] : Expire(r, f)
          \/ \E p \in twins[r] : CompactDuplicate(r, p)
          \/ Stop(r)
    \/ \E c \in Compaction :
          \/ \E D \in SUBSET facts : Assemble(c, D)
          \/ Select(c) \/ Summarise(c) \/ GiveUp(c)

Spec == Init /\ [][Next]_vars

(***************************************************************************)
(* Properties.                                                             *)
(***************************************************************************)

\* However runs race and die, there is an audit row for every time a row was
\* deleted (hygiene.py: no state in which a deletion is committed with no
\* audit record).
DeletionsAreAudited == \A f \in Fact : removed[f] <= audits[f]

\* A run deletes at most its share of the table it counted, expired and
\* duplicated together, whatever else is written and deleted meanwhile.  (A
\* table counted empty has no share: the code skips the test.)
CapHolds == \A r \in Run : total[r] > 0 => gone[r] * CapDen <= CapNum * total[r]

\* superseded_by never dangles and never goes round in a circle: from every
\* stored fact the links lead to a fact that search still returns.
CompactedIsReachable ==
    /\ \A f \in facts : link[f] \in facts \cup {None}
    /\ \A X \in SUBSET facts : X # {} => \E f \in X : link[f] \notin X

\* A summary is no more trusted than anything it stands for, through any
\* number of compactions.
SummaryClaimsNoMore ==
    \A c \in Compaction : \A f \in covers[c] :
        /\ IsTainted(f) => IsTainted(c)
        /\ TierOf(f) <= TierOf(c)

\* A fact deleted as a duplicate leaves the newer one it was a duplicate of
\* (hygiene.py: "keeping the most recent").
MostRecentIsKept ==
    [][\A r \in Run : \A p \in twins[r] \ twins'[r] :
          gone'[r] > gone[r] /\ born[p[1]] > born[p[2]] => p[1] \in facts']_vars

=============================================================================
