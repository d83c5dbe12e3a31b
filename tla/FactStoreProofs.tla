-------------------------- MODULE FactStoreProofs --------------------------
(***************************************************************************)
(* Proofs about FactStore for any notes, runs, compactions, keys, expiries *)
(* and bounds: type correctness, an audit row for every deletion, the cap, *)
(* links that lead to an active fact, and summaries that claim no more     *)
(* than their sources.  Each has its own inductive invariant.              *)
(***************************************************************************)
EXTENDS FactStore, FiniteSetTheorems, TLAPS

\* The summary of a call is written in its last step, once.
Written == Note \cup {c \in Compaction : step[c] = "over"}

Fresh ==
    /\ facts \subseteq Written
    /\ \A c \in Compaction : chosen[c] \subseteq Written /\ covers[c] \subseteq Written
    /\ \A c \in Compaction : step[c] = "selected" => chosen[c] # {}

AbsentLinkNothing == \A f \in Fact \ facts : link[f] = None

\* What a run has deleted and what it still may.
Work(r) == gone[r] + Cardinality(expired[r]) + Cardinality(twins[r])

\* Run r is where it was.
Unmoved(r) ==
    /\ stage'[r] = stage[r] /\ gone'[r] = gone[r] /\ total'[r] = total[r]
    /\ expired'[r] = expired[r] /\ twins'[r] = twins[r]

Share ==
    \A r \in Run :
        /\ IsFiniteSet(expired[r]) /\ IsFiniteSet(twins[r])
        /\ stage[r] # "deleting" => gone[r] = 0 /\ total[r] = 0
        /\ total[r] > 0 => Work(r) * CapDen <= CapNum * total[r]

FactInv ==
    /\ TypeOK
    /\ Fresh
    /\ AbsentLinkNothing
    /\ CompactedIsReachable
    /\ SummaryClaimsNoMore

-----------------------------------------------------------------------------
LEMMA IdsAreApart ==
    /\ Note \subseteq Fact /\ Compaction \subseteq Fact
    /\ \A c \in Compaction : c \notin Note
    /\ None \notin Fact
BY FactStoreAssumption DEF Fact

LEMMA TierType == ASSUME TypeOK, NEW f \in Fact PROVE TierOf(f) \in 0..3
BY FactStoreAssumption DEF TypeOK, TierOf, Fact

\* Four tiers: a set that is not empty has a weakest one.
LEMMA WeakestBounds ==
    ASSUME TypeOK, NEW S \in SUBSET Fact, S # {}
    PROVE  /\ Weakest(S) \in 0..3
           /\ \A f \in S : TierOf(f) <= Weakest(S)
<1> DEFINE Top(t) == /\ \E f \in S : TierOf(f) = t
                     /\ \A f \in S : TierOf(f) <= t
<1>1. \A f \in S : TierOf(f) \in {0, 1, 2, 3}
  BY TierType
<1>2. \E t \in 0..3 : Top(t)
  <2>1. CASE \E f \in S : TierOf(f) = 3
    <3>1. Top(3)
      BY <1>1, <2>1
    <3> QED BY <3>1
  <2>2. CASE (\E f \in S : TierOf(f) = 2) /\ ~ \E f \in S : TierOf(f) = 3
    <3>1. Top(2)
      BY <1>1, <2>2
    <3> QED BY <3>1
  <2>3. CASE (\E f \in S : TierOf(f) = 1) /\ ~ \E f \in S : TierOf(f) \in {2, 3}
    <3>1. Top(1)
      BY <1>1, <2>3
    <3> QED BY <3>1
  <2>4. CASE ~ \E f \in S : TierOf(f) \in {1, 2, 3}
    <3>1. Top(0)
      BY <1>1, <2>4
    <3> QED BY <3>1
  <2> QED BY <2>1, <2>2, <2>3, <2>4
<1>3. Top(Weakest(S)) /\ Weakest(S) \in 0..3
  BY <1>2 DEF Weakest
<1> QED BY <1>3

-----------------------------------------------------------------------------
(* Type correctness. *)

LEMMA InitTypeOK == Init => TypeOK
BY FactStoreAssumption DEF Init, TypeOK

LEMMA WriteKeepsType ==
    ASSUME TypeOK, NEW n \in Note, NEW s \in Fact \cup {None}, Write(n, s)
    PROVE  TypeOK'
BY IdsAreApart, FactStoreAssumption DEF TypeOK, Write, table, hygiene, compaction

LEMMA DeleteKeepsType ==
    ASSUME TypeOK, NEW r \in Run, NEW f \in Fact, DeleteAndAudit(r, f),
           expired' \in [Run -> SUBSET Fact],
           twins' \in [Run -> SUBSET (Note \X Note)]
    PROVE  TypeOK'
BY DEF TypeOK, DeleteAndAudit, AuditRow, compaction

LEMMA ReturnKeepsType ==
    ASSUME TypeOK, NEW r \in Run, Return(r), alerts' \in SUBSET Run
    PROVE  TypeOK'
BY DEF TypeOK, Return, table, compaction

LEMMA SummariseKeepsType ==
    ASSUME TypeOK, NEW c \in Compaction, Summarise(c), chosen[c] # {}
    PROVE  TypeOK'
<1>1. Weakest(chosen[c]) \in 0..3
  BY WeakestBounds DEF TypeOK
<1>2. c \in Fact
  BY IdsAreApart
<1> QED BY <1>1, <1>2 DEF TypeOK, Summarise, hygiene

LEMMA TwinsAreNotes ==
    ASSUME TypeOK, NEW T \in SUBSET Note, NEW H \in SUBSET T
    PROVE  Pairs(T, H) \in SUBSET (Note \X Note)
BY DEF Pairs

LEMMA StepKeepsType ==
    ASSUME TypeOK, \A c \in Compaction : step[c] = "selected" => chosen[c] # {}, [Next]_vars
    PROVE  TypeOK'
<1>1. CASE Tick
  BY <1>1 DEF TypeOK, Tick, hygiene, compaction
<1>2. ASSUME NEW n \in Note, NEW s \in Fact \cup {None}, Write(n, s) PROVE TypeOK'
  BY <1>2, WriteKeepsType
<1>3. ASSUME NEW r \in Run, FindExpired(r) PROVE TypeOK'
  BY <1>3 DEF TypeOK, FindExpired, OldestOf, table, compaction
<1>4. ASSUME NEW r \in Run, FindDuplicates(r) PROVE TypeOK'
  <2>1. PICK T \in NewestOf(Keyed(at[r])) : \E H \in HeadsOf(T) :
             twins' = [twins EXCEPT ![r] = Pairs(T, H)]
    BY <1>4 DEF FindDuplicates
  <2>2. PICK H \in HeadsOf(T) : twins' = [twins EXCEPT ![r] = Pairs(T, H)]
    BY <2>1
  <2>3. T \subseteq Note /\ H \subseteq T
    BY DEF NewestOf, Keyed, HeadsOf
  <2>4. twins' \in [Run -> SUBSET (Note \X Note)]
    BY <2>2, <2>3, TwinsAreNotes DEF TypeOK
  <2> QED BY <1>4, <2>4 DEF TypeOK, FindDuplicates, table, compaction
<1>5. ASSUME NEW r \in Run, Cap(r) PROVE TypeOK'
  BY <1>5, ReturnKeepsType DEF TypeOK, Cap
<1>6. ASSUME NEW r \in Run, Proceed(r) PROVE TypeOK'
  <2>1. IsFiniteSet(facts)
    BY FactStoreAssumption, FS_Union, FS_Subset DEF TypeOK, Fact
  <2>2. Cardinality(facts) \in Nat
    BY <2>1, FS_CardinalityType
  <2> QED BY <1>6, <2>2 DEF TypeOK, Proceed, table, compaction
<1>7. ASSUME NEW r \in Run, NEW f \in expired[r], Expire(r, f) PROVE TypeOK'
  <2>1. f \in Fact
    BY DEF TypeOK
  <2>2. expired' \in [Run -> SUBSET Fact] /\ twins' \in [Run -> SUBSET (Note \X Note)]
    BY <1>7 DEF TypeOK, Expire
  <2> QED BY <1>7, <2>1, <2>2, DeleteKeepsType DEF Expire
<1>8. ASSUME NEW r \in Run, NEW p \in twins[r], CompactDuplicate(r, p) PROVE TypeOK'
  <2>1. p[2] \in Fact
    BY IdsAreApart DEF TypeOK
  <2>2. expired' \in [Run -> SUBSET Fact] /\ twins' \in [Run -> SUBSET (Note \X Note)]
    BY <1>8 DEF TypeOK, CompactDuplicate
  <2> QED BY <1>8, <2>1, <2>2, DeleteKeepsType DEF CompactDuplicate
<1>9. ASSUME NEW r \in Run, Stop(r) PROVE TypeOK'
  BY <1>9, ReturnKeepsType DEF TypeOK, Stop
<1>10. ASSUME NEW c \in Compaction, NEW D \in SUBSET facts, Assemble(c, D) PROVE TypeOK'
  BY <1>10 DEF TypeOK, Assemble, table, hygiene
<1>11. ASSUME NEW c \in Compaction, Select(c) PROVE TypeOK'
  BY <1>11 DEF TypeOK, Select, table, hygiene
<1>12. ASSUME NEW c \in Compaction, Summarise(c) PROVE TypeOK'
  BY <1>12, SummariseKeepsType DEF Summarise
<1>13. ASSUME NEW c \in Compaction, GiveUp(c) PROVE TypeOK'
  BY <1>13 DEF TypeOK, GiveUp, table, hygiene
<1>14. CASE UNCHANGED vars
  BY <1>14 DEF TypeOK, vars, table, hygiene, compaction
<1> QED BY <1>1, <1>2, <1>3, <1>4, <1>5, <1>6, <1>7, <1>8, <1>9, <1>10, <1>11, <1>12,
           <1>13, <1>14 DEF Next

-----------------------------------------------------------------------------
(* The links. *)

\* A step that adds no row and keeps the links of those that stay.
LEMMA FewerFactsReachable ==
    ASSUME CompactedIsReachable, facts' \subseteq facts,
           \A f \in facts' : link'[f] = link[f] /\ link[f] \in facts' \cup {None}
    PROVE  CompactedIsReachable'
<1>1. ASSUME NEW X \in SUBSET facts', X # {} PROVE \E f \in X : link'[f] \notin X
  <2>1. PICK f \in X : link[f] \notin X
    BY <1>1 DEF CompactedIsReachable
  <2> QED BY <2>1
<1> QED BY <1>1 DEF CompactedIsReachable

\* A new row that names an old one: nobody names it yet, so it ends no chain
\* and closes no circle.
LEMMA WriteKeepsReachable ==
    ASSUME TypeOK, CompactedIsReachable, NEW n \in Note, NEW s \in Fact \cup {None},
           Write(n, s)
    PROVE  CompactedIsReachable'
<1>1. /\ n \in Fact /\ n \notin facts /\ n # None
      /\ facts' = facts \cup {n}
      /\ link'[n] = s /\ s \in facts \cup {None}
      /\ \A f \in facts : link'[f] = link[f] /\ link[f] # n
  BY IdsAreApart DEF Write, TypeOK, CompactedIsReachable
<1>2. \A f \in facts' : link'[f] \in facts' \cup {None}
  BY <1>1 DEF CompactedIsReachable
<1>3. ASSUME NEW X \in SUBSET facts', X # {} PROVE \E f \in X : link'[f] \notin X
  <2>1. CASE X = {n}
    BY <1>1, <2>1
  <2>2. CASE X # {n}
    <3>1. X \ {n} # {} /\ X \ {n} \subseteq facts
      BY <1>1, <1>3, <2>2
    <3>2. PICK f \in X \ {n} : link[f] \notin X \ {n}
      BY <3>1 DEF CompactedIsReachable
    <3> QED BY <1>1, <3>1, <3>2
  <2> QED BY <2>1, <2>2
<1> QED BY <1>2, <1>3 DEF CompactedIsReachable

\* A summary names nobody, and whoever now names it named nobody that matters.
LEMMA SummariseKeepsReachable ==
    ASSUME TypeOK, Fresh, AbsentLinkNothing, CompactedIsReachable,
           NEW c \in Compaction, Summarise(c)
    PROVE  CompactedIsReachable'
<1> DEFINE moved == chosen[c] \cap facts
<1>1. c \in Fact /\ c \notin facts /\ c # None
  BY IdsAreApart DEF Summarise, Fresh, Written
<1>2. /\ facts' = facts \cup {c}
      /\ link'[c] = None
      /\ \A f \in facts : link'[f] = IF f \in moved THEN c ELSE link[f]
  BY <1>1 DEF Summarise, TypeOK, AbsentLinkNothing
<1>3. \A f \in facts' : link'[f] \in facts' \cup {None}
  BY <1>2 DEF CompactedIsReachable
<1>4. ASSUME NEW X \in SUBSET facts', X # {} PROVE \E f \in X : link'[f] \notin X
  <2>1. CASE c \in X
    <3>1. None \notin X
      BY IdsAreApart, <1>1, <1>2 DEF TypeOK
    <3> QED BY <1>2, <2>1, <3>1
  <2>2. CASE c \notin X
    <3>1. X \subseteq facts
      BY <1>2, <2>2
    <3>2. CASE X \cap moved = {}
      <4>1. PICK f \in X : link[f] \notin X
        BY <1>4, <3>1 DEF CompactedIsReachable
      <4> QED BY <1>2, <3>1, <3>2, <4>1
    <3>3. CASE X \cap moved # {}
      BY <1>2, <2>2, <3>1, <3>3
    <3> QED BY <3>2, <3>3
  <2> QED BY <2>1, <2>2
<1> QED BY <1>3, <1>4 DEF CompactedIsReachable

\* What a deletion leaves: the foreign key saw that nobody names the row.
LEMMA DeleteKeepsLinks ==
    ASSUME TypeOK, AbsentLinkNothing, CompactedIsReachable,
           NEW r \in Run, NEW f \in Fact, DeleteAndAudit(r, f)
    PROVE  AbsentLinkNothing' /\ CompactedIsReachable'
<1>1. /\ facts' = facts \ {f}
      /\ link' = [link EXCEPT ![f] = None]
      /\ \A g \in facts : link[g] # f
  BY DEF DeleteAndAudit, Referenced
<1>2. AbsentLinkNothing'
  BY <1>1 DEF AbsentLinkNothing, TypeOK
<1>3. \A g \in facts' : link'[g] = link[g] /\ link[g] \in facts' \cup {None}
  BY <1>1 DEF TypeOK, CompactedIsReachable
<1>4. CompactedIsReachable'
  BY <1>1, <1>3, FewerFactsReachable
<1> QED BY <1>2, <1>4

-----------------------------------------------------------------------------
(* The invariant of the table. *)

LEMMA InitFactInv == Init => FactInv
<1> SUFFICES ASSUME Init PROVE FactInv
  OBVIOUS
<1>1. TypeOK
  BY InitTypeOK
<1>2. Fresh /\ AbsentLinkNothing /\ CompactedIsReachable /\ SummaryClaimsNoMore
  BY DEF Init, Fresh, Written, AbsentLinkNothing, CompactedIsReachable, SummaryClaimsNoMore
<1> QED BY <1>1, <1>2 DEF FactInv

\* Nothing about the summaries moves unless one is written.
LEMMA ClaimsUnmoved ==
    ASSUME SummaryClaimsNoMore, UNCHANGED <<covers, rank, dirty>>
    PROVE  SummaryClaimsNoMore'
BY DEF SummaryClaimsNoMore, IsTainted, TierOf

LEMMA SummariseKeepsClaims ==
    ASSUME TypeOK, Fresh, SummaryClaimsNoMore, NEW c \in Compaction, Summarise(c)
    PROVE  SummaryClaimsNoMore'
<1>1. /\ chosen[c] \in SUBSET Fact /\ chosen[c] # {}
      /\ c \notin Note /\ c \notin Written
  BY IdsAreApart DEF Summarise, Fresh, Written, TypeOK
<1>2. /\ rank' = [rank EXCEPT ![c] = Weakest(chosen[c])]
      /\ dirty' = IF TaintOf(chosen[c]) THEN dirty \cup {c} ELSE dirty
      /\ covers' = [covers EXCEPT ![c] = chosen[c]]
  BY DEF Summarise
<1>3. \A f \in Written : TierOf(f)' = TierOf(f) /\ (IsTainted(f)' <=> IsTainted(f))
  <2> SUFFICES ASSUME NEW f \in Written
               PROVE  TierOf(f)' = TierOf(f) /\ (IsTainted(f)' <=> IsTainted(f))
    OBVIOUS
  <2>1. f # c /\ (f \in Note \/ f \in Compaction)
    BY <1>1 DEF Written
  <2> QED BY <1>2, <2>1 DEF TierOf, IsTainted, TypeOK
<1>4. ASSUME NEW f \in chosen[c]
      PROVE  (IsTainted(f)' => IsTainted(c)') /\ TierOf(f)' <= TierOf(c)'
  <2>1. f \in Written
    BY DEF Fresh
  <2>2. TierOf(c)' = Weakest(chosen[c])
    BY <1>1, <1>2 DEF TierOf, TypeOK
  <2>3. TierOf(f) <= Weakest(chosen[c])
    BY <1>1, WeakestBounds
  <2>4. IsTainted(f) => IsTainted(c)'
    BY <1>2 DEF IsTainted, TaintOf
  <2> QED BY <1>3, <2>1, <2>2, <2>3, <2>4
<1>5. ASSUME NEW d \in Compaction, d # c, NEW f \in covers[d]
      PROVE  (IsTainted(f)' => IsTainted(d)') /\ TierOf(f)' <= TierOf(d)'
  <2>1. f \in Written
    BY DEF Fresh
  <2>2. (IsTainted(f) => IsTainted(d)) /\ TierOf(f) <= TierOf(d)
    BY DEF SummaryClaimsNoMore
  <2>3. TierOf(d)' = TierOf(d) /\ (IsTainted(d)' <=> IsTainted(d))
    BY <1>2, <1>5, IdsAreApart DEF TierOf, IsTainted, TypeOK
  <2> QED BY <1>3, <2>1, <2>2, <2>3
<1>6. \A d \in Compaction : covers'[d] = IF d = c THEN chosen[c] ELSE covers[d]
  BY <1>2 DEF TypeOK
<1> QED BY <1>4, <1>5, <1>6 DEF SummaryClaimsNoMore

LEMMA StepKeepsFactInv == FactInv /\ [Next]_vars => FactInv'
<1> SUFFICES ASSUME FactInv, [Next]_vars PROVE FactInv'
  OBVIOUS
<1>0. TypeOK /\ Fresh /\ AbsentLinkNothing /\ CompactedIsReachable /\ SummaryClaimsNoMore
  BY DEF FactInv
<1>t. TypeOK'
  BY <1>0, StepKeepsType DEF Fresh
<1>1. ASSUME NEW n \in Note, NEW s \in Fact \cup {None}, Write(n, s) PROVE FactInv'
  <2>1. Fresh'
    BY <1>0, <1>1 DEF Write, Fresh, Written, hygiene, compaction
  <2>2. AbsentLinkNothing'
    BY <1>0, <1>1, IdsAreApart DEF Write, AbsentLinkNothing, TypeOK
  <2>3. CompactedIsReachable'
    BY <1>0, <1>1, WriteKeepsReachable
  <2>4. SummaryClaimsNoMore'
    BY <1>0, <1>1, ClaimsUnmoved DEF Write, compaction
  <2> QED BY <1>t, <2>1, <2>2, <2>3, <2>4 DEF FactInv
<1>2. ASSUME UNCHANGED <<facts, link, dirty, rank, step, chosen, covers>> PROVE FactInv'
  BY <1>0, <1>t, <1>2 DEF FactInv, Fresh, Written, AbsentLinkNothing, CompactedIsReachable,
       SummaryClaimsNoMore, IsTainted, TierOf
<1>3. ASSUME NEW r \in Run, NEW f \in Fact, DeleteAndAudit(r, f) PROVE FactInv'
  <2>1. Fresh'
    BY <1>0, <1>3 DEF DeleteAndAudit, Fresh, Written, compaction
  <2>2. AbsentLinkNothing' /\ CompactedIsReachable'
    BY <1>0, <1>3, DeleteKeepsLinks
  <2>3. SummaryClaimsNoMore'
    BY <1>0, <1>3, ClaimsUnmoved DEF DeleteAndAudit, compaction
  <2> QED BY <1>t, <2>1, <2>2, <2>3 DEF FactInv
<1>4. ASSUME NEW c \in Compaction, UNCHANGED <<table, covers>>, step[c] # "over",
             \E S \in SUBSET Written, p \in {"assembled", "selected", "over"} :
                /\ chosen' = [chosen EXCEPT ![c] = S]
                /\ step' = [step EXCEPT ![c] = p]
                /\ p = "selected" => S # {}
      PROVE  FactInv'
  <2>1. PICK S \in SUBSET Written, p \in {"assembled", "selected", "over"} :
                /\ chosen' = [chosen EXCEPT ![c] = S]
                /\ step' = [step EXCEPT ![c] = p]
                /\ p = "selected" => S # {}
    BY <1>4
  <2>2. Written \subseteq Written'
    BY <1>0, <1>4, <2>1 DEF Written, TypeOK
  <2>3. \A d \in Compaction : chosen'[d] = IF d = c THEN S ELSE chosen[d]
    BY <1>0, <2>1 DEF TypeOK
  <2>4. \A d \in Compaction : step'[d] = IF d = c THEN p ELSE step[d]
    BY <1>0, <2>1 DEF TypeOK
  <2>5. Fresh'
    <3>1. facts' \subseteq Written'
      BY <1>0, <1>4, <2>2 DEF Fresh, table
    <3>2. \A d \in Compaction : chosen'[d] \subseteq Written' /\ covers'[d] \subseteq Written'
      BY <1>0, <1>4, <2>2, <2>3 DEF Fresh
    <3>3. \A d \in Compaction : step'[d] = "selected" => chosen'[d] # {}
      BY <1>0, <2>1, <2>3, <2>4 DEF Fresh
    <3> QED BY <3>1, <3>2, <3>3 DEF Fresh
  <2>6. AbsentLinkNothing' /\ CompactedIsReachable' /\ SummaryClaimsNoMore'
    BY <1>0, <1>4 DEF AbsentLinkNothing, CompactedIsReachable, SummaryClaimsNoMore,
         IsTainted, TierOf, table
  <2> QED BY <1>t, <2>5, <2>6 DEF FactInv
<1>5. ASSUME NEW c \in Compaction, Summarise(c) PROVE FactInv'
  <2>1. \A d \in Compaction : /\ chosen'[d] = IF d = c THEN {} ELSE chosen[d]
                              /\ covers'[d] = IF d = c THEN chosen[c] ELSE covers[d]
                              /\ step'[d] = IF d = c THEN "over" ELSE step[d]
    BY <1>0, <1>5 DEF Summarise, TypeOK
  <2>2. Written' = Written \cup {c}
    BY <2>1 DEF Written
  <2>3. Fresh'
    BY <1>0, <1>5, <2>1, <2>2 DEF Summarise, Fresh
  <2>4. AbsentLinkNothing'
    BY <1>0, <1>5 DEF Summarise, AbsentLinkNothing
  <2>5. CompactedIsReachable'
    BY <1>0, <1>5, SummariseKeepsReachable
  <2>6. SummaryClaimsNoMore'
    BY <1>0, <1>5, SummariseKeepsClaims
  <2> QED BY <1>t, <2>3, <2>4, <2>5, <2>6 DEF FactInv
<1>6. ASSUME NEW r \in Run,
             FindExpired(r) \/ FindDuplicates(r) \/ Cap(r) \/ Proceed(r) \/ Stop(r)
      PROVE  FactInv'
  BY <1>2, <1>6 DEF FindExpired, FindDuplicates, Cap, Proceed, Stop, Return, table, compaction
<1>7. ASSUME NEW r \in Run, NEW f \in expired[r], Expire(r, f) PROVE FactInv'
  <2>1. f \in Fact
    BY <1>0 DEF TypeOK
  <2> QED BY <1>3, <1>7, <2>1 DEF Expire
<1>8. ASSUME NEW r \in Run, NEW p \in twins[r], CompactDuplicate(r, p) PROVE FactInv'
  <2>1. p[2] \in Fact
    BY <1>0, IdsAreApart DEF TypeOK
  <2> QED BY <1>3, <1>8, <2>1 DEF CompactDuplicate
<1>9. ASSUME NEW c \in Compaction, NEW D \in SUBSET facts, Assemble(c, D) PROVE FactInv'
  <2>1. D \subseteq Written
    BY <1>0 DEF Fresh
  <2> QED BY <1>4, <1>9, <2>1 DEF Assemble
<1>10. ASSUME NEW c \in Compaction, Select(c) PROVE FactInv'
  <2>1. chosen[c] \cap Active \subseteq Written
    BY <1>0 DEF Fresh
  <2>2. chosen' = [chosen EXCEPT ![c] = chosen[c] \cap Active]
    BY <1>10 DEF Select
  <2>3. PICK p \in {"selected", "over"} :
           step' = [step EXCEPT ![c] = p] /\ (p = "selected" => chosen[c] \cap Active # {})
    BY <1>10 DEF Select
  <2> QED BY <1>4, <1>10, <2>1, <2>2, <2>3 DEF Select
<1>11. ASSUME NEW c \in Compaction, GiveUp(c) PROVE FactInv'
  BY <1>4, <1>11 DEF GiveUp
<1>12. CASE Tick
  BY <1>2, <1>12 DEF Tick, compaction
<1>13. CASE UNCHANGED vars
  BY <1>2, <1>13 DEF vars, table, compaction
<1> QED BY <1>1, <1>5, <1>6, <1>7, <1>8, <1>9, <1>10, <1>11, <1>12, <1>13 DEF Next

-----------------------------------------------------------------------------
(* Audit rows. *)

LEMMA StepKeepsAudited ==
    TypeOK /\ DeletionsAreAudited /\ [Next]_vars => DeletionsAreAudited'
<1> SUFFICES ASSUME TypeOK, DeletionsAreAudited, [Next]_vars PROVE DeletionsAreAudited'
  OBVIOUS
<1>1. CASE UNCHANGED <<removed, audits>>
  BY <1>1 DEF DeletionsAreAudited
<1>2. ASSUME NEW r \in Run, NEW f \in Fact, DeleteAndAudit(r, f) PROVE DeletionsAreAudited'
  <2>1. \A g \in Fact : removed[g] \in Nat /\ audits[g] \in Nat /\ removed[g] <= audits[g]
    BY DEF TypeOK, DeletionsAreAudited
  <2>2. \A g \in Fact : audits'[g] = IF g = f THEN audits[g] + 1 ELSE audits[g]
    BY <1>2 DEF DeleteAndAudit, AuditRow, TypeOK
  <2>3. \A g \in Fact : \/ removed'[g] = removed[g]
                        \/ g = f /\ removed'[g] = removed[g] + 1
    <3>1. CASE f \in facts
      <4>1. removed' = [removed EXCEPT ![f] = removed[f] + 1]
        BY <1>2, <3>1 DEF DeleteAndAudit
      <4> QED BY <4>1 DEF TypeOK
    <3>2. CASE f \notin facts
      BY <1>2, <3>2 DEF DeleteAndAudit
    <3> QED BY <3>1, <3>2
  <2> QED BY <2>1, <2>2, <2>3 DEF DeletionsAreAudited
<1>3. ASSUME NEW r \in Run, NEW f \in expired[r], Expire(r, f) PROVE DeletionsAreAudited'
  BY <1>2, <1>3 DEF TypeOK, Expire
<1>4. ASSUME NEW r \in Run, NEW p \in twins[r], CompactDuplicate(r, p)
      PROVE  DeletionsAreAudited'
  BY <1>2, <1>4, IdsAreApart DEF TypeOK, CompactDuplicate
<1> QED BY <1>1, <1>3, <1>4 DEF Next, Tick, Write, FindExpired, FindDuplicates, Cap, Proceed,
        Stop, Return, Assemble, Select, Summarise, GiveUp, vars, table

-----------------------------------------------------------------------------
(* The cap. *)

LEMMA FiniteFacts ==
    /\ IsFiniteSet(Fact)
    /\ \A S \in SUBSET Fact : IsFiniteSet(S)
    /\ \A S \in SUBSET (Note \X Note) : IsFiniteSet(S)
<1>1. IsFiniteSet(Fact)
  BY FactStoreAssumption, FS_Union DEF Fact
<1>2. IsFiniteSet(Note \X Note)
  BY FactStoreAssumption, FS_Product
<1> QED BY <1>1, <1>2, FS_Subset

LEMMA SmallerProduct ==
    ASSUME NEW a \in Nat, NEW b \in Nat, a <= b, NEW d \in Nat
    PROVE  a * d <= b * d
<1>1. PICK k \in Nat : b = a + k
  <2>1. b - a \in Nat /\ b = a + (b - a)
    OBVIOUS
  <2> QED BY <2>1
<1>2. b * d = a * d + k * d /\ k * d \in Nat /\ a * d \in Nat
  BY <1>1
<1> QED BY <1>2

\* What one run may still do when only run r moved.
LEMMA ShareOfOne ==
    ASSUME TypeOK, TypeOK', Share, NEW r \in Run,
           \A q \in Run \ {r} : Unmoved(q),
           stage'[r] # "deleting" => gone'[r] = 0 /\ total'[r] = 0,
           total'[r] > 0 => Work(r)' * CapDen <= CapNum * total'[r]
    PROVE  Share'
<1>1. \A q \in Run : IsFiniteSet(expired'[q]) /\ IsFiniteSet(twins'[q])
  BY FiniteFacts DEF TypeOK
<1>2. \A q \in Run \ {r} : Work(q)' = Work(q)
  BY DEF Work, Unmoved
<1> QED BY <1>1, <1>2 DEF Share, Unmoved

\* A deletion is taken from the work left, and counts once or not at all.
LEMMA DeletionKeepsShare ==
    ASSUME TypeOK, TypeOK', Share, NEW r \in Run, NEW f, DeleteAndAudit(r, f),
           stage[r] = "deleting",
           \/ \E x \in expired[r] : expired' = [expired EXCEPT ![r] = @ \ {x}] /\ twins' = twins
           \/ \E x \in twins[r] : twins' = [twins EXCEPT ![r] = @ \ {x}] /\ expired' = expired
    PROVE  Share'
<1>1. /\ IsFiniteSet(expired[r]) /\ Cardinality(expired[r]) \in Nat
      /\ IsFiniteSet(twins[r]) /\ Cardinality(twins[r]) \in Nat
  BY FS_CardinalityType DEF Share
<1>2. Cardinality(expired[r])' + Cardinality(twins[r])' + 1
         = Cardinality(expired[r]) + Cardinality(twins[r])
  <2>1. CASE \E x \in expired[r] :
                expired' = [expired EXCEPT ![r] = @ \ {x}] /\ twins' = twins
    <3>1. PICK x \in expired[r] : expired'[r] = expired[r] \ {x} /\ twins' = twins
      BY <2>1 DEF TypeOK
    <3>2. Cardinality(expired[r] \ {x}) = Cardinality(expired[r]) - 1
      BY <1>1, FS_RemoveElement
    <3> QED BY <1>1, <3>1, <3>2
  <2>2. CASE \E x \in twins[r] :
                twins' = [twins EXCEPT ![r] = @ \ {x}] /\ expired' = expired
    <3>1. PICK x \in twins[r] : twins'[r] = twins[r] \ {x} /\ expired' = expired
      BY <2>2 DEF TypeOK
    <3>2. Cardinality(twins[r] \ {x}) = Cardinality(twins[r]) - 1
      BY <1>1, FS_RemoveElement
    <3> QED BY <1>1, <3>1, <3>2
  <2> QED BY <2>1, <2>2
<1>3. gone[r] \in Nat /\ gone'[r] \in Nat /\ gone'[r] <= gone[r] + 1 /\ total[r] \in Nat
  BY DEF DeleteAndAudit, TypeOK
<1>4. /\ Cardinality(expired[r])' \in Nat
      /\ Cardinality(twins[r])' \in Nat
  BY FiniteFacts, FS_CardinalityType DEF TypeOK
<1>5. Work(r) \in Nat /\ Work(r)' \in Nat /\ Work(r)' <= Work(r)
  BY <1>1, <1>2, <1>3, <1>4 DEF Work
<1>6. Work(r)' * CapDen <= Work(r) * CapDen
  BY <1>5, SmallerProduct, FactStoreAssumption
<1>7. total'[r] > 0 => Work(r)' * CapDen <= CapNum * total'[r]
  <2> SUFFICES ASSUME total'[r] > 0 PROVE Work(r)' * CapDen <= CapNum * total'[r]
    OBVIOUS
  <2>1. total'[r] = total[r]
    BY DEF DeleteAndAudit
  <2>2. Work(r) * CapDen <= CapNum * total[r]
    BY <2>1 DEF Share
  <2>3. /\ Work(r)' * CapDen \in Nat /\ Work(r) * CapDen \in Nat
        /\ CapNum * total[r] \in Nat
    BY <1>3, <1>5, FactStoreAssumption
  <2> QED BY <1>6, <2>1, <2>2, <2>3
<1>8. \A q \in Run \ {r} : Unmoved(q)
  BY DEF DeleteAndAudit, TypeOK, Unmoved
<1>9. stage'[r] = "deleting"
  BY DEF DeleteAndAudit
<1> QED BY <1>7, <1>8, <1>9, ShareOfOne

LEMMA InitShare == Init => Share
BY FS_EmptySet DEF Init, Share

LEMMA StepKeepsShare == TypeOK /\ TypeOK' /\ Share /\ [Next]_vars => Share'
<1> SUFFICES ASSUME TypeOK, TypeOK', Share, [Next]_vars PROVE Share'
  OBVIOUS
<1>1. CASE UNCHANGED hygiene
  BY <1>1 DEF Share, Work, hygiene
<1>2. ASSUME NEW r \in Run, FindExpired(r) \/ FindDuplicates(r) PROVE Share'
  <2>1. stage[r] # "deleting" /\ stage'[r] # "deleting" /\ gone' = gone /\ total' = total
    BY <1>2 DEF FindExpired, FindDuplicates, TypeOK
  <2>2. gone'[r] = 0 /\ total'[r] = 0
    BY <2>1 DEF Share
  <2>3. \A q \in Run \ {r} : Unmoved(q)
    BY <1>2, <2>1 DEF FindExpired, FindDuplicates, TypeOK, Unmoved
  <2> QED BY <2>1, <2>2, <2>3, ShareOfOne
<1>3. ASSUME NEW r \in Run, Return(r) PROVE Share'
  <2>1. stage'[r] # "deleting" /\ gone'[r] = 0 /\ total'[r] = 0
    BY <1>3 DEF Return, TypeOK
  <2>2. \A q \in Run \ {r} : Unmoved(q)
    BY <1>3 DEF Return, TypeOK, Unmoved
  <2> QED BY <2>1, <2>2, ShareOfOne
<1>4. ASSUME NEW r \in Run, Proceed(r) PROVE Share'
  <2>1. /\ stage'[r] = "deleting" /\ total'[r] = Cardinality(facts)
        /\ gone' = gone /\ expired' = expired /\ twins' = twins /\ gone[r] = 0
    BY <1>4 DEF Proceed, TypeOK, Share
  <2>2. /\ Cardinality(facts) \in Nat
        /\ Cardinality(expired[r]) \in Nat /\ Cardinality(twins[r]) \in Nat
    BY FiniteFacts, FS_CardinalityType DEF TypeOK
  <2>3. total'[r] > 0 => Work(r)' * CapDen <= CapNum * total'[r]
    <3> SUFFICES ASSUME total'[r] > 0 PROVE Work(r)' * CapDen <= CapNum * total'[r]
      OBVIOUS
    <3>1. facts # {}
      BY <2>1, FS_EmptySet
    <3>2. ~ (Candidates(r) * CapDen > CapNum * Cardinality(facts))
      BY <1>4, <3>1 DEF Proceed, OverCap
    <3>3. Work(r)' = Candidates(r) /\ Candidates(r) \in Nat
      BY <2>1, <2>2 DEF Work, Candidates
    <3>4. Candidates(r) * CapDen \in Nat /\ CapNum * Cardinality(facts) \in Nat
      BY <2>2, <3>3, FactStoreAssumption
    <3> QED BY <2>1, <3>2, <3>3, <3>4
  <2>4. \A q \in Run \ {r} : Unmoved(q)
    BY <1>4, <2>1 DEF Proceed, TypeOK, Unmoved
  <2> QED BY <2>1, <2>3, <2>4, ShareOfOne
<1>5. ASSUME NEW r \in Run, NEW f \in expired[r], Expire(r, f) PROVE Share'
  BY <1>5, DeletionKeepsShare DEF Expire
<1>6. ASSUME NEW r \in Run, NEW p \in twins[r], CompactDuplicate(r, p) PROVE Share'
  BY <1>6, DeletionKeepsShare DEF CompactDuplicate
<1> QED BY <1>1, <1>2, <1>3, <1>4, <1>5, <1>6 DEF Next, Tick, Write, Cap, Stop, Assemble,
        Select, Summarise, GiveUp, vars

LEMMA ShareCaps == TypeOK /\ Share => CapHolds
<1> SUFFICES ASSUME TypeOK, Share, NEW r \in Run, total[r] > 0
             PROVE  gone[r] * CapDen <= CapNum * total[r]
  BY DEF CapHolds
<1>1. /\ gone[r] \in Nat /\ total[r] \in Nat
      /\ Cardinality(expired[r]) \in Nat /\ Cardinality(twins[r]) \in Nat
  BY FS_CardinalityType DEF TypeOK, Share
<1>2. Work(r) \in Nat /\ gone[r] <= Work(r)
  BY <1>1 DEF Work
<1>3. gone[r] * CapDen <= Work(r) * CapDen
  BY <1>1, <1>2, SmallerProduct, FactStoreAssumption
<1>4. Work(r) * CapDen <= CapNum * total[r]
  BY DEF Share
<1>5. gone[r] * CapDen \in Nat /\ Work(r) * CapDen \in Nat /\ CapNum * total[r] \in Nat
  BY <1>1, <1>2, FactStoreAssumption
<1> QED BY <1>3, <1>4, <1>5

-----------------------------------------------------------------------------
\* The invariant of the table holds in every reachable state.
THEOREM FactInvariant == Spec => []FactInv
<1>1. Init => FactInv
  BY InitFactInv
<1>2. FactInv /\ [Next]_vars => FactInv'
  BY StepKeepsFactInv
<1> QED BY <1>1, <1>2, PTL DEF Spec

\* Whatever is written, read, deleted and summarised, the store is well typed.
THEOREM FactsTyped == Spec => []TypeOK
<1>1. FactInv => TypeOK
  BY DEF FactInv
<1> QED BY <1>1, FactInvariant, PTL

\* No deletion without its audit row, for any number of runs.
THEOREM NoDeletionUnaudited == Spec => []DeletionsAreAudited
<1>1. Init => DeletionsAreAudited
  BY DEF Init, DeletionsAreAudited
<1>2. TypeOK /\ DeletionsAreAudited /\ [Next]_vars => DeletionsAreAudited'
  BY StepKeepsAudited
<1> QED BY <1>1, <1>2, FactsTyped, PTL DEF Spec

\* No run deletes more than its share, for any table, any fraction and any
\* number of runs at once.
THEOREM NoRunOverItsCap == Spec => []CapHolds
<1>1. Init => Share
  BY InitShare
<1>2. TypeOK /\ TypeOK' /\ Share /\ [Next]_vars => Share'
  BY StepKeepsShare
<1>3. TypeOK /\ Share => CapHolds
  BY ShareCaps
<1> QED BY <1>1, <1>2, <1>3, FactsTyped, PTL DEF Spec

\* Nothing compacted is out of reach: every chain of superseded_by ends in a
\* fact that search returns.
THEOREM ChainsEndInTheActive == Spec => []CompactedIsReachable
<1>1. FactInv => CompactedIsReachable
  BY DEF FactInv
<1> QED BY <1>1, FactInvariant, PTL

\* Taint and low authority survive any number of compactions.
THEOREM SummariesInherit == Spec => []SummaryClaimsNoMore
<1>1. FactInv => SummaryClaimsNoMore
  BY DEF FactInv
<1> QED BY <1>1, FactInvariant, PTL

=============================================================================
