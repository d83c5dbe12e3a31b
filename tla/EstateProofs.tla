---------------------------- MODULE EstateProofs ----------------------------
(***************************************************************************)
(* The stores and their readers - the migrations, the bridge from the old  *)
(* memory, the task history, the two records of a conversation - and the   *)
(* media seam of the door keep what they promise, for every value of their *)
(* constants; and what every part promises by itself holds of the estate   *)
(* they make up together.                                                  *)
(*                                                                         *)
(* Every section is laid out alike: the inductive invariant in named       *)
(* parts, the lemmas its steps share, one lemma per action, and the        *)
(* theorems.                                                               *)
(***************************************************************************)
EXTENDS Estate, ModelRouterProofs, OperationsProofs, FunctionTheorems

-----------------------------------------------------------------------------
(* The migrations. MigratorInv is what one run may rely on: everything     *)
(* before its next file has been applied, the name it holds is free and    *)
(* held by nobody else, and what was applied behind its back was applied   *)
(* by a run that crossed it.                                               *)

Seen(m) == migrator[m].known \cup {f \in 1..Files : f < migrator[m].next}

MigratorInv(m) ==
    /\ migrator[m].next \in 1..(Files + 1)
    /\ migrator[m].known \subseteq applied
    /\ migrator[m].stage # "failed" => \A f \in 1..Files : f < migrator[m].next => f \in applied
    /\ migrator[m].stage = "done" => migrator[m].next = Files + 1
    /\ migrator[m].stage = "idle" => ~migrator[m].held /\ migrator[m].next = 1
    /\ migrator[m].held => migrator[m].next <= Files /\ migrator[m].next \notin applied
    /\ migrator[m].stage = "applying" => applied \subseteq Seen(m) \/ crossed
    /\ migrator[m].stage = "failed" => migrateFaults > 0 \/ crossed

NamesAreHeldOnce ==
    \A m, o \in Migrator :
        migrator[m].held /\ migrator[o].held /\ migrator[m].next = migrator[o].next => m = o

MigrateInv ==
    /\ MigrateTypeOK
    /\ AppliedInOrderOnce
    /\ NamesAreHeldOnce
    /\ \A m \in Migrator : MigratorInv(m)

-----------------------------------------------------------------------------
LEMMA InitMigrate == MigrateInit => MigrateInv
<1> SUFFICES ASSUME MigrateInit PROVE MigrateInv
    OBVIOUS
<1> USE MigrationAssumption
<1>0. PICK n \in 0..Files : applied = 1..n
    BY DEF MigrateInit
<1>1. MigrateTypeOK
  <2>1. runs \in [1..Files -> Nat] /\ applied \subseteq 1..Files
      BY <1>0 DEF MigrateInit
  <2>2. \A m \in Migrator : migrator[m] = [stage |-> "idle", known |-> {}, next |-> 1,
                                          held |-> FALSE]
      BY DEF MigrateInit
  <2>3. migrator \in [Migrator -> MigratorState]
      BY DEF MigrateInit, MigratorState
  <2>4. \A m \in Migrator : migrator[m].next <= Files + 1 /\ migrator[m].held = FALSE
      BY <2>2
  <2>5. crossed \in BOOLEAN /\ migrateFaults \in 0..MaxMigrateFaults
    <3>1. crossed \in BOOLEAN
        BY DEF MigrateInit
    <3>2. migrateFaults = 0
        BY DEF MigrateInit
    <3>3. migrateFaults \in 0..MaxMigrateFaults
        BY <3>2
    <3> QED BY <3>1, <3>3
  <2> QED BY <2>1, <2>3, <2>4, <2>5 DEF MigrateTypeOK
<1>2. AppliedInOrderOnce
    BY <1>0 DEF MigrateInit, AppliedInOrderOnce
<1>3. NamesAreHeldOnce
    BY DEF MigrateInit, NamesAreHeldOnce
<1>4. \A m \in Migrator : MigratorInv(m)
    BY DEF MigrateInit, MigratorInv
<1> QED BY <1>1, <1>2, <1>3, <1>4 DEF MigrateInv

\* A run that only moves itself, without applying anything, keeps what every
\* other run relies on.
LEMMA OthersStand ==
    ASSUME MigrateInv, NEW m \in Migrator, NEW s,
           Migrates(m, s), applied' = applied, runs' = runs, crossed' = crossed,
           migrateFaults' \in Nat, migrateFaults' >= migrateFaults
    PROVE  /\ migrator'[m] = s
           /\ \A o \in Migrator \ {m} : migrator'[o] = migrator[o] /\ MigratorInv(o)'
           /\ AppliedInOrderOnce'
<1>1. migrator'[m] = s /\ \A o \in Migrator \ {m} : migrator'[o] = migrator[o]
    BY DEF Migrates, MigrateInv, MigrateTypeOK
<1>2. \A o \in Migrator \ {m} : MigratorInv(o)'
    BY <1>1, MigrationAssumption DEF MigrateInv, MigrateTypeOK, MigratorInv, Seen
<1>3. AppliedInOrderOnce'
    BY DEF MigrateInv, AppliedInOrderOnce
<1> QED BY <1>1, <1>2, <1>3

\* The same for the invariant as a whole: what is left to show of such a step
\* is what the run that took it may rely on.
LEMMA OwnStep ==
    ASSUME MigrateInv, NEW m \in Migrator, NEW s,
           Migrates(m, s), applied' = applied, runs' = runs, crossed' = crossed,
           migrateFaults' \in 0..MaxMigrateFaults, migrateFaults' >= migrateFaults,
           s \in MigratorState, s.held => s.stage = "applying",
           s.held => \A o \in Migrator \ {m} : ~(migrator[o].held /\ migrator[o].next = s.next),
           MigratorInv(m)'
    PROVE  MigrateInv'
<1> USE MigrationAssumption
<1>1. /\ migrator'[m] = s
      /\ \A o \in Migrator \ {m} : migrator'[o] = migrator[o] /\ MigratorInv(o)'
      /\ AppliedInOrderOnce'
    BY OthersStand
<1>2. s.next <= Files + 1
    BY <1>1 DEF MigratorInv
<1>3. MigrateTypeOK'
    BY <1>1, <1>2 DEF MigrateInv, MigrateTypeOK, Migrates
<1>4. NamesAreHeldOnce'
    BY <1>1 DEF MigrateInv, NamesAreHeldOnce
<1> QED BY <1>1, <1>3, <1>4 DEF MigrateInv

LEMMA StepMigrate == MigrateInv /\ [MigrateNext]_migrateVars => MigrateInv'
<1> SUFFICES ASSUME MigrateInv, [MigrateNext]_migrateVars PROVE MigrateInv'
    OBVIOUS
<1> USE MigrationAssumption
<1>t. MigrateTypeOK /\ \A o \in Migrator : MigratorInv(o) /\ migrator[o] \in MigratorState
    BY DEF MigrateInv, MigrateTypeOK
<1>1. ASSUME NEW m \in Migrator, ReadApplied(m) PROVE MigrateInv'
  <2> DEFINE s == [migrator[m] EXCEPT !.stage = "applying", !.known = applied]
  <2>1. s \in MigratorState /\ s.held = FALSE /\ s.stage = "applying" /\ s.known = applied
        /\ s.next = 1
      BY <1>1, <1>t DEF ReadApplied, MigratorState, MigrateTypeOK, MigratorInv
  <2>2. Migrates(m, s) /\ applied' = applied /\ runs' = runs /\ crossed' = crossed
        /\ migrateFaults' = migrateFaults
      BY <1>1 DEF ReadApplied
  <2> HIDE DEF s
  <2>3. migrator'[m] = s
      BY <2>2, <1>t DEF Migrates, MigrateTypeOK
  <2>4. MigratorInv(m)'
      BY <2>1, <2>2, <2>3 DEF MigratorInv, Seen
  <2> QED BY <2>1, <2>2, <2>4, <1>t, OwnStep DEF MigrateTypeOK
<1>2. ASSUME NEW m \in Migrator, Skip(m) PROVE MigrateInv'
  <2> DEFINE s == [migrator[m] EXCEPT !.next = @ + 1]
  <2>1. /\ s \in MigratorState /\ s.held = migrator[m].held /\ s.stage = "applying"
        /\ s.known = migrator[m].known /\ s.next = migrator[m].next + 1
      BY <1>2, <1>t DEF Skip, Applying, MigratorState
  <2>2. Migrates(m, s) /\ applied' = applied /\ runs' = runs /\ crossed' = crossed
        /\ migrateFaults' = migrateFaults
      BY <1>2 DEF Skip
  <2> HIDE DEF s
  <2>3. migrator'[m] = s
      BY <2>2, <1>t DEF Migrates, MigrateTypeOK
  <2>4. migrator[m].next \in applied /\ migrator[m].next <= Files
      BY <1>2, <1>t DEF Skip, Applying, AlreadyApplied, MigratorInv
  <2>5. ~s.held
      BY <2>1, <2>4, <1>t DEF MigratorInv
  <2>6. MigratorInv(m)'
      BY <2>1, <2>2, <2>3, <2>4, <2>5, <1>2, <1>t
         DEF MigratorInv, Seen, Skip, Applying, MigrateTypeOK, MigratorState
  <2> QED BY <2>1, <2>2, <2>5, <2>6, <1>t, OwnStep DEF MigrateTypeOK
<1>3. ASSUME NEW m \in Migrator, Execute(m) PROVE MigrateInv'
  <2> DEFINE f == migrator[m].next
  <2>0. f \in 1..Files /\ f \notin migrator[m].known /\ ~migrator[m].held
        /\ migrator[m].stage = "applying"
      BY <1>3, <1>t DEF Execute, Applying, AlreadyApplied, MigratorInv
  <2>1. CASE f \notin applied
    <3> DEFINE s == [migrator[m] EXCEPT !.held = TRUE]
    <3>1. /\ s \in MigratorState /\ s.held = TRUE /\ s.stage = "applying"
          /\ s.known = migrator[m].known /\ s.next = f
        BY <2>0, <1>t DEF MigratorState
    <3>2. Migrates(m, s) /\ applied' = applied /\ runs' = runs /\ crossed' = crossed
          /\ migrateFaults' = migrateFaults
        BY <1>3, <2>1 DEF Execute, NameIsFree
    <3>3. \A o \in Migrator : ~(migrator[o].held /\ migrator[o].next = s.next)
        BY <1>3, <3>1 DEF Execute, Unlocked
    <3> HIDE DEF s
    <3>4. migrator'[m] = s
        BY <3>2, <1>t DEF Migrates, MigrateTypeOK
    <3>5. MigratorInv(m)'
        BY <2>0, <2>1, <3>1, <3>2, <3>4, <1>t DEF MigratorInv, Seen
    <3> QED BY <3>1, <3>2, <3>3, <3>5, <1>t, OwnStep DEF MigrateTypeOK
  <2>2. CASE f \in applied
    <3> DEFINE s == [migrator[m] EXCEPT !.stage = "failed"]
    <3>1. /\ s \in MigratorState /\ s.held = FALSE /\ s.stage = "failed"
          /\ s.known = migrator[m].known /\ s.next = f
        BY <2>0, <1>t DEF MigratorState
    <3>2. Migrates(m, s) /\ applied' = applied /\ runs' = runs /\ crossed' = crossed
          /\ migrateFaults' = migrateFaults
        BY <1>3, <2>2 DEF Execute, NameIsFree
    <3> HIDE DEF s
    <3>3. migrator'[m] = s
        BY <3>2, <1>t DEF Migrates, MigrateTypeOK
    <3>4. crossed
      <4>1. f \notin Seen(m)
          BY <2>0, <1>t DEF Seen
      <4> QED BY <4>1, <2>0, <2>2, <1>t DEF MigratorInv
    <3>5. MigratorInv(m)'
        BY <2>0, <3>1, <3>2, <3>3, <3>4, <1>t DEF MigratorInv, Seen
    <3> QED BY <3>1, <3>2, <3>5, <1>t, OwnStep DEF MigrateTypeOK
  <2> QED BY <2>1, <2>2
<1>4. ASSUME NEW m \in Migrator, Commit(m) PROVE MigrateInv'
  <2> DEFINE f == migrator[m].next
             s == [migrator[m] EXCEPT !.next = @ + 1, !.held = FALSE]
  <2>0. /\ f \in 1..Files /\ f \notin applied /\ migrator[m].stage = "applying"
        /\ \A g \in 1..Files : g < f => g \in applied
      BY <1>4, <1>t DEF Commit, Applying, MigratorInv
  <2>1. /\ s \in MigratorState /\ s.held = FALSE /\ s.stage = "applying"
        /\ s.known = migrator[m].known /\ s.next = f + 1
    <3>1. f + 1 \in Nat /\ migrator[m] \in MigratorState
        BY <2>0, <1>t
    <3> DEFINE moved == [migrator[m] EXCEPT !.next = f + 1]
    <3>2. /\ moved \in MigratorState /\ moved.stage = "applying"
          /\ moved.known = migrator[m].known /\ moved.next = f + 1
        BY <2>0, <3>1 DEF MigratorState
    <3>3. s = [moved EXCEPT !.held = FALSE]
        OBVIOUS
    <3> HIDE DEF moved
    <3> QED BY <3>2, <3>3 DEF MigratorState
  <2>2. /\ Migrates(m, s) /\ applied' = applied \cup {f}
        /\ runs' = [runs EXCEPT ![f] = @ + 1]
        /\ crossed' = (crossed \/ \E o \in Migrator \ {m} : migrator[o].stage = "applying")
        /\ migrateFaults' = migrateFaults
      BY <1>4 DEF Commit
  <2> HIDE DEF s
  <2>3. migrator'[m] = s /\ \A o \in Migrator \ {m} : migrator'[o] = migrator[o]
      BY <2>2, <1>t DEF Migrates, MigrateTypeOK
  <2>4. MigrateTypeOK'
    <3>0. runs \in [1..Files -> Nat] /\ runs[f] + 1 \in Nat /\ applied \subseteq 1..Files
        BY <2>0, <1>t DEF MigrateTypeOK
    <3>1. runs' \in [1..Files -> Nat] /\ applied' \subseteq 1..Files
        BY <2>0, <2>2, <3>0
    <3>2. migrator' \in [Migrator -> MigratorState]
        BY <2>1, <2>2, <1>t DEF Migrates, MigrateTypeOK
    <3>3. \A o \in Migrator : /\ migrator'[o].next <= Files + 1
                              /\ migrator'[o].held => migrator'[o].stage = "applying"
        BY <2>0, <2>1, <2>3, <1>t DEF MigrateTypeOK
    <3>4. crossed' \in BOOLEAN /\ migrateFaults' \in 0..MaxMigrateFaults
        BY <2>2, <1>t DEF MigrateTypeOK
    <3> QED BY <3>1, <3>2, <3>3, <3>4 DEF MigrateTypeOK
  <2>5. AppliedInOrderOnce'
    <3>1. \A g \in 1..Files : g \in applied' => \A h \in 1..g : h \in applied'
        BY <2>0, <2>2 DEF MigrateInv, AppliedInOrderOnce
    <3>2. \A g \in 1..Files : runs'[g] = IF g \in applied' THEN 1 ELSE 0
        BY <2>0, <2>2, <1>t DEF MigrateInv, AppliedInOrderOnce, MigrateTypeOK
    <3> QED BY <3>1, <3>2 DEF AppliedInOrderOnce
  <2>6. NamesAreHeldOnce'
      BY <2>1, <2>3 DEF MigrateInv, NamesAreHeldOnce
  <2>7. MigratorInv(m)'
    <3>1. migrator[m].known \subseteq applied' /\ f + 1 \in 1..(Files + 1)
        BY <2>0, <2>2, <1>t DEF MigratorInv
    <3>2. \A g \in 1..Files : g < f + 1 => g \in applied'
        BY <2>0, <2>2
    <3>3. applied' \subseteq Seen(m)' \/ crossed'
      <4>1. applied \subseteq Seen(m) \/ crossed
          BY <2>0, <1>t DEF MigratorInv
      <4>2. Seen(m) \cup {f} \subseteq Seen(m)'
          BY <2>0, <2>1, <2>3 DEF Seen
      <4> QED BY <4>1, <4>2, <2>2
    <3> QED BY <2>1, <2>3, <3>1, <3>2, <3>3 DEF MigratorInv
  <2>8. ASSUME NEW o \in Migrator \ {m} PROVE MigratorInv(o)'
    <3>1. migrator[o].held => migrator[o].next # f
        BY <1>4 DEF MigrateInv, NamesAreHeldOnce, Commit
    <3> QED BY <2>0, <2>2, <2>3, <3>1, <1>t DEF MigratorInv, Seen
  <2> QED BY <2>4, <2>5, <2>6, <2>7, <2>8 DEF MigrateInv
<1>5. ASSUME NEW m \in Migrator, Finish(m) PROVE MigrateInv'
  <2> DEFINE s == [migrator[m] EXCEPT !.stage = "done"]
  <2>1. /\ s \in MigratorState /\ s.held = migrator[m].held /\ s.stage = "done"
        /\ s.known = migrator[m].known /\ s.next = Files + 1
      BY <1>5, <1>t DEF Finish, MigratorState
  <2>2. Migrates(m, s) /\ applied' = applied /\ runs' = runs /\ crossed' = crossed
        /\ migrateFaults' = migrateFaults /\ migrator[m].stage = "applying"
        /\ migrator[m].next = Files + 1
      BY <1>5 DEF Finish
  <2> HIDE DEF s
  <2>3. migrator'[m] = s
      BY <2>2, <1>t DEF Migrates, MigrateTypeOK
  <2>4. ~s.held
      BY <2>1, <2>2, <1>t DEF MigratorInv
  <2>5. MigratorInv(m)'
      BY <2>1, <2>2, <2>3, <2>4, <1>t DEF MigratorInv, Seen
  <2> QED BY <2>1, <2>2, <2>4, <2>5, <1>t, OwnStep DEF MigrateTypeOK
<1>6. ASSUME NEW m \in Migrator, Fails(m) PROVE MigrateInv'
  <2> DEFINE s == Rolled(migrator[m])
  <2>1. /\ s \in MigratorState /\ s.held = FALSE /\ s.stage = "failed"
        /\ s.known = migrator[m].known /\ s.next = migrator[m].next
      BY <1>t DEF Rolled, MigratorState
  <2>2. Migrates(m, s) /\ applied' = applied /\ runs' = runs /\ crossed' = crossed
        /\ migrateFaults' = migrateFaults + 1 /\ migrateFaults < MaxMigrateFaults
      BY <1>6 DEF Fails
  <2> HIDE DEF s
  <2>3. migrator'[m] = s
      BY <2>2, <1>t DEF Migrates, MigrateTypeOK
  <2>4. migrateFaults' \in 0..MaxMigrateFaults /\ migrateFaults' > 0
        /\ migrateFaults' >= migrateFaults
      BY <2>2, <1>t DEF MigrateTypeOK
  <2>5. MigratorInv(m)'
      BY <2>1, <2>2, <2>3, <2>4, <1>t DEF MigratorInv, Seen
  <2> QED BY <2>1, <2>2, <2>4, <2>5, <1>t, OwnStep
<1>7. CASE UNCHANGED migrateVars
    BY <1>7 DEF migrateVars, MigrateInv, MigrateTypeOK, AppliedInOrderOnce, NamesAreHeldOnce,
                MigratorInv, Seen
<1> QED BY <1>1, <1>2, <1>3, <1>4, <1>5, <1>6, <1>7 DEF MigrateNext

LEMMA MigrateInvariant == MigrateSpec => []MigrateInv
<1> QED BY InitMigrate, StepMigrate, PTL DEF MigrateSpec

-----------------------------------------------------------------------------
\* The migrations' table and locals are well typed, for any number of files.
THEOREM MigrationsTyped == MigrateSpec => []MigrateTypeOK
<1>1. MigrateInv => MigrateTypeOK
    BY DEF MigrateInv
<1> QED BY <1>1, MigrateInvariant, PTL

\* However many pods run apply_migrations at once and wherever they fail, the
\* files take effect in order and once, and the exit status tells the schema.
THEOREM SchemaStaysSound == MigrateSpec => []SchemaIsSound
<1>1. MigrateInv => SchemaIsSound
  <2> SUFFICES ASSUME MigrateInv PROVE ExitTellsTheSchema
      BY DEF MigrateInv, SchemaIsSound
  <2> SUFFICES ASSUME NEW m \in Migrator, migrator[m].stage = "done" PROVE applied = 1..Files
      BY DEF MigrateInv, MigratorInv, ExitTellsTheSchema
  <2>1. \A f \in 1..Files : f < Files + 1 /\ f \in applied
      BY MigrationAssumption DEF MigrateInv, MigratorInv
  <2> QED BY <2>1 DEF MigrateInv, MigrateTypeOK
<1> QED BY <1>1, MigrateInvariant, PTL

-----------------------------------------------------------------------------
(* The bridge from the old memory. FillerOK is what one run may rely on:   *)
(* what was due is stored or still before it, unless a row was refused,    *)
(* the run failed, or the list moved up behind its back.                   *)

StoredIds == {f.id : f \in stored}

\* The run has the item before it: on its page, or on a page to come.
Ahead(r, q, i) ==
    \/ \E j \in DOMAIN r.page : j >= r.at /\ r.page[j] = i
    \/ ~r.last /\ \E p \in DOMAIN q : p > r.offset + Len(r.page) /\ q[p] = i

\* What was due is stored or still before the run, unless a row was refused, the
\* run has failed, or the list moved up behind its back.
FillerOK(r, q, ids, moved) ==
    /\ r \in FillerState
    /\ r.stage = "idle" => r.offset = 0 /\ r.refused = 0 /\ r.due = {}
    /\ r.stage \in {"idle", "paging"} => r.page = << >> /\ r.at = 0 /\ r.last = FALSE
    /\ r.stage \in {"item", "absent", "embedded"} => r.at \in 1..Len(r.page)
    /\ moved = FALSE => r.due \subseteq ToSet(q)
    /\ moved = FALSE /\ r.refused = 0 /\ r.stage # "failed" =>
        \A i \in r.due \ (Empty \cup Unusable) :
            i \in ids \/ (r.stage # "done" /\ Ahead(r, q, i))

FillInv ==
    /\ bank \in Seq(Memory) /\ IsInjective(bank)
    /\ stored \subseteq Fact /\ \A f, g \in stored : f.id = g.id => f = g
    /\ filler = [b \in Filler |-> filler[b]]
    /\ \A b \in Filler : FillerOK(filler[b], bank, StoredIds, b \in shifted)
    /\ \A b \in Filler \ Plain : filler[b].vector = TRUE
    /\ VectorOrNothing
    /\ shifted \subseteq Filler
    /\ fillFaults \in 0..MaxFillFaults

-----------------------------------------------------------------------------
LEMMA FillFacts == FillInv => FillTypeOK /\ BridgeIsComplete
<1> SUFFICES ASSUME FillInv PROVE FillTypeOK /\ BridgeIsComplete
    OBVIOUS
<1>1. FillTypeOK
  <2>1. \A b \in Filler : filler[b] \in FillerState
      BY DEF FillInv, FillerOK
  <2>2. filler \in [Filler -> FillerState]
      BY <2>1 DEF FillInv
  <2>3. \A b \in Filler : filler[b].stage \in {"item", "absent", "embedded"} =>
          filler[b].at \in 1..Len(filler[b].page)
      BY DEF FillInv, FillerOK
  <2> QED BY <2>2, <2>3 DEF FillInv, FillTypeOK
<1>2. SuccessIsComplete
  <2> SUFFICES ASSUME NEW b \in Filler, Succeeded(b), b \notin shifted,
                      NEW i \in filler[b].due \ (Empty \cup Unusable)
               PROVE  FactStored(i)
      BY DEF SuccessIsComplete
  <2>1. FillerOK(filler[b], bank, StoredIds, b \in shifted) /\ (b \in shifted) = FALSE
      BY DEF FillInv
  <2>2. i \in StoredIds
      BY <2>1 DEF FillerOK, Succeeded
  <2> QED BY <2>2 DEF StoredIds, FactStored
<1> QED BY <1>1, <1>2 DEF FillInv, BridgeIsComplete

LEMMA FillInitInv == FillInit => FillInv
<1> SUFFICES ASSUME FillInit PROVE FillInv
    OBVIOUS
<1>1. bank \in Seq(Memory) /\ IsInjective(bank)
  <2>1. PICK t \in SUBSET Memory : IsFiniteSet(t) /\ bank \in SetToSeqs(t)
      BY DEF FillInit
  <2>2. Cardinality(t) \in Nat
      BY <2>1, FS_CardinalityType
  <2>3. /\ bank \in [1..Cardinality(t) -> t]
        /\ \A i, j \in 1..Cardinality(t) : i # j => bank[i] # bank[j]
      BY <2>1 DEF SetToSeqs
  <2>4. bank \in [1..Cardinality(t) -> Memory]
      BY <2>3
  <2> QED BY <2>2, <2>3, <2>4 DEF IsInjective
<1>2. ASSUME NEW b \in Filler
      PROVE  FillerOK(filler[b], bank, StoredIds, b \in shifted)
  <2>1. filler[b] = [stage |-> "idle", vector |-> b \notin Plain, offset |-> 0, page |-> << >>,
                     at |-> 0, last |-> FALSE, refused |-> 0, due |-> {}]
      BY DEF FillInit
  <2>2. << >> \in Seq(Memory) /\ (b \notin Plain) \in BOOLEAN
      OBVIOUS
  <2>3. filler[b] \in FillerState
      BY <2>1, <2>2 DEF FillerState, FillStages
  <2> QED BY <2>1, <2>3 DEF FillerOK
<1>3. \A b \in Filler \ Plain : filler[b].vector = TRUE
  <2> SUFFICES ASSUME NEW b \in Filler, b \notin Plain PROVE filler[b].vector = TRUE
      OBVIOUS
  <2>1. filler[b] = [stage |-> "idle", vector |-> b \notin Plain, offset |-> 0, page |-> << >>,
                     at |-> 0, last |-> FALSE, refused |-> 0, due |-> {}]
      BY DEF FillInit
  <2>2. filler[b].vector = (b \notin Plain)
      BY <2>1
  <2> QED BY <2>2
<1>4. stored = {} /\ shifted = {} /\ fillFaults = 0
    BY DEF FillInit
<1>5. filler = [b \in Filler |-> filler[b]]
    BY DEF FillInit
<1> QED BY <1>1, <1>2, <1>3, <1>4, <1>5, BackfillAssumption DEF FillInv, VectorOrNothing

\* More facts take nothing from a run.
LEMMA FillerStays ==
    ASSUME NEW r, NEW q, NEW ids, NEW more, ids \subseteq more, NEW moved, FillerOK(r, q, ids, moved)
    PROVE  FillerOK(r, q, more, moved)
BY DEF FillerOK

\* A run moves on: its new locals are sound and the others are as they were.
LEMMA FillerMoves ==
    ASSUME FillInv, NEW b \in Filler, NEW s, Turns(b, s), UNCHANGED bank,
           stored \subseteq stored', stored' \subseteq Fact,
           \A f, g \in stored' : f.id = g.id => f = g,
           shifted' \in {shifted, shifted \ {b}}, fillFaults' \in {fillFaults, fillFaults + 1},
           fillFaults' <= MaxFillFaults,
           FillerOK(s, bank, StoredIds', b \in shifted'), s.vector = filler[b].vector,
           VectorOrNothing'
    PROVE  FillInv'
<1>1. filler' = [filler EXCEPT ![b] = s] /\ filler = [c \in Filler |-> filler[c]]
    BY DEF Turns, FillInv
<1>2. filler' = [c \in Filler |-> filler'[c]]
    BY <1>1
<1>3. filler'[b] = s /\ \A c \in Filler : c # b => filler'[c] = filler[c]
    BY <1>1
<1>4. ASSUME NEW c \in Filler
      PROVE  FillerOK(filler'[c], bank', StoredIds', c \in shifted')
  <2>1. CASE c = b
      BY <1>3, <2>1
  <2>2. CASE c # b
    <3>1. FillerOK(filler[c], bank, StoredIds, c \in shifted)
        BY DEF FillInv
    <3>2. StoredIds \subseteq StoredIds'
        BY DEF StoredIds
    <3>3. (c \in shifted') = (c \in shifted)
        BY <2>2
    <3>4. FillerOK(filler[c], bank, StoredIds', c \in shifted)
        BY <3>1, <3>2, FillerStays
    <3> QED BY <1>3, <2>2, <3>3, <3>4
  <2> QED BY <2>1, <2>2
<1>5. \A c \in Filler \ Plain : filler'[c].vector = TRUE
    BY <1>3 DEF FillInv
<1>6. fillFaults' \in 0..MaxFillFaults
    BY BackfillAssumption DEF FillInv
<1> QED BY <1>2, <1>4, <1>5, <1>6 DEF FillInv

\* The locals after an assignment to one of them.
LEMMA FillerGoes ==
    ASSUME NEW r \in FillerState, NEW stage \in FillStages, NEW refused \in Nat,
           NEW a, a = [r EXCEPT !.stage = stage] \/ a = [r EXCEPT !.refused = refused]
    PROVE  /\ a \in FillerState /\ a.stage \in {stage, r.stage} /\ a.at = r.at /\ a.page = r.page
           /\ a.last = r.last /\ a.offset = r.offset /\ a.due = r.due /\ a.vector = r.vector
           /\ a = [r EXCEPT !.stage = stage] => a.stage = stage /\ a.refused = r.refused
           /\ a = [r EXCEPT !.refused = refused] => a.stage = r.stage /\ a.refused = refused
<1>1. CASE a = [r EXCEPT !.stage = stage]
  <2>1. a \in FillerState
      BY <1>1 DEF FillerState
  <2>2. /\ a.stage = stage /\ a.at = r.at /\ a.page = r.page /\ a.last = r.last
        /\ a.offset = r.offset /\ a.due = r.due /\ a.vector = r.vector /\ a.refused = r.refused
      BY <1>1 DEF FillerState
  <2>3. a = [r EXCEPT !.refused = refused] => a.stage = r.stage /\ a.refused = refused
      BY DEF FillerState
  <2> QED BY <2>1, <2>2, <2>3
<1>2. CASE a = [r EXCEPT !.refused = refused]
  <2>1. a \in FillerState
      BY <1>2 DEF FillerState
  <2>2. /\ a.stage = r.stage /\ a.at = r.at /\ a.page = r.page /\ a.last = r.last
        /\ a.offset = r.offset /\ a.due = r.due /\ a.vector = r.vector /\ a.refused = refused
      BY <1>2 DEF FillerState
  <2>3. a = [r EXCEPT !.stage = stage] => a.stage = stage /\ a.refused = r.refused
      BY DEF FillerState
  <2> QED BY <2>1, <2>2, <2>3
<1> QED BY <1>1, <1>2

\* The loop's next item, and what it leaves behind when it was dealt with.
LEMMA AfterOK ==
    ASSUME NEW r, NEW q, NEW ids, NEW moved, FillerOK(r, q, ids, moved),
           r.stage \in {"item", "absent", "embedded"},
           r.page[r.at] \in ids \cup Empty \cup Unusable \/ moved # FALSE \/ r.refused # 0
    PROVE  FillerOK(After(r), q, ids, moved) /\ After(r).vector = r.vector
<1>1. r \in FillerState /\ r.at \in 1..Len(r.page) /\ r.page \in Seq(Memory) /\ Len(r.page) \in Nat
    BY DEF FillerOK, FillerState
<1>2. CASE r.at < Len(r.page)
  <2> DEFINE a == [r EXCEPT !.stage = "item", !.at = @ + 1]
  <2>1. After(r) = a
      BY <1>2 DEF After
  <2>2. /\ a \in FillerState /\ a.stage = "item" /\ a.at = r.at + 1 /\ a.page = r.page
        /\ a.last = r.last /\ a.offset = r.offset /\ a.refused = r.refused /\ a.due = r.due
        /\ a.vector = r.vector
    <3>1. a = [r EXCEPT !.stage = "item", !.at = r.at + 1]
        OBVIOUS
    <3>2. r.at + 1 \in Nat
        BY <1>1
    <3>3. "item" \in FillStages
        BY DEF FillStages
    <3> HIDE DEF a
    <3>4. r \in FillerState
        BY <1>1
    <3>5. a \in FillerState
        BY <3>1, <3>2, <3>3, <3>4 DEF FillerState
    <3>6. /\ a.stage = "item" /\ a.at = r.at + 1 /\ a.page = r.page /\ a.last = r.last
          /\ a.offset = r.offset /\ a.refused = r.refused /\ a.due = r.due /\ a.vector = r.vector
        BY <3>1, <3>4 DEF FillerState
    <3> QED BY <3>5, <3>6
  <2> HIDE DEF a
  <2>3. a.at \in 1..Len(a.page)
      BY <1>1, <1>2, <2>2
  <2>4. ASSUME moved = FALSE, r.refused = 0, NEW i \in r.due \ (Empty \cup Unusable)
        PROVE  i \in ids \/ Ahead(a, q, i)
    <3>1. i \in ids \/ Ahead(r, q, i)
        BY <2>4 DEF FillerOK
    <3>2. ASSUME NEW j \in DOMAIN r.page, j >= r.at, r.page[j] = i, i \notin ids
          PROVE  Ahead(a, q, i)
      <4>1. j # r.at
          BY <2>4, <3>2
      <4>2. j \in Nat
          BY <1>1
      <4>3. j >= a.at
          BY <1>1, <2>2, <3>2, <4>1, <4>2
      <4> QED BY <2>2, <3>2, <4>3 DEF Ahead
    <3> QED BY <2>2, <3>1, <3>2 DEF Ahead
  <2> QED BY <2>1, <2>2, <2>3, <2>4 DEF FillerOK
<1>3. CASE ~(r.at < Len(r.page))
  <2> DEFINE a == [r EXCEPT !.stage = IF r.last THEN "done" ELSE "paging", !.page = << >>, !.at = 0,
                            !.offset = r.offset + Len(r.page)]
  <2>1. After(r) = a
      BY <1>3 DEF After
  <2>2. /\ a \in FillerState /\ a.stage = (IF r.last THEN "done" ELSE "paging") /\ a.at = 0
        /\ a.page = << >> /\ a.last = r.last /\ a.offset = r.offset + Len(r.page)
        /\ a.refused = r.refused /\ a.due = r.due /\ a.vector = r.vector
    <3> DEFINE stage == IF r.last THEN "done" ELSE "paging"
               offset == r.offset + Len(r.page)
    <3>1. stage \in FillStages /\ offset \in Nat /\ << >> \in Seq(Memory)
        BY <1>1 DEF FillStages, FillerState
    <3>2. a = [r EXCEPT !.stage = stage, !.page = << >>, !.at = 0, !.offset = offset]
        OBVIOUS
    <3> HIDE DEF a, stage, offset
    <3>3. /\ a \in FillerState /\ a.stage = stage /\ a.at = 0 /\ a.page = << >> /\ a.last = r.last
          /\ a.offset = offset /\ a.refused = r.refused /\ a.due = r.due /\ a.vector = r.vector
      <4>1. r \in FillerState
          BY <1>1
      <4>2. a \in FillerState
          BY <3>1, <3>2, <4>1 DEF FillerState
      <4>3. /\ a.stage = stage /\ a.at = 0 /\ a.page = << >> /\ a.last = r.last
            /\ a.offset = offset /\ a.refused = r.refused /\ a.due = r.due /\ a.vector = r.vector
          BY <3>2, <4>1 DEF FillerState
      <4> QED BY <4>2, <4>3
    <3> QED BY <3>3 DEF stage, offset
  <2> HIDE DEF a
  <2>3. r.last \in BOOLEAN /\ r.at = Len(r.page)
      BY <1>1, <1>3 DEF FillerState
  <2>4. ASSUME moved = FALSE, r.refused = 0, NEW i \in r.due \ (Empty \cup Unusable)
        PROVE  i \in ids \/ (a.stage # "done" /\ Ahead(a, q, i))
    <3>1. i \in ids \/ Ahead(r, q, i)
        BY <2>4 DEF FillerOK
    <3>2. ASSUME NEW j \in DOMAIN r.page, j >= r.at, r.page[j] = i
          PROVE  i \in ids
      <4>1. j = r.at
          BY <1>1, <2>3, <3>2
      <4> QED BY <2>4, <3>2, <4>1
    <3>3. ASSUME ~r.last, NEW p \in DOMAIN q, p > r.offset + Len(r.page), q[p] = i
          PROVE  a.stage # "done" /\ Ahead(a, q, i)
      <4>1. a.stage = "paging" /\ ~a.last
          BY <2>2, <3>3
      <4>2. a.offset + Len(a.page) = r.offset + Len(r.page)
        <5>1. Len(a.page) = 0 /\ r.offset \in Nat
            BY <1>1, <2>2 DEF FillerState
        <5> QED BY <1>1, <2>2, <5>1
      <4> QED BY <3>3, <4>1, <4>2 DEF Ahead
    <3> QED BY <3>1, <3>2, <3>3 DEF Ahead
  <2>5. a.stage = "paging" => a.last = FALSE
      BY <2>2, <2>3
  <2>6. a.stage \in {"paging", "done"}
      BY <2>2
  <2> QED BY <2>1, <2>2, <2>4, <2>5, <2>6 DEF FillerOK
<1> QED BY <1>2, <1>3

LEMMA FillBeginInv == ASSUME FillInv, NEW b \in Filler, Begin(b) PROVE FillInv'
<1>1. /\ filler[b].stage = "idle" /\ Turns(b, [filler[b] EXCEPT !.stage = "paging", !.due = ToSet(bank)])
      /\ shifted' = shifted \ {b} /\ UNCHANGED <<bank, stored, fillFaults>>
    BY DEF Begin
<1>2. FillerOK(filler[b], bank, StoredIds, b \in shifted)
    BY DEF FillInv
<1>3. ToSet(bank) \in SUBSET Memory /\ bank \in Seq(Memory)
    BY DEF FillInv, ToSet
<1>4. PICK s : s = [filler[b] EXCEPT !.stage = "paging", !.due = ToSet(bank)]
    OBVIOUS
<1>5. /\ s \in FillerState /\ s.stage = "paging" /\ s.at = 0 /\ s.page = << >>
      /\ s.last = FALSE /\ s.offset = 0 /\ s.refused = 0 /\ s.due = ToSet(bank)
      /\ s.vector = filler[b].vector
  <2>1. "paging" \in FillStages
      BY DEF FillStages
  <2>2. filler[b] \in FillerState
      BY <1>2 DEF FillerOK
  <2>3. s \in FillerState
      BY <1>3, <1>4, <2>1, <2>2 DEF FillerState
  <2>4. /\ s.stage = "paging" /\ s.at = filler[b].at /\ s.page = filler[b].page
        /\ s.last = filler[b].last /\ s.offset = filler[b].offset /\ s.due = ToSet(bank)
        /\ s.refused = filler[b].refused /\ s.vector = filler[b].vector
      BY <1>4, <2>2 DEF FillerState
  <2> QED BY <1>1, <1>2, <2>3, <2>4 DEF FillerOK
<1>6. StoredIds' = StoredIds
    BY <1>1 DEF StoredIds
<1>7. \A i \in s.due : Ahead(s, bank, i)
  <2> SUFFICES ASSUME NEW i \in ToSet(bank) PROVE Ahead(s, bank, i)
      BY <1>5
  <2>1. PICK p \in DOMAIN bank : bank[p] = i
      BY DEF ToSet
  <2>2. p > s.offset + Len(s.page)
      BY <1>3, <1>5
  <2> QED BY <1>5, <2>1, <2>2 DEF Ahead
<1>8. FillerOK(s, bank, StoredIds', b \in shifted')
    BY <1>5, <1>7 DEF FillerOK
<1>9. VectorOrNothing'
    BY <1>1 DEF FillInv, VectorOrNothing
<1>10. fillFaults \in 0..MaxFillFaults /\ stored \subseteq Fact /\ \A f, g \in stored : f.id = g.id => f = g
    BY DEF FillInv
<1>11. /\ stored \subseteq stored' /\ stored' \subseteq Fact
       /\ \A f, g \in stored' : f.id = g.id => f = g
       /\ shifted' \in {shifted, shifted \ {b}} /\ fillFaults' \in {fillFaults, fillFaults + 1}
       /\ fillFaults' <= MaxFillFaults /\ UNCHANGED bank
    BY <1>1, <1>10, BackfillAssumption
<1> QED BY <1>1, <1>4, <1>5, <1>8, <1>9, <1>11, FillerMoves

\* A page is what the bank has from the offset on.
LEMMA PageIsNext ==
    ASSUME NEW q \in Seq(Memory), NEW offset \in Nat, NEW end \in Nat,
           end = IF offset + PageSize < Len(q) THEN offset + PageSize ELSE Len(q)
    PROVE  LET page == SubSeq(q, offset + 1, end)
           IN  /\ page \in Seq(Memory)
               /\ page = << >> => \A p \in DOMAIN q : p <= offset
               /\ \A p \in DOMAIN q : p > offset /\ p <= offset + Len(page) =>
                     p - offset \in DOMAIN page /\ page[p - offset] = q[p]
<1> DEFINE page == SubSeq(q, offset + 1, end)
<1>1. PageSize \in Nat \ {0} /\ Len(q) \in Nat /\ end <= Len(q)
    BY BackfillAssumption
<1>2. /\ page \in Seq(Memory)
      /\ Len(page) = IF offset + 1 <= end THEN end - offset ELSE 0
      /\ \A j \in 1..(end - offset) : page[j] = q[offset + j]
    BY <1>1
<1> HIDE DEF page
<1>3. page = << >> => \A p \in DOMAIN q : p <= offset
  <2> SUFFICES ASSUME page = << >>, NEW p \in DOMAIN q, p > offset PROVE FALSE
      BY <1>1
  <2>1. Len(page) = 0 /\ p \in Nat /\ p <= Len(q)
      OBVIOUS
  <2> QED BY <1>1, <1>2, <2>1
<1>4. ASSUME NEW p \in DOMAIN q, p > offset, p <= offset + Len(page)
      PROVE  p - offset \in DOMAIN page /\ page[p - offset] = q[p]
  <2>1. p \in Nat /\ Len(page) \in Nat /\ DOMAIN page = 1..Len(page)
      BY <1>2
  <2>2. p - offset \in 1..Len(page)
      BY <1>4, <2>1
  <2>3. offset + 1 <= end /\ Len(page) = end - offset
      BY <1>1, <1>2, <2>1, <2>2
  <2>4. page[p - offset] = q[offset + (p - offset)]
      BY <1>2, <2>2, <2>3
  <2>5. offset + (p - offset) = p
      BY <2>1
  <2> QED BY <2>1, <2>2, <2>4, <2>5
<1> QED BY <1>2, <1>3, <1>4 DEF page

LEMMA FillPageInv == ASSUME FillInv, NEW b \in Filler, FillPage(b) PROVE FillInv'
<1> DEFINE r == filler[b]
           page == SubSeq(bank, r.offset + 1, LastIndex(r.offset))
<1>1. PICK counted \in BOOLEAN :
        Turns(b, IF page = << >> THEN [r EXCEPT !.stage = "done"]
                ELSE [r EXCEPT !.stage = "item", !.page = page, !.at = 1,
                               !.last = counted /\ IsLast(b, page)])
    BY DEF FillPage
<1>2. r.stage = "paging" /\ UNCHANGED <<bank, stored, shifted, fillFaults>>
    BY DEF FillPage
<1>3. FillerOK(r, bank, StoredIds, b \in shifted) /\ bank \in Seq(Memory)
    BY DEF FillInv
<1>4. r \in FillerState /\ r.offset \in Nat /\ r.page = << >> /\ r.at = 0 /\ r.last = FALSE
    BY <1>2, <1>3 DEF FillerOK, FillerState
<1>5. LastIndex(r.offset) \in Nat
      /\ LastIndex(r.offset) = IF r.offset + PageSize < Len(bank) THEN r.offset + PageSize ELSE Len(bank)
    BY <1>3, <1>4, BackfillAssumption DEF LastIndex
<1>6. /\ page \in Seq(Memory)
      /\ page = << >> => \A p \in DOMAIN bank : p <= r.offset
      /\ \A p \in DOMAIN bank : p > r.offset /\ p <= r.offset + Len(page) =>
            p - r.offset \in DOMAIN page /\ page[p - r.offset] = bank[p]
    BY ZenonT(30), <1>3, <1>4, <1>5, PageIsNext
<1> DEFINE last == counted /\ IsLast(b, page)
<1> HIDE DEF page
<1>7. last \in BOOLEAN /\ (last => r.offset + Len(page) >= Len(bank))
    BY DEF IsLast
<1>8. StoredIds' = StoredIds
    BY <1>2 DEF StoredIds
<1>9. PICK s : /\ Turns(b, s)
               /\ s = IF page = << >> THEN [r EXCEPT !.stage = "done"]
                      ELSE [r EXCEPT !.stage = "item", !.page = page, !.at = 1, !.last = last]
    BY <1>1
<1> HIDE DEF r, last
<1>10. FillerOK(s, bank, StoredIds', b \in shifted') /\ s.vector = r.vector
  <2>1. CASE page = << >>
    <3>1. s = [r EXCEPT !.stage = "done"] /\ "done" \in FillStages /\ r.refused \in Nat
        BY <1>4, <1>9, <2>1 DEF FillStages, FillerState
    <3>2. /\ s \in FillerState /\ s.stage = "done" /\ s.at = r.at /\ s.page = r.page
          /\ s.last = r.last /\ s.offset = r.offset /\ s.due = r.due /\ s.vector = r.vector
          /\ s.refused = r.refused
        BY <1>4, <3>1, FillerGoes
    <3>3. \A i : ~Ahead(r, bank, i)
      <4>1. \A p \in DOMAIN bank : p <= r.offset
          BY <1>6, <2>1
      <4> QED BY <1>3, <1>4, <4>1 DEF Ahead
    <3> QED BY <1>2, <1>3, <1>8, <3>2, <3>3 DEF FillerOK
  <2>2. CASE page # << >>
    <3>1. s = [r EXCEPT !.stage = "item", !.page = page, !.at = 1, !.last = last]
          /\ "item" \in FillStages
        BY <1>9, <2>2 DEF FillStages
    <3>2. /\ s \in FillerState /\ s.stage = "item" /\ s.at = 1 /\ s.page = page
          /\ s.last = last /\ s.offset = r.offset /\ s.refused = r.refused /\ s.due = r.due
          /\ s.vector = r.vector
      <4>1. r \in FillerState /\ page \in Seq(Memory) /\ last \in BOOLEAN
          BY <1>4, <1>6, <1>7
      <4>2. s \in FillerState
          BY <3>1, <4>1 DEF FillerState
      <4>3. /\ s.stage = "item" /\ s.at = 1 /\ s.page = page /\ s.last = last
            /\ s.offset = r.offset /\ s.refused = r.refused /\ s.due = r.due /\ s.vector = r.vector
          BY <3>1, <4>1 DEF FillerState
      <4> QED BY <4>2, <4>3
    <3>3. s.at \in 1..Len(s.page)
        BY <1>6, <2>2, <3>2
    <3>4. ASSUME NEW i, Ahead(r, bank, i) PROVE Ahead(s, bank, i)
      <4>1. PICK p \in DOMAIN bank : p > r.offset /\ bank[p] = i
          BY <1>4, <3>4 DEF Ahead
      <4>2. CASE p <= r.offset + Len(page)
        <5>1. p - r.offset \in DOMAIN page /\ page[p - r.offset] = i /\ p - r.offset >= 1
            BY <1>3, <1>4, <1>6, <4>1, <4>2
        <5> QED BY <3>2, <5>1 DEF Ahead
      <4>3. CASE ~(p <= r.offset + Len(page))
        <5>1. p > r.offset + Len(page) /\ p <= Len(bank)
            BY <1>3, <1>4, <1>6, <4>3
        <5>2. ~last
            BY <1>3, <1>4, <1>6, <1>7, <5>1
        <5> QED BY <3>2, <4>1, <5>1, <5>2 DEF Ahead
      <4> QED BY <4>2, <4>3
    <3> QED BY <1>2, <1>3, <1>8, <3>2, <3>3, <3>4 DEF FillerOK
  <2> QED BY <2>1, <2>2
<1>11. /\ VectorOrNothing' /\ stored \subseteq Fact /\ fillFaults <= MaxFillFaults
       /\ \A f, g \in stored : f.id = g.id => f = g
    BY <1>2, BackfillAssumption DEF FillInv, VectorOrNothing
<1> QED BY <1>2, <1>9, <1>10, <1>11, FillerMoves DEF r

\* The steps of a run that hold the item they are at.
LEMMA HasItem ==
    ASSUME FillInv, NEW b \in Filler, filler[b].stage \in {"item", "absent", "embedded"}
    PROVE  /\ FillerOK(filler[b], bank, StoredIds, b \in shifted) /\ Item(b) \in Memory
           /\ filler[b] \in FillerState /\ Item(b) = filler[b].page[filler[b].at]
           /\ FactStored(Item(b)) <=> Item(b) \in StoredIds
           /\ fillFaults <= MaxFillFaults /\ stored \subseteq Fact
           /\ \A f, g \in stored : f.id = g.id => f = g
           /\ VectorOrNothing
<1>1. FillerOK(filler[b], bank, StoredIds, b \in shifted)
    BY DEF FillInv
<1>2. filler[b] \in FillerState /\ filler[b].at \in 1..Len(filler[b].page)
      /\ filler[b].page \in Seq(Memory)
    BY <1>1 DEF FillerOK, FillerState
<1>3. Item(b) \in Memory
    BY <1>2 DEF Item
<1>4. FactStored(Item(b)) <=> Item(b) \in StoredIds
    BY DEF FactStored, StoredIds
<1> QED BY <1>1, <1>2, <1>3, <1>4, BackfillAssumption DEF FillInv, Item

\* The run goes on with the item it has.
LEMMA StageTurns ==
    ASSUME FillInv, NEW b \in Filler, filler[b].stage \in {"item", "absent"},
           NEW stage \in {"absent", "embedded"}, Turns(b, [filler[b] EXCEPT !.stage = stage]),
           UNCHANGED <<bank, stored, shifted, fillFaults>>
    PROVE  FillInv'
<1>1. FillerOK(filler[b], bank, StoredIds, b \in shifted) /\ filler[b] \in FillerState
    BY HasItem
<1>2. PICK s : s = [filler[b] EXCEPT !.stage = stage]
    OBVIOUS
<1>3. stage \in FillStages /\ filler[b].refused \in Nat
    BY <1>1 DEF FillStages, FillerState
<1>4. /\ s \in FillerState /\ s.stage = stage /\ s.at = filler[b].at /\ s.page = filler[b].page
      /\ s.last = filler[b].last /\ s.offset = filler[b].offset /\ s.due = filler[b].due
      /\ s.vector = filler[b].vector /\ s.refused = filler[b].refused
    BY <1>1, <1>2, <1>3, FillerGoes
<1>5. \A i : Ahead(filler[b], bank, i) => Ahead(s, bank, i)
    BY <1>4 DEF Ahead
<1>6. FillerOK(s, bank, StoredIds, b \in shifted)
    BY <1>1, <1>4, <1>5 DEF FillerOK
<1>7. StoredIds' = StoredIds /\ VectorOrNothing'
    BY HasItem DEF StoredIds, VectorOrNothing
<1> QED BY <1>2, <1>4, <1>6, <1>7, HasItem, FillerMoves

LEMMA RunFails ==
    ASSUME FillInv, NEW b \in Filler, filler[b].stage \notin {"idle", "done", "failed"},
           Turns(b, [filler[b] EXCEPT !.stage = "failed"]), UNCHANGED <<bank, stored, shifted>>,
           fillFaults < MaxFillFaults, fillFaults' = fillFaults + 1
    PROVE  FillInv'
<1>1. FillerOK(filler[b], bank, StoredIds, b \in shifted) /\ filler[b] \in FillerState
    BY DEF FillInv, FillerOK
<1>2. PICK s : s = [filler[b] EXCEPT !.stage = "failed"]
    OBVIOUS
<1>3. "failed" \in FillStages /\ filler[b].refused \in Nat
    BY <1>1 DEF FillStages, FillerState
<1>4. /\ s \in FillerState /\ s.stage = "failed" /\ s.at = filler[b].at /\ s.page = filler[b].page
      /\ s.last = filler[b].last /\ s.offset = filler[b].offset /\ s.due = filler[b].due
      /\ s.vector = filler[b].vector /\ s.refused = filler[b].refused
    BY <1>1, <1>2, <1>3, FillerGoes
<1>5. FillerOK(s, bank, StoredIds, b \in shifted)
    BY <1>1, <1>4 DEF FillerOK
<1>6. StoredIds' = StoredIds /\ VectorOrNothing'
    BY DEF StoredIds, VectorOrNothing, FillInv
<1>7. /\ fillFaults' <= MaxFillFaults /\ stored \subseteq Fact
      /\ \A f, g \in stored : f.id = g.id => f = g
    BY BackfillAssumption DEF FillInv
<1> QED BY <1>2, <1>4, <1>5, <1>6, <1>7, FillerMoves

LEMMA LookInv == ASSUME FillInv, NEW b \in Filler, Look(b) PROVE FillInv'
<1>1. filler[b].stage = "item" /\ UNCHANGED <<bank, stored, shifted, fillFaults>>
    BY DEF Look
<1>2. StoredIds' = StoredIds /\ VectorOrNothing' = VectorOrNothing
    BY <1>1 DEF StoredIds, VectorOrNothing
<1>3. CASE Item(b) \in Empty \cup Unusable \/ FactStored(Item(b))
  <2>1. Turns(b, After(filler[b]))
      BY <1>3 DEF Look
  <2>2. FillerOK(After(filler[b]), bank, StoredIds, b \in shifted)
        /\ After(filler[b]).vector = filler[b].vector
      BY <1>1, <1>3, HasItem, AfterOK
  <2> QED BY <1>1, <1>2, <2>1, <2>2, HasItem, FillerMoves
<1>4. CASE ~(Item(b) \in Empty \cup Unusable \/ FactStored(Item(b)))
  <2>1. Turns(b, [filler[b] EXCEPT !.stage = "absent"])
      BY <1>4 DEF Look
  <2> QED BY <1>1, <1>2, <2>1, StageTurns
<1> QED BY <1>3, <1>4

LEMMA EmbedInv == ASSUME FillInv, NEW b \in Filler, Embed(b) PROVE FillInv'
<1>1. /\ filler[b].stage = "absent" /\ Turns(b, [filler[b] EXCEPT !.stage = "embedded"])
      /\ UNCHANGED <<bank, stored, shifted, fillFaults>>
    BY DEF Embed
<1> QED BY <1>1, StageTurns

LEMMA EmbedRefusedInv == ASSUME FillInv, NEW b \in Filler, EmbedRefused(b) PROVE FillInv'
<1>1. /\ filler[b].stage = "absent" /\ Turns(b, [filler[b] EXCEPT !.stage = "failed"])
      /\ UNCHANGED <<bank, stored, shifted>> /\ FillFault
    BY DEF EmbedRefused, Declined
<1> QED BY <1>1, RunFails DEF FillFault

LEMMA FillDiesInv == ASSUME FillInv, NEW b \in Filler, FillDies(b) PROVE FillInv'
BY RunFails DEF FillDies, FillFault

\* A fact of a run is written under an id of its own.
LEMMA FactAdded ==
    ASSUME FillInv, NEW b \in Filler, filler[b].stage = "embedded", ~FactStored(Item(b)),
           stored' = stored \cup {[id |-> Item(b), by |-> b, vector |-> filler[b].vector]}
    PROVE  /\ stored' \subseteq Fact /\ stored \subseteq stored'
           /\ \A f, g \in stored' : f.id = g.id => f = g
           /\ VectorOrNothing' /\ Item(b) \in StoredIds'
<1> DEFINE new == [id |-> Item(b), by |-> b, vector |-> filler[b].vector]
<1>1. /\ Item(b) \in Memory /\ filler[b] \in FillerState /\ stored \subseteq Fact
      /\ \A f, g \in stored : f.id = g.id => f = g
    BY HasItem
<1>2. filler[b].vector \in BOOLEAN
    BY <1>1 DEF FillerState
<1>3. new \in Fact
    BY <1>1, <1>2 DEF Fact
<1>4. new.id = Item(b) /\ new.by = b /\ new.vector = filler[b].vector
    OBVIOUS
<1> HIDE DEF new
<1>5. stored' = stored \cup {new}
    BY DEF new
<1>6. \A f \in stored : f.id # new.id
    BY <1>4 DEF FactStored
<1>7. VectorOrNothing'
  <2> SUFFICES ASSUME NEW f \in stored', f.by \notin Plain PROVE f.vector
      BY DEF VectorOrNothing
  <2>1. CASE f \in stored
      BY <2>1 DEF FillInv, VectorOrNothing
  <2>2. CASE f = new
    <3>1. b \in Filler \ Plain
        BY <1>4, <2>2
    <3>2. new.vector = TRUE
        BY <1>4, <3>1 DEF FillInv
    <3> QED BY <2>2, <3>2
  <2> QED BY <1>5, <2>1, <2>2
<1>8. Item(b) \in StoredIds'
    BY <1>4, <1>5 DEF StoredIds
<1> QED BY <1>1, <1>3, <1>5, <1>6, <1>7, <1>8

\* A refused row is counted, and a run that counted one promises nothing.
LEMMA RefusedOK ==
    ASSUME NEW r, NEW q, NEW ids, NEW moved, FillerOK(r, q, ids, moved),
           r.stage \in {"item", "absent", "embedded"}
    PROVE  FillerOK(Refused(r), q, ids, moved) /\ Refused(r).vector = r.vector
<1>1. r \in FillerState /\ r.refused \in Nat /\ r.refused + 1 \in Nat /\ r.stage \in FillStages
    BY DEF FillerOK, FillerState
<1>2. PICK a : a = [r EXCEPT !.refused = r.refused + 1]
    OBVIOUS
<1>3. /\ a \in FillerState /\ a.stage = r.stage /\ a.at = r.at /\ a.page = r.page
      /\ a.last = r.last /\ a.offset = r.offset /\ a.due = r.due /\ a.vector = r.vector
      /\ a.refused = r.refused + 1
    BY <1>1, <1>2, FillerGoes
<1>4. a.refused # 0
    BY <1>1, <1>3
<1>5. FillerOK(a, q, ids, moved)
    BY <1>3, <1>4 DEF FillerOK
<1>6. Refused(r) = After(a)
    BY <1>2 DEF Refused
<1> QED BY <1>3, <1>4, <1>5, <1>6, AfterOK

LEMMA WriteFillInv == ASSUME FillInv, NEW b \in Filler, WriteFill(b) PROVE FillInv'
<1>1. filler[b].stage = "embedded" /\ UNCHANGED <<bank, shifted, fillFaults>>
    BY DEF WriteFill
<1>2. CASE FactStored(Item(b))
  <2>1. UNCHANGED stored /\ Turns(b, Refused(filler[b]))
      BY <1>2, Zenon DEF WriteFill
  <2>2. StoredIds' = StoredIds /\ VectorOrNothing'
      BY <2>1, <1>1, HasItem DEF StoredIds, VectorOrNothing
  <2>3. FillerOK(Refused(filler[b]), bank, StoredIds, b \in shifted)
        /\ Refused(filler[b]).vector = filler[b].vector
      BY <1>1, HasItem, RefusedOK
  <2> QED BY <1>1, <2>1, <2>2, <2>3, HasItem, FillerMoves
<1>3. CASE ~FactStored(Item(b))
  <2>1. /\ stored' = stored \cup {[id |-> Item(b), by |-> b, vector |-> filler[b].vector]}
        /\ Turns(b, After(filler[b]))
      BY <1>3, Zenon DEF WriteFill
  <2>2. /\ stored' \subseteq Fact /\ stored \subseteq stored'
        /\ \A f, g \in stored' : f.id = g.id => f = g
        /\ VectorOrNothing' /\ Item(b) \in StoredIds'
      BY <1>1, <1>3, <2>1, FactAdded
  <2>3. StoredIds \subseteq StoredIds'
      BY <2>2 DEF StoredIds
  <2>4. FillerOK(filler[b], bank, StoredIds', b \in shifted)
      BY <1>1, <2>3, HasItem, FillerStays
  <2>5. FillerOK(After(filler[b]), bank, StoredIds', b \in shifted)
        /\ After(filler[b]).vector = filler[b].vector
      BY <1>1, <2>2, <2>4, HasItem, AfterOK
  <2> QED BY <1>1, <2>1, <2>2, <2>5, HasItem, FillerMoves
<1> QED BY <1>2, <1>3

LEMMA WriteRefusedInv == ASSUME FillInv, NEW b \in Filler, WriteRefused(b) PROVE FillInv'
<1>1. /\ filler[b].stage = "embedded" /\ UNCHANGED <<bank, shifted>> /\ FillFault
      /\ Turns(b, Refused(filler[b]))
    BY DEF WriteRefused
<1>2. \/ stored' = stored
      \/ /\ ~FactStored(Item(b))
         /\ stored' = stored \cup {[id |-> Item(b), by |-> b, vector |-> filler[b].vector]}
  <2>1. CASE FactStored(Item(b))
      BY <2>1 DEF WriteRefused
  <2>2. CASE ~FactStored(Item(b))
      BY <2>2 DEF WriteRefused
  <2> QED BY <2>1, <2>2
<1>3. /\ stored' \subseteq Fact /\ stored \subseteq stored'
      /\ \A f, g \in stored' : f.id = g.id => f = g
      /\ VectorOrNothing'
  <2>1. CASE stored' = stored
      BY <1>1, <2>1, HasItem DEF VectorOrNothing
  <2>2. CASE stored' # stored
      BY <1>1, <1>2, <2>2, FactAdded
  <2> QED BY <2>1, <2>2
<1>4. StoredIds \subseteq StoredIds'
    BY <1>3 DEF StoredIds
<1>5. FillerOK(filler[b], bank, StoredIds', b \in shifted)
    BY <1>1, <1>4, HasItem, FillerStays
<1>6. FillerOK(Refused(filler[b]), bank, StoredIds', b \in shifted)
      /\ Refused(filler[b]).vector = filler[b].vector
    BY <1>1, <1>5, RefusedOK
<1>7. fillFaults' = fillFaults + 1 /\ fillFaults' <= MaxFillFaults
    BY <1>1, BackfillAssumption DEF FillFault, FillInv
<1> QED BY <1>1, <1>3, <1>6, <1>7, FillerMoves

\* A memory leaves the list, and every run under way is told of it.
LEMMA ForgetInv == ASSUME FillInv, NEW k \in DOMAIN bank, Forget(k) PROVE FillInv'
<1>1. /\ bank' = RemoveAt(bank, k) /\ FillFault /\ shifted' = {b \in Filler : filler[b].stage # "idle"}
      /\ UNCHANGED <<stored, filler>>
    BY DEF Forget
<1>2. bank \in Seq(Memory) /\ IsInjective(bank) /\ Len(bank) \in Nat /\ k \in 1..Len(bank)
    BY DEF FillInv
<1>3. /\ bank' \in Seq(Memory) /\ Len(bank') = Len(bank) - 1
      /\ \A j \in 1..(Len(bank) - 1) : bank'[j] = IF j < k THEN bank[j] ELSE bank[j + 1]
  <2> DEFINE left == SubSeq(bank, 1, k - 1)
             right == SubSeq(bank, k + 1, Len(bank))
  <2>1. /\ left \in Seq(Memory) /\ Len(left) = k - 1 /\ \A j \in 1..(k - 1) : left[j] = bank[j]
      BY <1>2
  <2>2. /\ right \in Seq(Memory) /\ Len(right) = Len(bank) - k
        /\ \A j \in 1..(Len(bank) - k) : right[j] = bank[k + j]
      BY <1>2
  <2>3. bank' = left \o right
      BY <1>1 DEF RemoveAt
  <2> HIDE DEF left, right
  <2>4. bank' \in Seq(Memory) /\ Len(bank') = Len(bank) - 1
      BY <1>2, <2>1, <2>2, <2>3
  <2>5. ASSUME NEW j \in 1..(Len(bank) - 1)
        PROVE  bank'[j] = IF j < k THEN bank[j] ELSE bank[j + 1]
    <3>1. CASE j < k
        BY <1>2, <2>1, <2>2, <2>3, <3>1
    <3>2. CASE ~(j < k)
      <4>1. bank'[j] = right[j - (k - 1)]
          BY SMTT(30), <1>2, <2>1, <2>2, <2>3, <3>2
      <4>2. right[j - (k - 1)] = bank[k + (j - (k - 1))]
          BY <1>2, <2>2, <3>2
      <4>3. k + (j - (k - 1)) = j + 1
          BY <1>2
      <4> QED BY <3>2, <4>1, <4>2, <4>3
    <3> QED BY <3>1, <3>2
  <2> QED BY <2>4, <2>5
<1>4. IsInjective(bank')
  <2> SUFFICES ASSUME NEW i \in DOMAIN bank', NEW j \in DOMAIN bank', bank'[i] = bank'[j], i # j
               PROVE  FALSE
      BY DEF IsInjective
  <2>1. i \in 1..(Len(bank) - 1) /\ j \in 1..(Len(bank) - 1)
      BY <1>2, <1>3
  <2>2. PICK u \in 1..Len(bank) : bank'[i] = bank[u] /\ u = (IF i < k THEN i ELSE i + 1)
      BY SMTT(30), <1>2, <1>3, <2>1
  <2>3. PICK v \in 1..Len(bank) : bank'[j] = bank[v] /\ v = (IF j < k THEN j ELSE j + 1)
      BY SMTT(30), <1>2, <1>3, <2>1
  <2>4. u # v
      BY <1>2, <2>1, <2>2, <2>3
  <2>5. u \in DOMAIN bank /\ v \in DOMAIN bank
      BY <1>2
  <2>6. bank[u] = bank[v]
      BY <2>2, <2>3
  <2> QED BY <1>2, <2>4, <2>5, <2>6 DEF IsInjective
<1>5. ASSUME NEW b \in Filler
      PROVE  FillerOK(filler[b], bank', StoredIds, b \in shifted')
  <2>1. FillerOK(filler[b], bank, StoredIds, b \in shifted)
      BY DEF FillInv
  <2>2. CASE filler[b].stage = "idle"
      BY <2>1, <2>2 DEF FillerOK
  <2>3. CASE filler[b].stage # "idle"
    <3>1. (b \in shifted') = TRUE
        BY <1>1, <2>3
    <3> QED BY <2>1, <3>1 DEF FillerOK
  <2> QED BY <2>2, <2>3
<1>6. StoredIds' = StoredIds /\ VectorOrNothing' = VectorOrNothing
    BY <1>1 DEF StoredIds, VectorOrNothing
<1>7. fillFaults' \in 0..MaxFillFaults
    BY <1>1, BackfillAssumption DEF FillFault, FillInv
<1>8. shifted' \subseteq Filler
    BY <1>1
<1> QED BY <1>1, <1>3, <1>4, <1>5, <1>6, <1>7, <1>8 DEF FillInv

\* A memory more, at either end: what a run has before it stays before it.
LEMMA RetainInv == ASSUME FillInv, NEW i \in Memory, Retain(i) PROVE FillInv'
<1>1. /\ i \notin ToSet(bank) /\ (bank' = Append(bank, i) \/ bank' = <<i>> \o bank) /\ FillFault
      /\ UNCHANGED <<stored, filler, shifted>>
    BY DEF Retain
<1>2. bank \in Seq(Memory) /\ IsInjective(bank) /\ Len(bank) \in Nat
    BY DEF FillInv
<1>3. PICK e \in {0, 1} : /\ bank' \in Seq(Memory) /\ Len(bank') = Len(bank) + 1
                          /\ \A p \in 1..Len(bank) : bank'[p + e] = bank[p]
                          /\ bank'[IF e = 0 THEN Len(bank) + 1 ELSE 1] = i
  <2>1. CASE bank' = Append(bank, i)
    <3>1. /\ bank' \in Seq(Memory) /\ Len(bank') = Len(bank) + 1 /\ bank'[Len(bank) + 1] = i
          /\ \A p \in 1..Len(bank) : bank'[p] = bank[p]
        BY <1>2, <2>1
    <3>2. \A p \in 1..Len(bank) : bank'[p + 0] = bank[p]
        BY <1>2, <3>1
    <3> QED BY <3>1, <3>2
  <2>2. CASE bank' = <<i>> \o bank
    <3>1. bank' \in Seq(Memory) /\ Len(bank') = Len(bank) + 1
        BY <1>2, <2>2
    <3>2. bank'[1] = i
        BY <1>2, <2>2
    <3>3. ASSUME NEW p \in 1..Len(bank) PROVE bank'[p + 1] = bank[p]
        BY <1>2, <2>2
    <3> QED BY <3>1, <3>2, <3>3
  <2> QED BY <1>1, <2>1, <2>2
<1>4. \A p \in DOMAIN bank : p \in Nat /\ p + e \in DOMAIN bank' /\ bank'[p + e] = bank[p]
    BY <1>2, <1>3
<1>5. IsInjective(bank')
  <2> SUFFICES ASSUME NEW u \in DOMAIN bank', NEW v \in DOMAIN bank', bank'[u] = bank'[v], u # v
               PROVE  FALSE
      BY DEF IsInjective
  <2> DEFINE new == IF e = 0 THEN Len(bank) + 1 ELSE 1
  <2>1. \A p \in DOMAIN bank' : p # new => p - e \in DOMAIN bank /\ bank'[p] = bank[p - e] /\ p \in Int
    <3> SUFFICES ASSUME NEW p \in DOMAIN bank', p # new
                 PROVE  p - e \in DOMAIN bank /\ bank'[p] = bank[p - e] /\ p \in Int
        OBVIOUS
    <3>1. p \in 1..(Len(bank) + 1)
        BY <1>2, <1>3
    <3>2. p - e \in 1..Len(bank) /\ (p - e) + e = p
        BY <1>2, <3>1
    <3> QED BY <1>2, <1>3, <3>1, <3>2
  <2>2. bank'[new] = i
      BY <1>3
  <2>3. \A p \in DOMAIN bank : bank[p] # i
      BY <1>1 DEF ToSet
  <2>4. u # new /\ v # new
    <3> HIDE DEF new
    <3> QED BY <2>1, <2>2, <2>3
  <2>5. u - e = v - e
      BY <1>2, <2>1, <2>4 DEF IsInjective
  <2> QED BY <2>1, <2>4, <2>5
<1>6. ASSUME NEW b \in Filler
      PROVE  FillerOK(filler[b], bank', StoredIds, b \in shifted)
  <2>1. FillerOK(filler[b], bank, StoredIds, b \in shifted)
      BY DEF FillInv
  <2>2. ToSet(bank) \subseteq ToSet(bank')
      BY <1>4 DEF ToSet
  <2>3. \A k : Ahead(filler[b], bank, k) => Ahead(filler[b], bank', k)
    <3> SUFFICES ASSUME NEW p \in DOMAIN bank, p > filler[b].offset + Len(filler[b].page)
                 PROVE  \E w \in DOMAIN bank' : w > filler[b].offset + Len(filler[b].page)
                                                /\ bank'[w] = bank[p]
        BY DEF Ahead
    <3>1. filler[b].offset + Len(filler[b].page) \in Nat
        BY <2>1 DEF FillerOK, FillerState
    <3>2. p + e > filler[b].offset + Len(filler[b].page)
        BY <1>4, <3>1
    <3> QED BY <1>4, <3>2
  <2> QED BY <2>1, <2>2, <2>3 DEF FillerOK
<1>7. StoredIds' = StoredIds /\ VectorOrNothing' = VectorOrNothing
    BY <1>1 DEF StoredIds, VectorOrNothing
<1>8. fillFaults' \in 0..MaxFillFaults
    BY <1>1, BackfillAssumption DEF FillFault, FillInv
<1> QED BY <1>1, <1>3, <1>5, <1>6, <1>7, <1>8 DEF FillInv

LEMMA FillNextInv == FillInv /\ [FillNext]_fillVars => FillInv'
<1> SUFFICES ASSUME FillInv, [FillNext]_fillVars PROVE FillInv'
    OBVIOUS
<1>1. ASSUME NEW b \in Filler, Begin(b) \/ FillPage(b) \/ Look(b) PROVE FillInv'
    BY <1>1, FillBeginInv, FillPageInv, LookInv
<1>2. ASSUME NEW b \in Filler, Embed(b) \/ EmbedRefused(b) PROVE FillInv'
    BY <1>2, EmbedInv, EmbedRefusedInv
<1>3. ASSUME NEW b \in Filler, WriteFill(b) \/ WriteRefused(b) PROVE FillInv'
    BY <1>3, WriteFillInv, WriteRefusedInv
<1>4. ASSUME NEW b \in Filler, FillDies(b) PROVE FillInv'
    BY <1>4, FillDiesInv
<1>5. ASSUME NEW k \in DOMAIN bank, Forget(k) PROVE FillInv'
    BY <1>5, ForgetInv
<1>6. ASSUME NEW i \in Memory, Retain(i) PROVE FillInv'
    BY <1>6, RetainInv
<1>7. CASE UNCHANGED fillVars
    BY <1>7 DEF fillVars, FillInv, StoredIds, VectorOrNothing
<1> QED BY <1>1, <1>2, <1>3, <1>4, <1>5, <1>6, <1>7 DEF FillNext

\* However many fillers run, wherever they die and whatever the old memory forgets
\* or retains meanwhile: a run that reports success has brought over all that was
\* due and stayed in sight, and a run that embeds stores no fact without a vector.
THEOREM FillHolds == FillSpec => [](FillTypeOK /\ BridgeIsComplete)
<1> QED BY FillFacts, FillInitInv, FillNextInv, PTL DEF FillSpec

-----------------------------------------------------------------------------
(* The task history. Every event bears its place as its number; what the   *)
(* server remembers is on the stream; and what a replay has swept, it has  *)
(* read.                                                                   *)

OnStream(s) == {stream[s][i] : i \in 1..Len(stream[s])}

\* An event bears its place as its number, and the process has got so far.
Told(m) ==
    m \in Message /\ m.seq = m.at /\ m.run <= life.run /\ (m.run = life.run => m.at <= life.at)

\* What the server remembers is on the stream, unless it was taken from there.
WindowIsKept ==
    ~cut => \A s \in Streams : \A q \in window[s] : \E e \in OnStream(s) : e.seq = q

\* What a replay of a run that is over has swept, it has read.
SweptIsRead ==
    sweep.stage \in 1..4 /\ sweep.quiet /\ ~cut /\ life.run = 0 =>
        ~Running /\ \A i \in 1..3 : i < sweep.stage => OnStream(SweepOrder[i]) \subseteq sweep.read

HistoryInv ==
    /\ HistoryTypeOK
    /\ life.seq = life.at
    /\ \A s \in Streams : \A m \in OnStream(s) : Told(m)
    /\ \A m \in acked : Told(m)
    /\ \A m \in sweep.read : m.seq = m.at
    /\ sweep.stage = 0 => sweep = NoSweep
    /\ WindowIsKept
    /\ AckedIsThereOrShadowed
    /\ SweptIsRead

-----------------------------------------------------------------------------
LEMMA KeptIsOnStreams == Kept = UNION {OnStream(s) : s \in Streams}
BY DEF Kept, OnStream

LEMMA SweepsReachAll == \A s \in Streams : \E i \in 1..3 : SweepOrder[i] = s
<1>1. SweepOrder[1] = "tasks" /\ SweepOrder[2] = "audit" /\ SweepOrder[3] = "verdicts"
    BY DEF SweepOrder
<1> QED BY <1>1 DEF Streams

LEMMA HistoryFacts == HistoryInv => HistoryIsTold
<1> SUFFICES ASSUME HistoryInv PROVE HistoryIsTold
    OBVIOUS
<1>1. AckedIsThereOrShadowed
    BY DEF HistoryInv
<1>2. ASSUME sweep.stage = 4, sweep.quiet, ~cut, life.run = 0
      PROVE  /\ acked \subseteq sweep.read
             /\ \A m, e \in sweep.read : m.at < e.at <=> m.seq < e.seq
             /\ \A q \in Gaps(sweep.read) : \A m \in acked : m.at # q
  <2>1. \A s \in Streams : OnStream(s) \subseteq sweep.read
    <3>1. \A i \in 1..3 : OnStream(SweepOrder[i]) \subseteq sweep.read
        BY <1>2 DEF HistoryInv, SweptIsRead
    <3> QED BY <3>1, SweepsReachAll
  <2>2. Kept \subseteq sweep.read
      BY <2>1, KeptIsOnStreams
  <2>3. ASSUME NEW m \in acked PROVE m \in sweep.read /\ m.seq = m.at
    <3>1. m \in Message /\ m.run = 0 /\ m.seq = m.at
        BY <1>2 DEF HistoryInv, Told, Message
    <3>2. \A e \in Kept : e \in Message
        BY KeptIsOnStreams DEF HistoryInv, Told
    <3>3. \A e \in Kept : ~(e.run < m.run)
        BY <3>1, <3>2 DEF Message
    <3> QED BY <1>1, <1>2, <2>2, <3>1, <3>3 DEF AckedIsThereOrShadowed
  <2>4. \A m \in sweep.read : m.seq = m.at
      BY DEF HistoryInv
  <2>5. ASSUME NEW q \in Gaps(sweep.read), NEW m \in acked, m.at = q PROVE FALSE
    <3>1. q \notin Seqs(sweep.read)
        BY DEF Gaps
    <3> QED BY <2>3, <2>5, <3>1 DEF Seqs
  <2> QED BY <2>3, <2>4, <2>5
<1> QED BY <1>1, <1>2 DEF HistoryIsTold, ReplayTellsTheRun

LEMMA HistoryInitInv == HistoryInit => HistoryInv
<1> SUFFICES ASSUME HistoryInit PROVE HistoryInv
    OBVIOUS
<1> USE HistoryAssumption
<1>1. HistoryTypeOK
  <2>1. life \in [run : 0..MaxRestarts, seq : Nat, at : 0..Len(Script), up : BOOLEAN]
      BY DEF HistoryInit
  <2>2. stream \in [Streams -> Seq(Message)]
      BY DEF HistoryInit
  <2>3. sweep \in [stage : 0..4, read : SUBSET Message, quiet : BOOLEAN]
      BY DEF HistoryInit, NoSweep
  <2>4. window \in [Streams -> SUBSET Nat]
      BY DEF HistoryInit
  <2>5. acked \subseteq Message /\ cut \in BOOLEAN
      BY DEF HistoryInit
  <2>6. historyFaults \in 0..MaxHistoryFaults
      BY DEF HistoryInit
  <2> QED BY <2>1, <2>2, <2>3, <2>4, <2>5, <2>6 DEF HistoryTypeOK
<1>2. \A s \in Streams : OnStream(s) = {}
    BY DEF HistoryInit, OnStream
<1>3. life.seq = life.at
    BY DEF HistoryInit
<1>4. sweep = NoSweep /\ sweep.stage = 0 /\ sweep.read = {}
    BY DEF HistoryInit, NoSweep
<1>5. WindowIsKept /\ AckedIsThereOrShadowed
    BY DEF HistoryInit, WindowIsKept, AckedIsThereOrShadowed
<1> QED BY <1>1, <1>2, <1>3, <1>4, <1>5 DEF HistoryInit, HistoryInv, SweptIsRead

\* The server takes an event: it is on the stream, or its number was remembered.
LEMMA StoredOnce ==
    ASSUME stream \in [Streams -> Seq(Message)], window \in [Streams -> SUBSET Nat],
           NEW s \in Streams, NEW m \in Message, Stored(s, m)
    PROVE  /\ stream' \in [Streams -> Seq(Message)] /\ window' \in [Streams -> SUBSET Nat]
           /\ \A t \in Streams : OnStream(t) \subseteq OnStream(t)'
                                 /\ OnStream(t)' \subseteq OnStream(t) \cup {m}
           /\ m \in OnStream(s)' \/ m.seq \in window[s]
           /\ \A t \in Streams : \A q \in window'[t] : q \in window[t] \/ (t = s /\ q = m.seq)
<1>1. window' = [window EXCEPT ![s] = @ \cup {m.seq}] /\ m.seq \in Nat
    BY DEF Stored, Message
<1>2. window' \in [Streams -> SUBSET Nat]
    BY <1>1
<1>3. \A t \in Streams : \A q \in window'[t] : q \in window[t] \/ (t = s /\ q = m.seq)
    BY <1>1
<1>4. CASE m.seq \in window[s]
  <2>1. stream' = stream
      BY <1>4 DEF Stored
  <2> QED BY <1>2, <1>3, <1>4, <2>1 DEF OnStream
<1>5. CASE m.seq \notin window[s]
  <2>1. stream' = [stream EXCEPT ![s] = Append(stream[s], m)]
      BY <1>5 DEF Stored
  <2>2. stream[s] \in Seq(Message) /\ Len(stream[s]) \in Nat
      OBVIOUS
  <2>3. /\ Append(stream[s], m) \in Seq(Message) /\ Len(Append(stream[s], m)) = Len(stream[s]) + 1
        /\ \A i \in 1..Len(stream[s]) : Append(stream[s], m)[i] = stream[s][i]
        /\ Append(stream[s], m)[Len(stream[s]) + 1] = m
      BY <2>2
  <2>4. stream' \in [Streams -> Seq(Message)]
      BY <2>1, <2>3
  <2>5. \A t \in Streams : t # s => OnStream(t)' = OnStream(t)
      BY <2>1 DEF OnStream
  <2>6. stream'[s] = Append(stream[s], m)
      BY <2>1
  <2>7. OnStream(s) \subseteq OnStream(s)'
      BY <2>2, <2>3, <2>6 DEF OnStream
  <2>8. OnStream(s)' \subseteq OnStream(s) \cup {m}
    <3> SUFFICES ASSUME NEW i \in 1..(Len(stream[s]) + 1)
                 PROVE  stream'[s][i] \in OnStream(s) \cup {m}
        BY <2>3, <2>6 DEF OnStream
    <3>1. CASE i = Len(stream[s]) + 1
        BY <2>3, <2>6, <3>1
    <3>2. CASE i # Len(stream[s]) + 1
        BY <2>2, <2>3, <2>6, <3>2 DEF OnStream
    <3> QED BY <3>1, <3>2
  <2>9. m \in OnStream(s)'
      BY <2>2, <2>3, <2>6 DEF OnStream
  <2> QED BY <1>2, <1>3, <2>4, <2>5, <2>7, <2>8, <2>9
<1> QED BY <1>4, <1>5

\* The event that is published next.
LEMMA NextEvent ==
    ASSUME HistoryInv, Running
    PROVE  /\ Event \in Message /\ Event.seq = life.at + 1 /\ Event.at = life.at + 1
           /\ Event.run = life.run /\ Target \in Streams
           /\ Numbered(life) = [run |-> life.run, seq |-> life.at + 1, at |-> life.at + 1, up |-> life.up]
           /\ life.at \in Nat /\ life.run \in 0..MaxRestarts /\ life.at + 1 \in 0..Len(Script)
<1>1. life \in [run : 0..MaxRestarts, seq : Nat, at : 0..Len(Script), up : BOOLEAN]
      /\ life.seq = life.at
    BY DEF HistoryInv, HistoryTypeOK
<1>2. life.at < Len(Script)
    BY DEF Running
<1>3. Numbered(life) = [run |-> life.run, seq |-> life.at + 1, at |-> life.at + 1, up |-> life.up]
  <2>1. PICK n : n = Numbered(life)
      OBVIOUS
  <2>2. n = [life EXCEPT !.seq = life.seq + 1, !.at = life.at + 1]
      BY <2>1 DEF Numbered
  <2>3. n.run = life.run /\ n.seq = life.at + 1 /\ n.at = life.at + 1 /\ n.up = life.up
      BY <1>1, <2>2
  <2>4. n = [run |-> n.run, seq |-> n.seq, at |-> n.at, up |-> n.up]
      BY <1>1, <2>2
  <2> QED BY <2>1, <2>3, <2>4
<1>4. Len(Script) \in Nat /\ life.at \in Nat /\ life.run \in Nat /\ MaxRestarts \in Nat
    BY <1>1, HistoryAssumption
<1>5. Event = [seq |-> life.at + 1, run |-> life.run, at |-> life.at + 1]
    BY <1>3 DEF Event
<1>6. Event \in Message
    BY <1>4, <1>5 DEF Message
<1>7. Target \in Streams
  <2>1. life.at + 1 \in 1..Len(Script)
      BY <1>2, <1>4
  <2> QED BY <2>1, HistoryAssumption DEF Target
<1> QED BY <1>1, <1>2, <1>3, <1>4, <1>5, <1>6, <1>7

\* A publish, answered or not: the event is stored as the server stores, or not
\* at all, and only what was stored is answered.
LEMMA PublishesInv ==
    ASSUME HistoryInv, Running, NEW up \in BOOLEAN,
           life' = [run |-> life.run, seq |-> life.at + 1, at |-> life.at + 1, up |-> up],
           \/ Stored(Target, Event) /\ acked' \in {acked, acked \cup {Event}}
           \/ UNCHANGED <<stream, window, acked>>,
           historyFaults' \in 0..MaxHistoryFaults, UNCHANGED <<sweep, cut>>
    PROVE  HistoryInv'
<1>0. PICK m, s : m = Event /\ s = Target
    OBVIOUS
<1>1. /\ m \in Message /\ m.seq = life.at + 1 /\ m.at = life.at + 1
      /\ m.run = life.run /\ s \in Streams
      /\ life.at \in Nat /\ life.run \in 0..MaxRestarts /\ life.at + 1 \in 0..Len(Script)
    BY <1>0, NextEvent
<1>2. HistoryTypeOK /\ WindowIsKept /\ AckedIsThereOrShadowed /\ SweptIsRead
    BY DEF HistoryInv
<1>3. MaxRestarts \in Nat /\ life.run \in Nat
    BY <1>1, HistoryAssumption
<1>4. \/ /\ stream' \in [Streams -> Seq(Message)] /\ window' \in [Streams -> SUBSET Nat]
         /\ \A t \in Streams : OnStream(t) \subseteq OnStream(t)'
                               /\ OnStream(t)' \subseteq OnStream(t) \cup {m}
         /\ m \in OnStream(s)' \/ m.seq \in window[s]
         /\ \A t \in Streams : \A q \in window'[t] : q \in window[t] \/ (t = s /\ q = m.seq)
         /\ acked' \in {acked, acked \cup {m}}
      \/ UNCHANGED <<stream, window, acked>>
  <2>1. CASE Stored(Target, Event) /\ acked' \in {acked, acked \cup {Event}}
    <3>1. Stored(s, m) /\ acked' \in {acked, acked \cup {m}}
        BY <1>0, <2>1
    <3>2. stream \in [Streams -> Seq(Message)] /\ window \in [Streams -> SUBSET Nat]
        BY <1>2 DEF HistoryTypeOK
    <3> QED BY <1>1, <3>1, <3>2, StoredOnce
  <2>2. CASE UNCHANGED <<stream, window, acked>>
      BY <2>2
  <2> QED BY <2>1, <2>2
<1>5. /\ stream' \in [Streams -> Seq(Message)] /\ window' \in [Streams -> SUBSET Nat]
      /\ \A t \in Streams : OnStream(t) \subseteq OnStream(t)'
                            /\ OnStream(t)' \subseteq OnStream(t) \cup {m}
      /\ acked' \subseteq acked \cup {m}
    BY <1>2, <1>4 DEF HistoryTypeOK, OnStream
<1>15. life'.run = life.run /\ life'.at = life.at + 1 /\ life'.seq = life.at + 1
    OBVIOUS
<1>6. \A e : Told(e) => Told(e)'
    BY <1>1, <1>3, <1>15 DEF Told, Message
<1>7. Told(m)'
    BY <1>1, <1>3, <1>15 DEF Told
<1>8. /\ \A t \in Streams : \A e \in OnStream(t)' : Told(e)'
      /\ \A e \in acked' : Told(e)'
    BY <1>5, <1>6, <1>7 DEF HistoryInv
<1>9. HistoryTypeOK'
  <2>1. life' \in [run : 0..MaxRestarts, seq : Nat, at : 0..Len(Script), up : BOOLEAN]
      BY <1>1, <1>3
  <2>2. acked' \subseteq Message
      BY <1>1, <1>2, <1>5 DEF HistoryTypeOK
  <2> QED BY <1>2, <1>5, <2>1, <2>2 DEF HistoryTypeOK
<1>10. WindowIsKept'
  <2>1. CASE UNCHANGED <<stream, window>>
      BY <1>2, <2>1 DEF WindowIsKept, OnStream
  <2>2. CASE /\ m \in OnStream(s)' \/ m.seq \in window[s]
             /\ \A t \in Streams : \A q \in window'[t] : q \in window[t] \/ (t = s /\ q = m.seq)
    <3> SUFFICES ASSUME ~cut, NEW t \in Streams, NEW q \in window'[t]
                 PROVE  \E e \in OnStream(t)' : e.seq = q
        BY DEF WindowIsKept
    <3>1. CASE q \in window[t]
        BY <1>2, <1>5, <3>1 DEF WindowIsKept
    <3>2. CASE t = s /\ q = m.seq
        BY <1>2, <1>5, <2>2, <3>2 DEF WindowIsKept
    <3> QED BY <2>2, <3>1, <3>2
  <2> QED BY <1>4, <2>1, <2>2
<1>11. Kept \subseteq Kept'
  <2>1. Kept' = UNION {OnStream(t)' : t \in Streams}
      BY DEF Kept, OnStream
  <2> QED BY <1>5, <2>1, KeptIsOnStreams
<1>12. AckedIsThereOrShadowed'
  <2> SUFFICES ASSUME ~cut, NEW a \in acked'
               PROVE  a \in Kept' \/ \E e \in Kept' : e.seq = a.seq /\ e.run < a.run
      BY DEF AckedIsThereOrShadowed
  <2>1. CASE a \in acked
      BY <1>2, <1>11, <2>1 DEF AckedIsThereOrShadowed
  <2>2. CASE a = m /\ a \notin acked
    <3>1. m \in OnStream(s)' \/ m.seq \in window[s]
        BY <1>4, <2>2
    <3>2. CASE m \in OnStream(s)'
      <4>1. Kept' = UNION {OnStream(t)' : t \in Streams}
          BY DEF Kept, OnStream
      <4> QED BY <1>1, <2>2, <3>2, <4>1
    <3>3. CASE m.seq \in window[s]
      <4>1. PICK e \in OnStream(s) : e.seq = m.seq
          BY <1>1, <1>2, <3>3 DEF WindowIsKept
      <4>2. Told(e)
          BY <1>1 DEF HistoryInv
      <4>3. e.run < m.run
          BY <1>1, <1>3, <4>1, <4>2 DEF Told, Message
      <4>4. e \in Kept'
          BY <1>1, <1>11, KeptIsOnStreams
      <4> QED BY <2>2, <4>1, <4>3, <4>4
    <3> QED BY <3>1, <3>2, <3>3
  <2> QED BY <1>5, <2>1, <2>2
<1>13. SweptIsRead'
    BY <1>2 DEF SweptIsRead
<1>14. life'.seq = life'.at
    OBVIOUS
<1> QED BY <1>8, <1>9, <1>10, <1>12, <1>13, <1>14 DEF HistoryInv

LEMMA PublishInv == ASSUME HistoryInv, Publish PROVE HistoryInv'
<1>1. /\ Running /\ Stored(Target, Event) /\ acked' = acked \cup {Event} /\ life' = Numbered(life)
      /\ UNCHANGED <<sweep, cut, historyFaults>>
    BY DEF Publish
<1>2. life.up \in BOOLEAN /\ historyFaults \in 0..MaxHistoryFaults
    BY DEF HistoryInv, HistoryTypeOK
<1>3. life' = [run |-> life.run, seq |-> life.at + 1, at |-> life.at + 1, up |-> life.up]
    BY <1>1, NextEvent
<1> QED BY <1>1, <1>2, <1>3, PublishesInv

LEMMA PublishFailsInv ==
    ASSUME HistoryInv, NEW wasKept \in BOOLEAN, NEW goesOn \in BOOLEAN, PublishFails(wasKept, goesOn)
    PROVE  HistoryInv'
<1>1. /\ Running /\ HistoryFault /\ life' = [Numbered(life) EXCEPT !.up = goesOn]
      /\ UNCHANGED <<acked, sweep, cut>>
    BY DEF PublishFails
<1>2. Stored(Target, Event) \/ UNCHANGED <<stream, window>>
    BY DEF PublishFails
<1>3. historyFaults' \in 0..MaxHistoryFaults
    BY <1>1, HistoryAssumption DEF HistoryInv, HistoryTypeOK, HistoryFault
<1>4. life' = [run |-> life.run, seq |-> life.at + 1, at |-> life.at + 1, up |-> goesOn]
  <2>1. Numbered(life) = [run |-> life.run, seq |-> life.at + 1, at |-> life.at + 1, up |-> life.up]
      BY <1>1, NextEvent
  <2> QED BY <1>1, <2>1
<1> QED BY <1>1, <1>2, <1>3, <1>4, PublishesInv

\* Another process starts from the start, under the next run.
LEMMA TakeUpAgainInv == ASSUME HistoryInv, TakeUpAgain PROVE HistoryInv'
<1>1. /\ life.run < MaxRestarts
      /\ life' = [run |-> life.run + 1, seq |-> 0, at |-> 0, up |-> TRUE]
      /\ UNCHANGED <<stream, window, acked, sweep, cut, historyFaults>>
    BY DEF TakeUpAgain
<1>2. HistoryTypeOK /\ life.run \in 0..MaxRestarts /\ MaxRestarts \in Nat /\ life.run \in Nat
      /\ Len(Script) \in Nat
    BY HistoryAssumption DEF HistoryInv, HistoryTypeOK
<1>3. life'.run = life.run + 1 /\ life'.seq = life'.at
    BY <1>1
<1>4. \A e : Told(e) => Told(e)'
    BY <1>2, <1>3 DEF Told, Message
<1>5. \A s : OnStream(s)' = OnStream(s)
    BY <1>1 DEF OnStream
<1>6. HistoryTypeOK'
  <2>1. life' \in [run : 0..MaxRestarts, seq : Nat, at : 0..Len(Script), up : BOOLEAN]
      BY <1>1, <1>2
  <2> QED BY <1>1, <1>2, <2>1 DEF HistoryTypeOK
<1>7. WindowIsKept' /\ AckedIsThereOrShadowed'
    BY <1>1, <1>5 DEF HistoryInv, WindowIsKept, AckedIsThereOrShadowed, Kept
<1>8. SweptIsRead'
    BY <1>2, <1>3 DEF SweptIsRead
<1> QED BY <1>1, <1>3, <1>4, <1>5, <1>6, <1>7, <1>8 DEF HistoryInv

LEMMA WindowPassesInv == ASSUME HistoryInv, NEW s \in Streams, WindowPasses(s) PROVE HistoryInv'
<1>1. /\ HistoryFault /\ window' = [window EXCEPT ![s] = {}]
      /\ UNCHANGED <<life, stream, acked, sweep, cut>>
    BY DEF WindowPasses
<1>2. HistoryTypeOK /\ WindowIsKept
    BY DEF HistoryInv
<1>3. \A t : OnStream(t)' = OnStream(t)
    BY <1>1 DEF OnStream
<1>4. historyFaults' \in 0..MaxHistoryFaults
    BY <1>1, <1>2, HistoryAssumption DEF HistoryTypeOK, HistoryFault
<1>5. HistoryTypeOK'
    BY <1>1, <1>2, <1>4 DEF HistoryTypeOK
<1>6. WindowIsKept'
    BY <1>1, <1>2, <1>3 DEF WindowIsKept, HistoryTypeOK
<1>7. AckedIsThereOrShadowed' /\ SweptIsRead'
    BY <1>1, <1>3 DEF HistoryInv, AckedIsThereOrShadowed, Kept, SweptIsRead, Running
<1> QED BY <1>1, <1>3, <1>5, <1>6, <1>7 DEF HistoryInv, Told

LEMMA ExpireInv == ASSUME HistoryInv, NEW s \in Streams, Expire(s) PROVE HistoryInv'
<1>1. /\ stream[s] # << >> /\ HistoryFault /\ stream' = [stream EXCEPT ![s] = Tail(stream[s])]
      /\ cut' = TRUE /\ UNCHANGED <<life, window, acked, sweep>>
    BY DEF Expire
<1>2. HistoryTypeOK /\ stream[s] \in Seq(Message)
    BY DEF HistoryInv, HistoryTypeOK
<1>3. /\ Tail(stream[s]) \in Seq(Message) /\ Len(Tail(stream[s])) = Len(stream[s]) - 1
      /\ \A i \in 1..(Len(stream[s]) - 1) : Tail(stream[s])[i] = stream[s][i + 1]
      /\ Len(stream[s]) \in Nat
    BY <1>1, <1>2
<1>4. stream'[s] = Tail(stream[s]) /\ \A t \in Streams : t # s => stream'[t] = stream[t]
    BY <1>1, <1>2 DEF HistoryTypeOK
<1>5. OnStream(s)' \subseteq OnStream(s)
    BY <1>3, <1>4 DEF OnStream
<1>6. \A t \in Streams : OnStream(t)' \subseteq OnStream(t)
    BY <1>4, <1>5 DEF OnStream
<1>7. historyFaults' \in 0..MaxHistoryFaults
    BY <1>1, <1>2, HistoryAssumption DEF HistoryTypeOK, HistoryFault
<1>8. HistoryTypeOK'
    BY <1>1, <1>2, <1>3, <1>7 DEF HistoryTypeOK
<1>9. WindowIsKept' /\ AckedIsThereOrShadowed' /\ SweptIsRead'
    BY <1>1 DEF WindowIsKept, AckedIsThereOrShadowed, SweptIsRead
<1> QED BY <1>1, <1>6, <1>8, <1>9 DEF HistoryInv, Told

LEMMA BeginReplayInv == ASSUME HistoryInv, BeginReplay PROVE HistoryInv'
<1>1. /\ sweep' = [NoSweep EXCEPT !.stage = 1, !.quiet = ~Running]
      /\ UNCHANGED <<life, stream, window, acked, cut, historyFaults>>
    BY DEF BeginReplay
<1>2. sweep' = [stage |-> 1, read |-> {}, quiet |-> ~Running]
    BY <1>1 DEF NoSweep
<1>3. sweep'.stage = 1 /\ sweep'.read = {} /\ sweep'.quiet = ~Running
    BY <1>2
<1>4. HistoryTypeOK
    BY DEF HistoryInv
<1>5. sweep' \in [stage : 0..4, read : SUBSET Message, quiet : BOOLEAN]
  <2>1. PICK q : q = ~Running
      OBVIOUS
  <2>2. q \in BOOLEAN
      BY <2>1
  <2>3. sweep' = [stage |-> 1, read |-> {}, quiet |-> q]
      BY <1>2, <2>1
  <2> QED BY <2>2, <2>3
<1>6. HistoryTypeOK'
    BY <1>1, <1>4, <1>5 DEF HistoryTypeOK
<1>7. \A s : OnStream(s)' = OnStream(s)
    BY <1>1 DEF OnStream
<1>8. WindowIsKept' /\ AckedIsThereOrShadowed'
    BY <1>1, <1>7 DEF HistoryInv, WindowIsKept, AckedIsThereOrShadowed, Kept
<1>9. SweptIsRead'
  <2>1. sweep'.quiet => ~Running
      BY <1>3
  <2>2. ~Running => ~Running'
      BY <1>1 DEF Running
  <2> QED BY <1>3, <2>1, <2>2 DEF SweptIsRead
<1> QED BY <1>1, <1>3, <1>6, <1>7, <1>8, <1>9 DEF HistoryInv, Told

LEMMA SweepNextInv == ASSUME HistoryInv, NEW k \in Nat, SweepNext(k) PROVE HistoryInv'
<1> DEFINE s == SweepOrder[sweep.stage]
           got == {stream[s][i] : i \in 1..k}
<1>1. /\ sweep.stage \in 1..3 /\ k <= Len(stream[s])
      /\ sweep' = [sweep EXCEPT !.stage = @ + 1, !.read = @ \cup got, !.quiet = @ /\ ~Running]
      /\ UNCHANGED <<life, stream, window, acked>>
    BY DEF SweepNext
<1>2. IF k = Len(stream[s]) THEN UNCHANGED <<cut, historyFaults>>
                            ELSE HistoryFault /\ cut' = TRUE
    BY DEF SweepNext
<1>3. HistoryTypeOK /\ s \in Streams /\ Len(stream[s]) \in Nat
  <2>1. SweepOrder[1] \in Streams /\ SweepOrder[2] \in Streams /\ SweepOrder[3] \in Streams
      BY DEF SweepOrder, Streams
  <2>2. s \in Streams
      BY <1>1, <2>1
  <2> QED BY <2>2 DEF HistoryInv, HistoryTypeOK
<1>4. got \subseteq OnStream(s)
    BY <1>1, <1>3 DEF OnStream
<1>5. \A m \in OnStream(s) : m \in Message /\ m.seq = m.at
    BY <1>3 DEF HistoryInv, Told
<1>6. k = Len(stream[s]) => got = OnStream(s)
    BY DEF OnStream
<1> HIDE DEF got, s
<1>7. /\ sweep'.stage = sweep.stage + 1 /\ sweep'.read = sweep.read \cup got
      /\ sweep'.quiet = (sweep.quiet /\ ~Running)
      /\ sweep' \in [stage : 0..4, read : SUBSET Message, quiet : BOOLEAN]
  <2>1. sweep \in [stage : 0..4, read : SUBSET Message, quiet : BOOLEAN]
      BY <1>3 DEF HistoryTypeOK
  <2>2. PICK q : q = (sweep.quiet /\ ~Running)
      OBVIOUS
  <2>3. q \in BOOLEAN
      BY <2>2
  <2>4. sweep' = [sweep EXCEPT !.stage = sweep.stage + 1, !.read = sweep.read \cup got, !.quiet = q]
      BY <1>1, <2>2
  <2>5. sweep.stage + 1 \in 0..4 /\ sweep.read \cup got \in SUBSET Message
      BY <1>1, <1>4, <1>5, <2>1
  <2>6. sweep'.stage = sweep.stage + 1 /\ sweep'.read = sweep.read \cup got /\ sweep'.quiet = q
      BY <2>1, <2>4
  <2>7. sweep' \in [stage : 0..4, read : SUBSET Message, quiet : BOOLEAN]
      BY <2>1, <2>3, <2>4, <2>5
  <2> QED BY <2>2, <2>6, <2>7
<1>8. historyFaults' \in 0..MaxHistoryFaults /\ cut' \in BOOLEAN /\ (cut => cut')
  <2>1. CASE k = Len(stream[s])
      BY <1>2, <1>3, <2>1 DEF HistoryTypeOK
  <2>2. CASE k # Len(stream[s])
      BY <1>2, <1>3, <2>2, HistoryAssumption DEF HistoryTypeOK, HistoryFault
  <2> QED BY <2>1, <2>2
<1>9. HistoryTypeOK'
    BY <1>1, <1>3, <1>7, <1>8 DEF HistoryTypeOK
<1>10. \A t : OnStream(t)' = OnStream(t)
    BY <1>1 DEF OnStream
<1>11. WindowIsKept' /\ AckedIsThereOrShadowed'
    BY <1>1, <1>8, <1>10 DEF HistoryInv, WindowIsKept, AckedIsThereOrShadowed, Kept
<1>12. SweptIsRead'
  <2> SUFFICES ASSUME sweep'.quiet, ~cut', life.run = 0
               PROVE  ~Running' /\ \A i \in 1..3 : i < sweep'.stage => OnStream(SweepOrder[i]) \subseteq sweep'.read
      BY <1>1, <1>10 DEF SweptIsRead
  <2>1. sweep.quiet /\ ~Running /\ ~cut
      BY <1>7, <1>8
  <2>2. k = Len(stream[s])
      BY <1>2
  <2>3. ASSUME NEW i \in 1..3, i < sweep'.stage PROVE OnStream(SweepOrder[i]) \subseteq sweep'.read
    <3>1. CASE i = sweep.stage
        BY <1>6, <1>7, <2>2, <3>1 DEF s
    <3>2. CASE i # sweep.stage
      <4>1. i < sweep.stage
          BY <1>1, <1>7, <2>3, <3>2
      <4>2. sweep.stage \in 1..4
          BY <1>1
      <4> QED BY <1>7, <2>1, <4>1, <4>2 DEF HistoryInv, SweptIsRead
    <3> QED BY <3>1, <3>2
  <2>4. ~Running'
      BY <1>1, <2>1 DEF Running
  <2> QED BY <2>3, <2>4
<1>13. \A m \in sweep'.read : m.seq = m.at
    BY <1>4, <1>5, <1>7 DEF HistoryInv
<1>14. sweep'.stage # 0
    BY <1>1, <1>7
<1> QED BY <1>1, <1>9, <1>10, <1>11, <1>12, <1>13, <1>14 DEF HistoryInv, Told

LEMMA HistoryNextInv == HistoryInv /\ [HistoryNext]_historyVars => HistoryInv'
<1> SUFFICES ASSUME HistoryInv, [HistoryNext]_historyVars PROVE HistoryInv'
    OBVIOUS
<1>1. CASE Publish
    BY <1>1, PublishInv
<1>2. ASSUME NEW wasKept \in BOOLEAN, NEW goesOn \in BOOLEAN, PublishFails(wasKept, goesOn)
      PROVE  HistoryInv'
    BY <1>2, PublishFailsInv
<1>3. CASE TakeUpAgain
    BY <1>3, TakeUpAgainInv
<1>4. ASSUME NEW s \in Streams, WindowPasses(s) \/ Expire(s) PROVE HistoryInv'
    BY <1>4, WindowPassesInv, ExpireInv
<1>5. CASE BeginReplay
    BY <1>5, BeginReplayInv
<1>6. ASSUME NEW k \in 0..(Len(Script) * (MaxRestarts + 1)), SweepNext(k) PROVE HistoryInv'
  <2>1. k \in Nat
      BY <1>6
  <2> QED BY <1>6, <2>1, SweepNextInv
<1>7. CASE UNCHANGED historyVars
    BY <1>7 DEF historyVars, HistoryInv, HistoryTypeOK, WindowIsKept, AckedIsThereOrShadowed, Kept,
                SweptIsRead, Told, Running, OnStream
<1> QED BY <1>1, <1>2, <1>3, <1>4, <1>5, <1>6, <1>7 DEF HistoryNext

\* However long a task's script, however often its process restarts and its
\* publishes fail: what was acknowledged and not cut away is on its stream, or
\* an earlier run had its number; and a quiet replay of one run tells its events
\* in their order.
THEOREM HistoryHolds == HistorySpec => [](HistoryTypeOK /\ HistoryIsTold)
<1>1. HistoryInv => HistoryTypeOK
    BY DEF HistoryInv
<1> QED BY <1>1, HistoryFacts, HistoryInitInv, HistoryNextInv, PTL DEF HistorySpec

-----------------------------------------------------------------------------
(* The two records of a conversation.                                      *)

\* x comes before everything it is a predecessor of: a strict total order on S.
Orders(R, S) ==
    /\ \A x \in S : <<x, x>> \notin R
    /\ \A x, y, z \in S : <<x, y>> \in R /\ <<y, z>> \in R => <<x, z>> \in R
    /\ \A x, y \in S : x = y \/ <<x, y>> \in R \/ <<y, x>> \in R

Before(R, S, x) == {y \in S : <<y, x>> \in R}

\* How many come before is different for any two, and smaller for the earlier.
LEMMA RanksGrow ==
    ASSUME NEW S, NEW R, IsFiniteSet(S), Orders(R, S), NEW x \in S, NEW y \in S, <<x, y>> \in R
    PROVE  Cardinality(Before(R, S, x)) < Cardinality(Before(R, S, y))
<1>1. Before(R, S, x) \subseteq Before(R, S, y)
    BY DEF Orders, Before
<1>2. x \in Before(R, S, y) /\ x \notin Before(R, S, x)
    BY DEF Orders, Before
<1>3. IsFiniteSet(Before(R, S, y)) /\ IsFiniteSet(Before(R, S, x))
    BY FS_Subset DEF Before
<1>4. /\ Cardinality(Before(R, S, x)) <= Cardinality(Before(R, S, y))
      /\ Cardinality(Before(R, S, x)) # Cardinality(Before(R, S, y))
    BY <1>1, <1>2, <1>3, FS_Subset
<1> QED BY <1>3, <1>4, FS_CardinalityType

\* Everything in S has a rank of its own, and every rank is somebody's.
LEMMA EveryRankIsTaken ==
    ASSUME NEW S, NEW R, IsFiniteSet(S), Orders(R, S)
    PROVE  /\ \A x \in S : Cardinality(Before(R, S, x)) + 1 \in 1..Cardinality(S)
           /\ \A k \in 1..Cardinality(S) :
                 \E x \in S : Cardinality(Before(R, S, x)) = k - 1
           /\ \A x, y \in S : (Cardinality(Before(R, S, x)) = Cardinality(Before(R, S, y))) => (x = y)
<1> DEFINE rank == [x \in S |-> Cardinality(Before(R, S, x)) + 1]
<1>1. PICK n : n = Cardinality(S)
    OBVIOUS
<1>2. n \in Nat
    BY <1>1, FS_CardinalityType
<1>3. ASSUME NEW x \in S
      PROVE  /\ Cardinality(Before(R, S, x)) \in Nat
             /\ Cardinality(Before(R, S, x)) + 1 \in 1..n
  <2>1. Before(R, S, x) \subseteq S /\ Before(R, S, x) # S
      BY DEF Before, Orders
  <2>2. IsFiniteSet(Before(R, S, x))
      BY <2>1, FS_Subset
  <2>3. Cardinality(Before(R, S, x)) <= n /\ Cardinality(Before(R, S, x)) # n
      BY <1>1, <2>1, <2>2, FS_Subset
  <2>4. Cardinality(Before(R, S, x)) \in Nat
      BY <2>2, FS_CardinalityType
  <2> QED BY <1>2, <2>3, <2>4
<1>4. ASSUME NEW x \in S, NEW y \in S, Cardinality(Before(R, S, x)) = Cardinality(Before(R, S, y))
      PROVE  x = y
  <2>1. ASSUME <<x, y>> \in R PROVE FALSE
      BY <1>3, <1>4, <2>1, RanksGrow
  <2>2. ASSUME <<y, x>> \in R PROVE FALSE
      BY <1>3, <1>4, <2>2, RanksGrow
  <2> QED BY <2>1, <2>2 DEF Orders
<1>5. rank \in Injection(S, 1..n)
  <2>1. rank \in [S -> 1..n]
      BY <1>3
  <2>2. \A x, y \in S : (rank[x] = rank[y]) => (x = y)
      BY <1>3, <1>4
  <2> QED BY <2>1, <2>2 DEF Injection, IsInjective
<1>6. rank \in Surjection(S, 1..n)
  <2>1. IsFiniteSet(1..n) /\ Cardinality(1..n) = n
      BY <1>2, FS_Interval
  <2> HIDE DEF rank
  <2> QED BY <1>1, <1>5, <2>1, FS_Injection
<1>7. ASSUME NEW k \in 1..n PROVE \E x \in S : Cardinality(Before(R, S, x)) = k - 1
  <2>1. PICK x \in S : rank[x] = k
      BY <1>6 DEF Surjection
  <2>2. Cardinality(Before(R, S, x)) + 1 = k
      BY <2>1
  <2> QED BY <1>2, <1>3, <2>2
<1> QED BY <1>1, <1>3, <1>4, <1>7

\* What InOrder does: everything, once, in order.
IsOrdered(f, R, S) ==
    /\ f \in [1..Cardinality(S) -> S]
    /\ \A x \in S : \E k \in 1..Cardinality(S) : f[k] = x
    /\ \A j, k \in 1..Cardinality(S) : j < k => <<f[j], f[k]>> \in R

LEMMA RankedIsOrdered ==
    ASSUME NEW S, NEW R, IsFiniteSet(S), Orders(R, S), NEW f \in [1..Cardinality(S) -> S],
           \A k \in 1..Cardinality(S) : Cardinality(Before(R, S, f[k])) = k - 1
    PROVE  IsOrdered(f, R, S)
<1>0. Cardinality(S) \in Nat
    BY FS_CardinalityType
<1>1. ASSUME NEW k \in 1..Cardinality(S)
      PROVE  f[k] \in S /\ Cardinality(Before(R, S, f[k])) = k - 1
    OBVIOUS
<1>2. ASSUME NEW x \in S PROVE \E k \in 1..Cardinality(S) : f[k] = x
  <2>1. PICK k \in 1..Cardinality(S) : k = Cardinality(Before(R, S, x)) + 1
      BY EveryRankIsTaken
  <2>2. Cardinality(Before(R, S, x)) \in Nat
    <3>1. IsFiniteSet(Before(R, S, x))
        BY FS_Subset DEF Before
    <3> QED BY <3>1, FS_CardinalityType
  <2>3. Cardinality(Before(R, S, f[k])) = Cardinality(Before(R, S, x))
      BY <1>1, <2>1, <2>2
  <2>4. f[k] \in S
      BY <1>1
  <2> QED BY <2>3, <2>4, EveryRankIsTaken
<1>3. ASSUME NEW j \in 1..Cardinality(S), NEW k \in 1..Cardinality(S), j < k
      PROVE  <<f[j], f[k]>> \in R
  <2>1. /\ f[j] \in S /\ Cardinality(Before(R, S, f[j])) = j - 1
        /\ f[k] \in S /\ Cardinality(Before(R, S, f[k])) = k - 1
      BY <1>1
  <2>2. f[j] # f[k]
      BY <1>0, <1>3, <2>1
  <2>3. ASSUME <<f[k], f[j]>> \in R PROVE FALSE
    <3>1. Cardinality(Before(R, S, f[k])) < Cardinality(Before(R, S, f[j]))
        BY <2>1, <2>3, RanksGrow
    <3> QED BY <1>0, <1>3, <2>1, <3>1
  <2> QED BY <2>1, <2>2, <2>3 DEF Orders
<1> QED BY <1>1, <1>2, <1>3 DEF IsOrdered


-----------------------------------------------------------------------------
(* The budget.                                                             *)

\* Something is always taken when there is something, and what is taken is
\* within the budget, or one turn alone.
LEMMA TakingFits ==
    ASSUME NEW S, NEW s \in Seq(S)
    PROVE  \E n \in 0..Len(s) :
              /\ Taking(s) = SubSeq(s, 1, n)
              /\ n = 0 => Len(s) = 0
              /\ n > 1 => Weight(SubSeq(s, 1, n)) <= MaxWeight
<1> DEFINE Stops == {n \in 0..Len(s) : n = Len(s) \/ ~Fitting(s, n + 1)}
<1>1. Len(s) \in Nat
    OBVIOUS
<1>2. Stops \in SUBSET Nat /\ Len(s) \in Stops
    BY <1>1
<1>3. PICK n \in Stops : \A m \in Stops : n <= m
    BY <1>2, LeastNumber
<1>4. n \in 0..Len(s) /\ (n = Len(s) \/ ~Fitting(s, n + 1))
    BY <1>3 DEF Stops
<1>5. ASSUME NEW k \in 1..n PROVE Fitting(s, k)
  <2>1. k - 1 \in 0..Len(s) /\ ~(n <= k - 1) /\ k - 1 # Len(s) /\ (k - 1) + 1 = k
      BY <1>1, <1>4
  <2>2. k - 1 \notin Stops
      BY <1>3, <2>1
  <2>3. Fitting(s, (k - 1) + 1)
      BY <2>1, <2>2 DEF Stops
  <2> QED BY <2>1, <2>3
<1>6. PICK m \in 0..Len(s) : /\ Taking(s) = SubSeq(s, 1, m)
                             /\ \A k \in 1..m : Fitting(s, k)
                             /\ m = Len(s) \/ ~Fitting(s, m + 1)
    BY <1>4, <1>5 DEF Taking
<1>7. m = 0 => Len(s) = 0
  <2>1. CASE m = 0 /\ m # Len(s)
    <3>1. m + 1 = 1 /\ ~Fitting(s, m + 1)
        BY <1>6, <2>1
    <3> QED BY <3>1 DEF Fitting
  <2> QED BY <1>6, <2>1
<1>8. m > 1 => Weight(SubSeq(s, 1, m)) <= MaxWeight
  <2>1. CASE m > 1
    <3>1. m \in 1..m /\ m # 1
        BY <1>1, <2>1
    <3>2. Fitting(s, m)
        BY <1>6, <3>1
    <3> QED BY <3>1, <3>2 DEF Fitting
  <2> QED BY <2>1
<1> QED BY <1>6, <1>7, <1>8

LEMMA NothingWeighsNothing == Weight(<< >>) = 0
<1>1. UNION {{k} \X (1..<< >>[k].size) : k \in DOMAIN << >>} = {}
    OBVIOUS
<1> QED BY <1>1, FS_EmptySet DEF Weight

\* Read from the other end, a sequence weighs the same.
LEMMA ReverseWeighsTheSame ==
    ASSUME NEW S, NEW s \in Seq(S), \A k \in DOMAIN s : s[k].size \in Nat
    PROVE  /\ Len(Reverse(s)) = Len(s)
           /\ Weight(Reverse(s)) = Weight(s)
<1>1. PICK n \in Nat : n = Len(s) /\ DOMAIN s = 1..n
    OBVIOUS
<1>2. PICK r : r = Reverse(s)
    OBVIOUS
<1>3. /\ DOMAIN r = 1..n /\ Len(r) = n
      /\ \A k \in 1..n : r[k] = s[(n - k) + 1]
    BY <1>1, <1>2 DEF Reverse
<1>4. PICK A, B : /\ A = UNION {{k} \X (1..s[k].size) : k \in 1..n}
                  /\ B = UNION {{k} \X (1..r[k].size) : k \in 1..n}
    OBVIOUS
<1>5. IsFiniteSet(A)
  <2> DEFINE F == {{k} \X (1..s[k].size) : k \in 1..n}
  <2> DEFINE f == [k \in 1..n |-> {k} \X (1..s[k].size)]
  <2>1. f \in Surjection(1..n, F)
      BY DEF Surjection
  <2>2. IsFiniteSet(F)
      BY <1>1, <2>1, FS_Interval, FS_Surjection
  <2>3. ASSUME NEW k \in 1..n PROVE IsFiniteSet({k} \X (1..s[k].size))
    <3>0. IsFiniteSet({k})
        BY FS_Singleton
    <3>1. IsFiniteSet(1..s[k].size)
      <4>1. PICK a, w : a = 1 /\ w = s[k].size
          OBVIOUS
      <4>2. a \in Int /\ w \in Int
          BY <1>1, <4>1
      <4>3. IsFiniteSet(a..w)
          BY <4>2, FS_Interval
      <4> QED BY <4>1, <4>3
    <3> QED BY <3>0, <3>1, FS_Product
  <2>4. \A T \in F : IsFiniteSet(T)
      BY <2>3
  <2> HIDE DEF F
  <2>5. IsFiniteSet(UNION F)
      BY <2>2, <2>4, FS_UNION
  <2> QED BY <1>4, <2>5 DEF F
<1>6. Weight(s) = Cardinality(A) /\ Weight(r) = Cardinality(B)
    BY <1>1, <1>3, <1>4 DEF Weight
<1>7. ExistsBijection(A, B)
  <2> DEFINE g == [t \in A |-> <<(n - t[1]) + 1, t[2]>>]
  <2>1. \A t : t \in A <=> \E k \in 1..n : \E u \in 1..s[k].size : t = <<k, u>>
      BY <1>4
  <2>2. \A t : t \in B <=> \E k \in 1..n : \E u \in 1..r[k].size : t = <<k, u>>
      BY <1>4
  <2>3. ASSUME NEW t \in A PROVE g[t] \in B
    <3>10. PICK k \in 1..n : \E u \in 1..s[k].size : t = <<k, u>>
        BY <2>1
    <3>1. PICK u \in 1..s[k].size : t = <<k, u>>
        BY <3>10
    <3>2. /\ (n - k) + 1 \in 1..n /\ (n - ((n - k) + 1)) + 1 = k
          /\ g[t] = <<(n - k) + 1, u>>
        BY <1>1, <3>1
    <3>3. u \in 1..r[(n - k) + 1].size
        BY <1>3, <3>1, <3>2
    <3> QED BY <2>2, <3>2, <3>3
  <2>4. ASSUME NEW t \in A, NEW v \in A, g[t] = g[v] PROVE t = v
    <3>10. PICK k \in 1..n : \E u \in 1..s[k].size : t = <<k, u>>
        BY <2>1
    <3>1. PICK u \in 1..s[k].size : t = <<k, u>>
        BY <3>10
    <3>20. PICK j \in 1..n : \E w \in 1..s[j].size : v = <<j, w>>
        BY <2>1
    <3>2. PICK w \in 1..s[j].size : v = <<j, w>>
        BY <3>20
    <3>3. (n - k) + 1 = (n - j) + 1 /\ u = w
        BY <2>4, <3>1, <3>2
    <3> QED BY <1>1, <3>1, <3>2, <3>3
  <2>5. ASSUME NEW w \in B PROVE \E t \in A : g[t] = w
    <3>10. PICK k \in 1..n : \E u \in 1..r[k].size : w = <<k, u>>
        BY <2>2
    <3>1. PICK u \in 1..r[k].size : w = <<k, u>>
        BY <3>10
    <3>2. (n - k) + 1 \in 1..n /\ (n - ((n - k) + 1)) + 1 = k
        BY <1>1
    <3>3. u \in 1..s[(n - k) + 1].size
        BY <1>3, <3>1
    <3>4. <<(n - k) + 1, u>> \in A
        BY <2>1, <3>2, <3>3
    <3>5. g[<<(n - k) + 1, u>>] = w
        BY <3>1, <3>2, <3>4
    <3> QED BY <3>4, <3>5
  <2>6. g \in Bijection(A, B)
    <3>1. g \in [A -> B]
        BY <2>3
    <3> HIDE DEF g
    <3> QED BY <2>4, <2>5, <3>1 DEF Bijection, Injection, Surjection, IsInjective
  <2> QED BY <2>6 DEF ExistsBijection
<1> QED BY <1>1, <1>2, <1>3, <1>5, <1>6, <1>7, FS_Bijection

-----------------------------------------------------------------------------
(* The record of exchanges.                                                *)

LEMMA TalkInitType == TalkInit => TalkTypeOK
<1> SUFFICES ASSUME TalkInit PROVE TalkTypeOK
    OBVIOUS
<1>1. talkHour \in 0..MaxTalkHours
    BY TalkAssumption DEF TalkInit
<1>2. rows = {}
    BY DEF TalkInit
<1> QED BY <1>1, <1>2 DEF TalkTypeOK

LEMMA TalkNextType == TalkTypeOK /\ [TalkNext]_talkVars => TalkTypeOK'
<1> SUFFICES ASSUME TalkTypeOK, [TalkNext]_talkVars PROVE TalkTypeOK'
    OBVIOUS
<1>1. ASSUME NEW row \in TalkRow, RecordTurn(row) PROVE TalkTypeOK'
  <2>1. talkHour' = talkHour /\ (rows' = rows \/ rows' = rows \cup {row})
      BY <1>1 DEF RecordTurn, Recorded
  <2>2. \A r, s \in rows' : (r.n = s.n) => (r = s)
    <3>1. CASE \E r \in rows : r.n = row.n
      <4>1. rows' = rows
          BY <1>1, <3>1 DEF RecordTurn, Recorded
      <4> QED BY <4>1 DEF TalkTypeOK
    <3>2. CASE \A r \in rows : r.n # row.n
      <4>1. rows' = rows \cup {row}
          BY <1>1, <3>2 DEF RecordTurn, Recorded
      <4> QED BY <3>2, <4>1 DEF TalkTypeOK
    <3> QED BY <3>1, <3>2
  <2>3. rows' \subseteq TalkRow
      BY <2>1 DEF TalkTypeOK
  <2> QED BY <2>1, <2>2, <2>3 DEF TalkTypeOK
<1>2. CASE TalkHourPasses
  <2>1. talkHour' \in 0..MaxTalkHours
      BY <1>2, TalkAssumption DEF TalkHourPasses, TalkTypeOK
  <2>2. rows' = rows
      BY <1>2 DEF TalkHourPasses
  <2> QED BY <2>1, <2>2 DEF TalkTypeOK
<1>3. CASE UNCHANGED talkVars
    BY <1>3 DEF talkVars, TalkTypeOK
<1> QED BY <1>1, <1>2, <1>3 DEF TalkNext

\* The eligible rows, newest first: each once, and a later one never asked after.
LEMMA EligibleInOrder ==
    ASSUME TalkTypeOK, NEW q
    PROVE  LET s == InOrder(Eligible(q), ByAsked) IN
           /\ Eligible(q) \subseteq TalkRow
           /\ s \in Seq(Eligible(q))
           /\ \A r \in Eligible(q) : \E k \in 1..Len(s) : s[k] = r
           /\ \A j, k \in 1..Len(s) : j < k => s[j].asked >= s[k].asked
<1> DEFINE S == Eligible(q)
<1> DEFINE R == {t \in S \X S : ByAsked(t[1], t[2])}
<1>1. S \subseteq rows /\ S \subseteq TalkRow
    BY DEF Eligible, TalkTypeOK
<1>2. \A r \in S : r.n \in 1..MaxTalk /\ r.asked \in 0..MaxTalkHours
    BY <1>1 DEF TalkRow
<1>3. IsFiniteSet(S)
  <2> DEFINE f == [r \in S |-> r.n]
  <2>1. f \in [S -> 1..MaxTalk]
      BY <1>2
  <2>2. \A r, s \in S : (f[r] = f[s]) => (r = s)
      BY <1>1 DEF TalkTypeOK
  <2>3. f \in Injection(S, 1..MaxTalk)
    <3> HIDE DEF f, S
    <3> QED BY <2>1, <2>2 DEF Injection, IsInjective
  <2>4. IsFiniteSet(1..MaxTalk)
      BY TalkAssumption, FS_Interval
  <2> QED BY <2>3, <2>4, FS_Injection
<1>4. \A r, s \in S : (<<r, s>> \in R) <=> ByAsked(r, s)
    OBVIOUS
<1>5. Orders(R, S)
  <2>1. ASSUME NEW r \in S PROVE <<r, r>> \notin R
      BY <1>2, <1>4, TalkAssumption DEF ByAsked
  <2>2. ASSUME NEW r \in S, NEW s \in S, NEW t \in S, <<r, s>> \in R, <<s, t>> \in R
        PROVE  <<r, t>> \in R
    <3>1. ByAsked(r, s) /\ ByAsked(s, t)
        BY <1>4, <2>2
    <3>2. ByAsked(r, t)
        BY <1>2, <3>1, TalkAssumption DEF ByAsked
    <3> QED BY <1>4, <3>2
  <2>3. ASSUME NEW r \in S, NEW s \in S PROVE r = s \/ <<r, s>> \in R \/ <<s, r>> \in R
    <3>1. r.n = s.n => r = s
        BY <1>1 DEF TalkTypeOK
    <3>2. r.n = s.n \/ ByAsked(r, s) \/ ByAsked(s, r)
        BY <1>2, TalkAssumption DEF ByAsked
    <3> QED BY <1>4, <3>1, <3>2
  <2> HIDE DEF R, S
  <2> QED BY <2>1, <2>2, <2>3 DEF Orders
<1>6. \A x \in S : {y \in S : ByAsked(y, x)} = Before(R, S, x)
    BY <1>4 DEF Before
<1>7. PICK s : s = InOrder(S, ByAsked)
    OBVIOUS
<1>8. /\ s \in [1..Cardinality(S) -> S]
      /\ \A k \in 1..Cardinality(S) : Cardinality(Before(R, S, s[k])) = k - 1
  <2> HIDE DEF R, S
  <2>1. ASSUME NEW k \in 1..Cardinality(S)
        PROVE  \E x \in S : Cardinality({y \in S : ByAsked(y, x)}) = k - 1
    <3>1. PICK x \in S : Cardinality(Before(R, S, x)) = k - 1
        BY <1>3, <1>5, EveryRankIsTaken
    <3>2. {y \in S : ByAsked(y, x)} = Before(R, S, x)
        BY <1>6
    <3>3. Cardinality({y \in S : ByAsked(y, x)}) = k - 1
        BY <3>1, <3>2
    <3> QED BY <3>3
  <2>2. ASSUME NEW k \in 1..Cardinality(S)
        PROVE  s[k] \in S /\ Cardinality({y \in S : ByAsked(y, s[k])}) = k - 1
      BY <1>7, <2>1 DEF InOrder
  <2>3. s \in [1..Cardinality(S) -> S]
    <3>1. \A k \in 1..Cardinality(S) :
            (CHOOSE x \in S : Cardinality({y \in S : ByAsked(y, x)}) = k - 1) \in S
        BY <2>1
    <3> QED BY <1>7, <3>1 DEF InOrder
  <2> QED BY <1>6, <2>2, <2>3
<1>9. IsOrdered(s, R, S)
  <2> HIDE DEF R, S
  <2> QED BY <1>3, <1>5, <1>8, RankedIsOrdered
<1>10. PICK m \in Nat : m = Cardinality(S)
    BY <1>3, FS_CardinalityType
<1>11. /\ s \in [1..m -> S]
       /\ \A x \in S : \E k \in 1..m : s[k] = x
       /\ \A j, k \in 1..m : j < k => <<s[j], s[k]>> \in R
    BY <1>9, <1>10 DEF IsOrdered
<1>12. s \in Seq(S) /\ Len(s) = m
    BY <1>10, <1>11
<1>13. ASSUME NEW j \in 1..m, NEW k \in 1..m, j < k PROVE s[j].asked >= s[k].asked
  <2>1. s[j] \in S /\ s[k] \in S /\ <<s[j], s[k]>> \in R
      BY <1>11, <1>13
  <2>2. ByAsked(s[j], s[k])
      BY <1>4, <2>1
  <2> QED BY <1>2, <2>1, <2>2, TalkAssumption DEF ByAsked
<1> QED BY <1>1, <1>7, <1>11, <1>12, <1>13

LEMMA PastIsServed == TalkTypeOK => OldestAreLeftOut /\ HistoryFits
<1> SUFFICES ASSUME TalkTypeOK, NEW q \in Sender
             PROVE  LET shown == RecentMessages(q) IN
                    /\ Eligible(q) # {} => shown # << >>
                    /\ \A k \in DOMAIN shown : k > 1 => shown[k - 1].asked <= shown[k].asked
                    /\ \A r \in Eligible(q) :
                          (\A k \in DOMAIN shown : shown[k] # r) =>
                              \A k \in DOMAIN shown : r.asked <= shown[k].asked
                    /\ WithinBudget(shown)
    BY DEF OldestAreLeftOut, HistoryFits
<1> DEFINE S == Eligible(q)
<1>1. PICK s : s = InOrder(S, ByAsked)
    OBVIOUS
<1>2. /\ S \subseteq TalkRow
      /\ s \in Seq(S)
      /\ \A r \in S : \E k \in 1..Len(s) : s[k] = r
      /\ \A j, k \in 1..Len(s) : j < k => s[j].asked >= s[k].asked
    BY <1>1, EligibleInOrder
<1> HIDE DEF S
<1>3. ASSUME NEW r \in S PROVE r.size \in Nat /\ r.asked \in Nat
  <2>1. r \in TalkRow
      BY <1>2
  <2>2. r.size \in TalkSize
      BY <2>1 DEF TalkRow
  <2>3. r.asked \in 0..MaxTalkHours
      BY <2>1 DEF TalkRow
  <2>4. r.size \in Nat
      BY <2>2, TalkAssumption
  <2> QED BY <2>3, <2>4
<1>4. PICK l \in Nat : l = Len(s)
    BY <1>2
<1>5. \A k \in 1..l : s[k] \in S
    BY <1>2, <1>4
<1>6. PICK f : f = FirstOf(s, MaxShown)
    OBVIOUS
<1>7. PICK m \in 0..l : /\ m <= MaxShown
                        /\ l > 0 => m > 0
                        /\ f = SubSeq(s, 1, m)
  <2>1. CASE l > MaxShown
    <3>1. f = SubSeq(s, 1, MaxShown)
        BY <1>4, <1>6, <2>1 DEF FirstOf
    <3> QED BY <2>1, <3>1, BudgetAssumption
  <2>2. CASE ~(l > MaxShown)
    <3>1. f = SubSeq(s, 1, l)
        BY <1>4, <1>6, <2>2 DEF FirstOf
    <3> QED BY <2>2, <3>1, BudgetAssumption
  <2> QED BY <2>1, <2>2
<1>8. f \in Seq(S) /\ Len(f) = m /\ \A k \in 1..m : f[k] = s[k]
    BY <1>2, <1>4, <1>7
<1>9. PICK n \in 0..m : /\ Taking(f) = SubSeq(f, 1, n)
                        /\ n = 0 => m = 0
                        /\ n > 1 => Weight(SubSeq(f, 1, n)) <= MaxWeight
    BY <1>8, TakingFits
<1>10. PICK t : t = SubSeq(f, 1, n)
    OBVIOUS
<1>11. t \in Seq(S) /\ Len(t) = n /\ \A k \in 1..n : t[k] = s[k]
    BY <1>8, <1>9, <1>10
<1>12. PICK shown : shown = Reverse(t)
    OBVIOUS
<1>13. RecentMessages(q) = shown
    BY <1>1, <1>6, <1>9, <1>10, <1>12 DEF RecentMessages, S
<1>14. /\ DOMAIN shown = 1..n /\ Len(shown) = n
       /\ \A k \in 1..n : shown[k] = s[(n - k) + 1] /\ (n - k) + 1 \in 1..n
  <2>1. \A k \in 1..n : (n - k) + 1 \in 1..n
      BY <1>9
  <2>2. DOMAIN shown = 1..n /\ \A k \in 1..n : shown[k] = t[(n - k) + 1]
      BY <1>11, <1>12 DEF Reverse
  <2>3. Len(shown) = n
      BY <1>9, <1>11, <1>12 DEF Reverse
  <2> QED BY <1>11, <2>1, <2>2, <2>3
<1>15. Eligible(q) # {} => shown # << >>
  <2>1. CASE S # {}
    <3>1. l > 0
        BY <1>2, <1>4, <2>1
    <3>2. n # 0
        BY <1>7, <1>9, <3>1
    <3> QED BY <1>14, <3>2
  <2> QED BY <2>1 DEF S
<1>16. ASSUME NEW k \in DOMAIN shown, k > 1 PROVE shown[k - 1].asked <= shown[k].asked
  <2>1. k \in 1..n /\ k - 1 \in 1..n
      BY <1>9, <1>14, <1>16
  <2>2. /\ shown[k - 1] = s[(n - (k - 1)) + 1] /\ shown[k] = s[(n - k) + 1]
        /\ (n - k) + 1 \in 1..Len(s) /\ (n - (k - 1)) + 1 \in 1..Len(s)
        /\ (n - k) + 1 < (n - (k - 1)) + 1
      BY <1>4, <1>7, <1>9, <1>14, <2>1
  <2>3. s[(n - k) + 1].asked >= s[(n - (k - 1)) + 1].asked
      BY <1>2, <2>2
  <2>4. s[(n - k) + 1].asked \in Nat /\ s[(n - (k - 1)) + 1].asked \in Nat
      BY <1>3, <1>4, <1>5, <2>2
  <2> QED BY <2>2, <2>3, <2>4
<1>17. ASSUME NEW r \in Eligible(q), \A k \in DOMAIN shown : shown[k] # r,
              NEW k \in DOMAIN shown
       PROVE  r.asked <= shown[k].asked
  <2>1. PICK j \in 1..l : s[j] = r
      BY <1>2, <1>4 DEF S
  <2>2. j > n
    <3>1. CASE j <= n
      <4>1. (n - j) + 1 \in 1..n /\ (n - ((n - j) + 1)) + 1 = j
          BY <1>9, <3>1
      <4>2. shown[(n - j) + 1] = r
          BY <1>14, <2>1, <4>1
      <4> QED BY <1>14, <1>17, <4>1, <4>2
    <3> QED BY <1>9, <3>1
  <2>3. PICK i \in 1..n : i = (n - k) + 1 /\ shown[k] = s[i]
      BY <1>14
  <2>4. i < j /\ i \in 1..Len(s) /\ j \in 1..Len(s)
      BY <1>4, <1>7, <1>9, <2>2
  <2>5. s[i].asked >= s[j].asked
      BY <1>2, <2>4
  <2>6. s[i].asked \in Nat /\ s[j].asked \in Nat
      BY <1>3, <1>4, <1>5, <2>4
  <2> QED BY <2>1, <2>3, <2>5, <2>6
<1>18. WithinBudget(shown)
  <2>1. Len(shown) <= MaxShown
      BY <1>7, <1>9, <1>14, BudgetAssumption
  <2>2. Weight(shown) = Weight(t)
    <3>1. \A k \in DOMAIN t : t[k].size \in Nat
        BY <1>3, <1>11
    <3> QED BY <1>11, <1>12, <3>1, ReverseWeighsTheSame
  <2>3. CASE n > 1
      BY <1>9, <1>10, <2>1, <2>2, <2>3 DEF WithinBudget
  <2>4. CASE n = 1
      BY <1>14, <2>1, <2>4 DEF WithinBudget
  <2>5. CASE n = 0
    <3>1. shown = << >>
        BY <1>14, <2>5
    <3>2. Weight(shown) <= MaxWeight
        BY <3>1, NothingWeighsNothing, BudgetAssumption
    <3> QED BY <2>1, <3>2 DEF WithinBudget
  <2> QED BY <1>9, <2>3, <2>4, <2>5
<1> QED BY <1>13, <1>15, <1>16, <1>17, <1>18

\* However the answers of a sender's tasks interleave: what is left out of the past
\* that travels is older than what is shown, which is in the order it was asked
\* and within its budget.
THEOREM PastIsServedAlways == TalkSpec => [](TalkTypeOK /\ OldestAreLeftOut /\ HistoryFits)
<1> QED BY TalkInitType, TalkNextType, PastIsServed, PTL DEF TalkSpec

-----------------------------------------------------------------------------
(* The threads.                                                            *)

\* The turns and the half-done appends of a thread are its principal's.
ThreadsAreOwned ==
    /\ \A p, q \in Principal : (heads[p].thread = heads[q].thread /\ heads[p].thread # 0) => p = q
    /\ \A k \in DOMAIN turns : turns[k].thread # 0 /\ turns[k].thread <= threads
    /\ \A k \in DOMAIN turns : \A p \in Principal :
          heads[p].thread = turns[k].thread => turns[k].principal = p
    /\ \A c \in Conn : writer[c].thread <= threads
    /\ \A c \in Conn : \A p \in Principal :
          (writer[c].busy /\ writer[c].thread # 0 /\ heads[p].thread = writer[c].thread)
              => writer[c].for = p

\* What was said since the topic was opened is under the head, and not older.
SaidIsUnderHead ==
    \A p \in Principal, k \in DOMAIN turns :
        (turns[k].principal = p /\ k >= topic[p] /\ k \notin overtaken) =>
            (turns[k].thread = heads[p].thread /\ turns[k].at >= heads[p].started)

ThreadInv == ThreadTypeOK /\ ThreadsAreOwned /\ SaidIsUnderHead

LEMMA ThreadInitInv == ThreadInit => ThreadInv
<1> SUFFICES ASSUME ThreadInit PROVE ThreadInv
    OBVIOUS
<1>1. ThreadTypeOK
  <2>1. heads \in [Principal -> HeadRow]
      BY DEF ThreadInit, NoHead, HeadRow
  <2>2. \A p \in Principal : heads[p].thread <= threads /\ heads[p].started <= threadHour
      BY DEF ThreadInit, NoHead
  <2>3. turns \in Seq(TurnRow) /\ Len(turns) <= MaxTurnRows
      BY ThreadAssumption DEF ThreadInit
  <2>4. writer \in [Conn -> Writer]
      BY DEF ThreadInit, Writer
  <2>5. \A c \in Conn : writer[c].busy => writer[c].for \in Principal
      BY DEF ThreadInit
  <2>6. threads \in 0..MaxThreads
      BY ThreadAssumption DEF ThreadInit
  <2>7. threadHour \in 0..MaxThreadHours
      BY ThreadAssumption DEF ThreadInit
  <2>8. topic \in [Principal -> 1..MaxTurnRows + 1]
    <3>1. 1 \in 1..MaxTurnRows + 1
        BY ThreadAssumption
    <3> QED BY <3>1 DEF ThreadInit
  <2>9. overtaken \subseteq 1..Len(turns)
      BY DEF ThreadInit
  <2> QED BY <2>1, <2>2, <2>3, <2>4, <2>5, <2>6, <2>7, <2>8, <2>9 DEF ThreadTypeOK
<1>2. ThreadsAreOwned
    BY DEF ThreadInit, ThreadsAreOwned, NoHead
<1>3. SaidIsUnderHead
    BY DEF ThreadInit, SaidIsUnderHead
<1> QED BY <1>1, <1>2, <1>3 DEF ThreadInv

LEMMA LookForHeadInv ==
    ASSUME ThreadInv, NEW c \in Conn, NEW p \in Principal, LookForHead(c, p)
    PROVE  ThreadInv'
<1>1. PICK id : id = IF LiveHead(p) THEN heads[p].thread ELSE 0
    OBVIOUS
<1>2. /\ writer' = [writer EXCEPT ![c] = [busy |-> TRUE, for |-> p, thread |-> id]]
      /\ heads' = heads /\ turns' = turns /\ threads' = threads /\ threadHour' = threadHour
      /\ topic' = topic /\ overtaken' = overtaken
    BY <1>1 DEF LookForHead
<1>3. ThreadTypeOK /\ ThreadsAreOwned /\ SaidIsUnderHead
    BY DEF ThreadInv
<1>4. heads[p].thread \in Nat /\ heads[p].thread <= threads /\ threads \in Nat
    BY <1>3 DEF ThreadTypeOK, HeadRow
<1>5. id \in Nat /\ id <= threads /\ (id # 0 => id = heads[p].thread)
    BY <1>1, <1>4
<1>6. writer \in [Conn -> Writer]
    BY <1>3 DEF ThreadTypeOK
<1>7. /\ writer'[c] = [busy |-> TRUE, for |-> p, thread |-> id]
      /\ \A d \in Conn : d # c => writer'[d] = writer[d]
      /\ DOMAIN writer' = Conn
    BY <1>2, <1>6
<1>8. ThreadTypeOK'
  <2>1. writer' \in [Conn -> Writer]
    <3>1. [busy |-> TRUE, for |-> p, thread |-> id] \in Writer
        BY <1>5 DEF Writer
    <3> QED BY <1>2, <1>6, <3>1
  <2>2. \A d \in Conn : writer'[d].busy => writer'[d].for \in Principal
      BY <1>3, <1>7 DEF ThreadTypeOK
  <2> QED BY <1>2, <1>3, <2>1, <2>2 DEF ThreadTypeOK
<1>9. ThreadsAreOwned'
  <2>1. \A d \in Conn : writer'[d].thread <= threads
      BY <1>3, <1>5, <1>7 DEF ThreadsAreOwned
  <2>2. ASSUME NEW d \in Conn, NEW q \in Principal, writer'[d].busy, writer'[d].thread # 0,
               heads[q].thread = writer'[d].thread
        PROVE  writer'[d].for = q
    <3>1. CASE d = c
      <4>1. id # 0 /\ heads[q].thread = heads[p].thread
          BY <1>5, <1>7, <2>2, <3>1
      <4>2. q = p
          BY <1>3, <1>5, <4>1 DEF ThreadsAreOwned
      <4> QED BY <1>7, <3>1, <4>2
    <3>2. CASE d # c
        BY <1>3, <1>7, <2>2, <3>2 DEF ThreadsAreOwned
    <3> QED BY <3>1, <3>2
  <2> QED BY <1>2, <1>3, <2>1, <2>2 DEF ThreadsAreOwned
<1>10. SaidIsUnderHead'
    BY <1>2, <1>3 DEF SaidIsUnderHead
<1> QED BY <1>8, <1>9, <1>10 DEF ThreadInv

\* A turn more: what holds of the turns there were, and of the new one.
LEMMA TurnIsWritten ==
    ASSUME ThreadTypeOK, NEW id \in Nat, NEW p \in Principal, NEW size \in Size,
           Len(turns) < MaxTurnRows, WriteTurn(id, p, size)
    PROVE  /\ turns' \in Seq(TurnRow) /\ Len(turns') = Len(turns) + 1
           /\ Len(turns') <= MaxTurnRows /\ Len(turns) \in Nat
           /\ \A k \in DOMAIN turns' : k \in DOMAIN turns \/ k = Len(turns) + 1
           /\ \A k \in DOMAIN turns : k \in DOMAIN turns' /\ turns'[k] = turns[k]
           /\ LET t == turns'[Len(turns) + 1] IN
                 t.thread = id /\ t.principal = p /\ t.at = threadHour
<1> DEFINE row == [thread |-> id, principal |-> p, size |-> size, at |-> threadHour]
<1>1. turns' = Append(turns, row)
    BY DEF WriteTurn
<1>2. row \in TurnRow
    BY DEF ThreadTypeOK, TurnRow
<1>3. row.thread = id /\ row.principal = p /\ row.at = threadHour
    OBVIOUS
<1>4. turns \in Seq(TurnRow) /\ Len(turns) \in Nat
    BY DEF ThreadTypeOK
<1> HIDE DEF row
<1> QED BY <1>1, <1>2, <1>3, <1>4, ThreadAssumption

LEMMA InsertTurnInv ==
    ASSUME ThreadInv, NEW c \in Conn, NEW size \in Size, InsertTurn(c, size)
    PROVE  ThreadInv'
<1>1. PICK id, p : id = writer[c].thread /\ p = writer[c].for
    OBVIOUS
<1>2. PICK n : n = Len(turns)
    OBVIOUS
<1>3. ThreadTypeOK /\ ThreadsAreOwned /\ SaidIsUnderHead
    BY DEF ThreadInv
<1>4. /\ writer[c].busy /\ id # 0 /\ n < MaxTurnRows
      /\ WriteTurn(id, p, size)
      /\ overtaken' = IF heads[p].thread = id THEN overtaken ELSE overtaken \cup {n + 1}
      /\ writer' = [writer EXCEPT ![c] = [busy |-> FALSE, thread |-> 0, for |-> c]]
      /\ heads' = heads /\ threads' = threads /\ threadHour' = threadHour /\ topic' = topic
    BY <1>1, <1>2 DEF InsertTurn
<1>5. writer \in [Conn -> Writer]
    BY <1>3 DEF ThreadTypeOK
<1>6. id \in Nat
    BY <1>1, <1>5 DEF Writer
<1>7. p \in Principal /\ id <= threads
    BY <1>1, <1>3, <1>4 DEF ThreadTypeOK, ThreadsAreOwned
<1>8. /\ turns' \in Seq(TurnRow) /\ Len(turns') = n + 1 /\ Len(turns') <= MaxTurnRows /\ n \in Nat
      /\ \A k \in DOMAIN turns' : k \in DOMAIN turns \/ k = n + 1
      /\ \A k \in DOMAIN turns : k \in DOMAIN turns' /\ turns'[k] = turns[k]
      /\ turns'[n + 1].thread = id /\ turns'[n + 1].principal = p /\ turns'[n + 1].at = threadHour
    BY <1>2, <1>3, <1>4, <1>6, <1>7, TurnIsWritten
<1>9. /\ writer'[c] = [busy |-> FALSE, thread |-> 0, for |-> c]
      /\ \A d \in Conn : d # c => writer'[d] = writer[d]
    BY <1>4, <1>5
<1>10. overtaken \subseteq 1..n /\ overtaken' \subseteq 1..(n + 1)
  <2>1. overtaken \subseteq 1..n
      BY <1>2, <1>3 DEF ThreadTypeOK
  <2>2. overtaken \subseteq 1..(n + 1) /\ n + 1 \in 1..(n + 1)
      BY <1>8, <2>1
  <2>3. overtaken' = overtaken \/ overtaken' = overtaken \cup {n + 1}
      BY <1>4
  <2> QED BY <2>1, <2>2, <2>3
<1>11. ThreadTypeOK'
  <2>1. writer' \in [Conn -> Writer]
    <3>1. [busy |-> FALSE, thread |-> 0, for |-> c] \in Writer
        BY DEF Writer
    <3> QED BY <1>4, <1>5, <3>1
  <2>2. \A d \in Conn : writer'[d].busy => writer'[d].for \in Principal
      BY <1>3, <1>9 DEF ThreadTypeOK
  <2> QED BY <1>3, <1>4, <1>8, <1>10, <2>1, <2>2 DEF ThreadTypeOK
<1>12. ThreadsAreOwned'
  <2>1. \A d \in Conn : writer'[d].thread <= threads
    <3>1. threads \in Nat
        BY <1>3 DEF ThreadTypeOK
    <3> QED BY <1>3, <1>9, <3>1 DEF ThreadsAreOwned
  <2>2. \A d \in Conn : writer'[d].busy => (writer[d].busy /\ writer'[d] = writer[d])
      BY <1>9
  <2>3. \A d \in Conn : \A q \in Principal :
          (writer'[d].busy /\ writer'[d].thread # 0 /\ heads[q].thread = writer'[d].thread)
              => writer'[d].for = q
      BY <1>3, <2>2 DEF ThreadsAreOwned
  <2>4. \A k \in DOMAIN turns' : turns'[k].thread # 0 /\ turns'[k].thread <= threads
      BY <1>3, <1>4, <1>7, <1>8 DEF ThreadsAreOwned
  <2>5. ASSUME NEW k \in DOMAIN turns', NEW q \in Principal, heads[q].thread = turns'[k].thread
        PROVE  turns'[k].principal = q
    <3>1. CASE k \in DOMAIN turns
        BY <1>3, <1>8, <2>5, <3>1 DEF ThreadsAreOwned
    <3>2. CASE k = n + 1
        BY <1>1, <1>3, <1>4, <1>8, <2>5, <3>2 DEF ThreadsAreOwned
    <3> QED BY <1>8, <3>1, <3>2
  <2> QED BY <1>3, <1>4, <2>1, <2>3, <2>4, <2>5 DEF ThreadsAreOwned
<1>13. SaidIsUnderHead'
  <2>1. ASSUME NEW q \in Principal, NEW k \in DOMAIN turns', turns'[k].principal = q,
               k >= topic[q], k \notin overtaken'
        PROVE  turns'[k].thread = heads[q].thread /\ turns'[k].at >= heads[q].started
    <3>1. CASE k \in DOMAIN turns
      <4>1. k \notin overtaken
          BY <1>4, <2>1
      <4> QED BY <1>3, <1>8, <2>1, <3>1, <4>1 DEF SaidIsUnderHead
    <3>2. CASE k = n + 1
      <4>1. q = p
          BY <1>8, <2>1, <3>2
      <4>2. heads[p].thread = id
          BY <1>4, <2>1, <3>2
      <4>3. heads[p].started <= threadHour
          BY <1>3, <1>7 DEF ThreadTypeOK
      <4>4. heads[p].started \in Nat /\ threadHour \in Nat
          BY <1>3, <1>7 DEF ThreadTypeOK, HeadRow
      <4> QED BY <1>8, <3>2, <4>1, <4>2, <4>3, <4>4
    <3> QED BY <1>8, <2>1, <3>1, <3>2
  <2> QED BY <1>4, <2>1 DEF SaidIsUnderHead
<1> QED BY <1>11, <1>12, <1>13 DEF ThreadInv

\* A head of a thread nobody has: p's, since now.
LEMMA NewHead ==
    ASSUME ThreadInv, NEW p \in Principal, threads < MaxThreads,
           heads' = [heads EXCEPT ![p] = [thread |-> MintThread, started |-> threadHour]],
           threads' = MintThread
    PROVE  /\ heads' \in [Principal -> HeadRow]
           /\ threads' \in 0..MaxThreads /\ threads' = threads + 1 /\ threads \in Nat
           /\ heads'[p].thread = threads + 1 /\ heads'[p].started = threadHour
           /\ \A q \in Principal : q # p => heads'[q] = heads[q]
           /\ \A q \in Principal : heads[q].thread <= threads /\ heads[q].thread \in Nat
           /\ \A q \in Principal : heads'[q].thread <= threads' /\ heads'[q].started <= threadHour
<1>1. /\ threads \in 0..MaxThreads /\ threadHour \in Nat /\ heads \in [Principal -> HeadRow]
      /\ \A q \in Principal : heads[q].thread <= threads /\ heads[q].started <= threadHour
    BY DEF ThreadInv, ThreadTypeOK
<1>2. threads \in Nat /\ threads + 1 \in 0..MaxThreads
    BY <1>1, ThreadAssumption
<1>3. PICK h : h = [thread |-> threads + 1, started |-> threadHour]
    OBVIOUS
<1>4. h \in HeadRow /\ h.thread = threads + 1 /\ h.started = threadHour
    BY <1>1, <1>2, <1>3 DEF HeadRow
<1>5. heads' = [heads EXCEPT ![p] = h] /\ threads' = threads + 1
    BY <1>3 DEF MintThread
<1>6. \A q \in Principal : heads[q].thread \in Nat
    BY <1>1 DEF HeadRow
<1>7. heads' \in [Principal -> HeadRow] /\ heads'[p] = h
      /\ \A q \in Principal : q # p => heads'[q] = heads[q]
    BY <1>1, <1>4, <1>5
<1>8. ASSUME NEW q \in Principal
      PROVE  heads'[q].thread <= threads + 1 /\ heads'[q].started <= threadHour
  <2>1. CASE q = p
      BY <1>1, <1>2, <1>4, <1>7, <2>1
  <2>2. CASE q # p
      BY <1>1, <1>2, <1>6, <1>7, <2>2
  <2> QED BY <2>1, <2>2
<1> QED BY <1>1, <1>2, <1>4, <1>5, <1>6, <1>7, <1>8

\* Nothing that was there is under it.
LEMMA NewHeadOwnsNothing ==
    ASSUME ThreadInv, NEW p \in Principal, threads < MaxThreads,
           heads' = [heads EXCEPT ![p] = [thread |-> MintThread, started |-> threadHour]],
           threads' = MintThread
    PROVE  /\ \A q, r \in Principal :
                 (heads'[q].thread = heads'[r].thread /\ heads'[q].thread # 0) => q = r
           /\ \A k \in DOMAIN turns : turns[k].thread # 0 /\ turns[k].thread <= threads'
           /\ \A k \in DOMAIN turns : \A q \in Principal :
                 heads'[q].thread = turns[k].thread => turns[k].principal = q
           /\ \A c \in Conn : writer[c].thread <= threads'
           /\ \A c \in Conn : \A q \in Principal :
                 (writer[c].busy /\ writer[c].thread # 0 /\ heads'[q].thread = writer[c].thread)
                     => writer[c].for = q
<1>1. /\ threads' = threads + 1 /\ threads \in Nat
      /\ heads'[p].thread = threads + 1
      /\ \A q \in Principal : q # p => heads'[q] = heads[q]
      /\ \A q \in Principal : heads[q].thread <= threads /\ heads[q].thread \in Nat
    BY NewHead
<1>2. ThreadsAreOwned /\ ThreadTypeOK
    BY DEF ThreadInv
<1>3. ASSUME NEW k \in DOMAIN turns PROVE turns[k].thread \in Nat
  <2>1. turns[k] \in TurnRow
      BY <1>2 DEF ThreadTypeOK
  <2> QED BY <2>1 DEF TurnRow
<1>4. \A c \in Conn : writer[c].thread \in Nat
    BY <1>2 DEF ThreadTypeOK, Writer
<1>5. ASSUME NEW q \in Principal, NEW r \in Principal, heads'[q].thread = heads'[r].thread,
             heads'[q].thread # 0
      PROVE  q = r
  <2>1. CASE q = p /\ r # p
      BY <1>1, <1>5, <2>1
  <2>2. CASE q # p /\ r = p
      BY <1>1, <1>5, <2>2
  <2>3. CASE q # p /\ r # p
      BY <1>1, <1>2, <1>5, <2>3 DEF ThreadsAreOwned
  <2> QED BY <2>1, <2>2, <2>3
<1>6. ASSUME NEW k \in DOMAIN turns
      PROVE  turns[k].thread # 0 /\ turns[k].thread <= threads'
    BY <1>1, <1>2, <1>3 DEF ThreadsAreOwned
<1>7. ASSUME NEW k \in DOMAIN turns, NEW q \in Principal, heads'[q].thread = turns[k].thread
      PROVE  turns[k].principal = q
  <2>1. turns[k].thread <= threads
      BY <1>2 DEF ThreadsAreOwned
  <2>2. q # p
      BY <1>1, <1>3, <1>7, <2>1
  <2> QED BY <1>1, <1>2, <1>7, <2>2 DEF ThreadsAreOwned
<1>8. ASSUME NEW c \in Conn PROVE writer[c].thread <= threads'
    BY <1>1, <1>2, <1>4 DEF ThreadsAreOwned
<1>9. ASSUME NEW c \in Conn, NEW q \in Principal, writer[c].busy, writer[c].thread # 0,
             heads'[q].thread = writer[c].thread
      PROVE  writer[c].for = q
  <2>1. writer[c].thread <= threads
      BY <1>2 DEF ThreadsAreOwned
  <2>2. q # p
      BY <1>1, <1>4, <1>9, <2>1
  <2> QED BY <1>1, <1>2, <1>9, <2>2 DEF ThreadsAreOwned
<1> QED BY <1>5, <1>6, <1>7, <1>8, <1>9

LEMMA InsertHeadAndTurnInv ==
    ASSUME ThreadInv, NEW c \in Conn, NEW size \in Size, InsertHeadAndTurn(c, size)
    PROVE  ThreadInv'
<1>1. PICK p, n : p = writer[c].for /\ n = Len(turns)
    OBVIOUS
<1>2. ThreadTypeOK /\ ThreadsAreOwned /\ SaidIsUnderHead
    BY DEF ThreadInv
<1>3. /\ writer[c].busy /\ n < MaxTurnRows
      /\ writer' = [writer EXCEPT ![c] = [busy |-> FALSE, thread |-> 0, for |-> c]]
      /\ threadHour' = threadHour /\ topic' = topic /\ overtaken' = overtaken
    BY <1>1 DEF InsertHeadAndTurn
<1>4. p \in Principal /\ writer \in [Conn -> Writer]
    BY <1>1, <1>2, <1>3 DEF ThreadTypeOK
<1>5. /\ writer'[c] = [busy |-> FALSE, thread |-> 0, for |-> c]
      /\ \A d \in Conn : d # c => writer'[d] = writer[d]
    BY <1>3, <1>4
<1>6. writer' \in [Conn -> Writer]
  <2>1. [busy |-> FALSE, thread |-> 0, for |-> c] \in Writer
      BY DEF Writer
  <2> QED BY <1>3, <1>4, <2>1
<1>7. \A d \in Conn : writer'[d].busy => writer'[d].for \in Principal
    BY <1>2, <1>5 DEF ThreadTypeOK
<1>8. \A d \in Conn : writer'[d].busy => (writer[d].busy /\ writer'[d] = writer[d])
    BY <1>5
<1>9. \A d \in Conn : writer'[d].thread = 0 \/ writer'[d] = writer[d]
    BY <1>5
<1>10. CASE TakesHead(p)
  <2>1. /\ threads < MaxThreads
        /\ heads' = [heads EXCEPT ![p] = [thread |-> MintThread, started |-> threadHour]]
        /\ WriteTurn(MintThread, p, size)
        /\ threads' = MintThread
      BY <1>1, <1>10 DEF InsertHeadAndTurn
  <2>2. PICK id \in Nat : id = MintThread /\ id = threads + 1
    <3>1. threads \in Nat
        BY <1>2 DEF ThreadTypeOK
    <3> QED BY <3>1 DEF MintThread
  <2>3. /\ turns' \in Seq(TurnRow) /\ Len(turns') = n + 1 /\ Len(turns') <= MaxTurnRows /\ n \in Nat
        /\ \A k \in DOMAIN turns' : k \in DOMAIN turns \/ k = n + 1
        /\ \A k \in DOMAIN turns : k \in DOMAIN turns' /\ turns'[k] = turns[k]
        /\ turns'[n + 1].thread = id /\ turns'[n + 1].principal = p
        /\ turns'[n + 1].at = threadHour
      BY <1>1, <1>2, <1>3, <1>4, <2>1, <2>2, TurnIsWritten
  <2>4. /\ heads' \in [Principal -> HeadRow]
        /\ threads' \in 0..MaxThreads /\ threads' = threads + 1 /\ threads \in Nat
        /\ heads'[p].thread = threads + 1 /\ heads'[p].started = threadHour
        /\ \A q \in Principal : q # p => heads'[q] = heads[q]
        /\ \A q \in Principal : heads[q].thread <= threads /\ heads[q].thread \in Nat
        /\ \A q \in Principal : heads'[q].thread <= threads' /\ heads'[q].started <= threadHour
      BY <1>4, <2>1, NewHead
  <2>5. /\ \A q, r \in Principal :
              (heads'[q].thread = heads'[r].thread /\ heads'[q].thread # 0) => q = r
        /\ \A k \in DOMAIN turns : turns[k].thread # 0 /\ turns[k].thread <= threads'
        /\ \A k \in DOMAIN turns : \A q \in Principal :
              heads'[q].thread = turns[k].thread => turns[k].principal = q
        /\ \A d \in Conn : writer[d].thread <= threads'
        /\ \A d \in Conn : \A q \in Principal :
              (writer[d].busy /\ writer[d].thread # 0 /\ heads'[q].thread = writer[d].thread)
                  => writer[d].for = q
      BY <1>4, <2>1, NewHeadOwnsNothing
  <2>6. ThreadTypeOK'
    <3>1. overtaken' \subseteq 1..Len(turns')
      <4>1. overtaken \subseteq 1..n
          BY <1>1, <1>2 DEF ThreadTypeOK
      <4> QED BY <1>3, <2>3, <4>1
    <3> QED BY <1>2, <1>3, <1>6, <1>7, <2>3, <2>4, <3>1 DEF ThreadTypeOK
  <2>7. ThreadsAreOwned'
    <3>1. \A k \in DOMAIN turns' : turns'[k].thread # 0 /\ turns'[k].thread <= threads'
        BY <2>2, <2>3, <2>4, <2>5
    <3>2. ASSUME NEW k \in DOMAIN turns', NEW q \in Principal, heads'[q].thread = turns'[k].thread
          PROVE  turns'[k].principal = q
      <4>1. CASE k \in DOMAIN turns
          BY <2>3, <2>5, <3>2, <4>1
      <4>2. CASE k = n + 1
        <5>1. heads'[q].thread = heads'[p].thread /\ heads'[q].thread # 0
            BY <2>2, <2>3, <2>4, <3>2, <4>2
        <5>2. q = p
            BY <1>4, <2>5, <5>1
        <5> QED BY <2>3, <4>2, <5>2
      <4> QED BY <2>3, <4>1, <4>2
    <3>3. \A d \in Conn : writer'[d].thread <= threads'
        BY <1>9, <2>4, <2>5
    <3>4. \A d \in Conn : \A q \in Principal :
            (writer'[d].busy /\ writer'[d].thread # 0 /\ heads'[q].thread = writer'[d].thread)
                => writer'[d].for = q
        BY <1>8, <2>5
    <3>5. \A q, r \in Principal :
            (heads'[q].thread = heads'[r].thread /\ heads'[q].thread # 0) => q = r
        BY <2>5
    <3> QED BY <3>1, <3>2, <3>3, <3>4, <3>5 DEF ThreadsAreOwned
  <2>8. ASSUME NEW q \in Principal, NEW k \in DOMAIN turns', turns'[k].principal = q,
               k >= topic[q], k \notin overtaken
        PROVE  turns'[k].thread = heads'[q].thread /\ turns'[k].at >= heads'[q].started
    <3>1. CASE k \in DOMAIN turns
      <4>1. turns[k].thread = heads[q].thread /\ turns[k].at >= heads[q].started
          BY <1>2, <2>3, <2>8, <3>1 DEF SaidIsUnderHead
      <4>2. turns[k].thread # 0
          BY <2>5, <3>1
      <4>3. q # p
          BY <1>10, <4>1, <4>2 DEF TakesHead
      <4> QED BY <2>3, <2>4, <3>1, <4>1, <4>3
    <3>2. CASE k = n + 1
      <4>1. q = p /\ threadHour \in Nat
          BY <1>2, <2>3, <2>8, <3>2 DEF ThreadTypeOK
      <4> QED BY <2>2, <2>3, <2>4, <3>2, <4>1
    <3> QED BY <2>3, <2>8, <3>1, <3>2
  <2>9. SaidIsUnderHead'
      BY <1>3, <2>8 DEF SaidIsUnderHead
  <2> QED BY <2>6, <2>7, <2>9 DEF ThreadInv
<1>11. CASE ~TakesHead(p)
  <2>1. heads' = heads /\ turns' = turns /\ threads' = threads
      BY <1>1, <1>11 DEF InsertHeadAndTurn
  <2>2. ThreadTypeOK'
      BY <1>2, <1>3, <1>6, <1>7, <2>1 DEF ThreadTypeOK
  <2>3. ThreadsAreOwned'
    <3>1. threads \in Nat
        BY <1>2 DEF ThreadTypeOK
    <3>2. \A d \in Conn : writer'[d].thread <= threads
        BY <1>2, <1>9, <3>1 DEF ThreadsAreOwned
    <3>3. \A d \in Conn : \A q \in Principal :
            (writer'[d].busy /\ writer'[d].thread # 0 /\ heads[q].thread = writer'[d].thread)
                => writer'[d].for = q
        BY <1>2, <1>8 DEF ThreadsAreOwned
    <3> QED BY <1>2, <2>1, <3>2, <3>3 DEF ThreadsAreOwned
  <2>4. SaidIsUnderHead'
      BY <1>2, <1>3, <2>1 DEF SaidIsUnderHead
  <2> QED BY <2>2, <2>3, <2>4 DEF ThreadInv
<1> QED BY <1>10, <1>11

LEMMA NewTopicInv ==
    ASSUME ThreadInv, NEW p \in Principal, NewTopic(p)
    PROVE  ThreadInv'
<1>1. PICK n : n = Len(turns)
    OBVIOUS
<1>2. ThreadTypeOK /\ ThreadsAreOwned /\ SaidIsUnderHead
    BY DEF ThreadInv
<1>3. /\ threads < MaxThreads
      /\ heads' = [heads EXCEPT ![p] = [thread |-> MintThread, started |-> threadHour]]
      /\ threads' = MintThread
      /\ topic' = [topic EXCEPT ![p] = n + 1]
      /\ turns' = turns /\ writer' = writer /\ threadHour' = threadHour /\ overtaken' = overtaken
    BY <1>1 DEF NewTopic
<1>4. /\ heads' \in [Principal -> HeadRow]
      /\ threads' \in 0..MaxThreads
      /\ \A q \in Principal : q # p => heads'[q] = heads[q]
      /\ \A q \in Principal : heads'[q].thread <= threads' /\ heads'[q].started <= threadHour
    BY <1>3, NewHead
<1>5. /\ \A q, r \in Principal :
            (heads'[q].thread = heads'[r].thread /\ heads'[q].thread # 0) => q = r
      /\ \A k \in DOMAIN turns : turns[k].thread # 0 /\ turns[k].thread <= threads'
      /\ \A k \in DOMAIN turns : \A q \in Principal :
            heads'[q].thread = turns[k].thread => turns[k].principal = q
      /\ \A d \in Conn : writer[d].thread <= threads'
      /\ \A d \in Conn : \A q \in Principal :
            (writer[d].busy /\ writer[d].thread # 0 /\ heads'[q].thread = writer[d].thread)
                => writer[d].for = q
    BY <1>3, NewHeadOwnsNothing
<1>6. n \in Nat /\ n <= MaxTurnRows /\ DOMAIN turns = 1..n
    BY <1>1, <1>2 DEF ThreadTypeOK
<1>7. topic \in [Principal -> 1..MaxTurnRows + 1]
    BY <1>2 DEF ThreadTypeOK
<1>8. /\ topic' \in [Principal -> 1..MaxTurnRows + 1] /\ topic'[p] = n + 1
      /\ \A q \in Principal : q # p => topic'[q] = topic[q]
  <2>1. n + 1 \in 1..MaxTurnRows + 1
      BY <1>6, ThreadAssumption
  <2> QED BY <1>3, <1>7, <2>1
<1>9. ThreadTypeOK'
    BY <1>2, <1>3, <1>4, <1>8 DEF ThreadTypeOK
<1>10. ThreadsAreOwned'
    BY <1>3, <1>5 DEF ThreadsAreOwned
<1>11. ASSUME NEW q \in Principal, NEW k \in DOMAIN turns, turns[k].principal = q,
              k >= topic'[q], k \notin overtaken
       PROVE  turns[k].thread = heads'[q].thread /\ turns[k].at >= heads'[q].started
  <2>1. q # p
      BY <1>6, <1>8, <1>11
  <2> QED BY <1>2, <1>4, <1>8, <1>11, <2>1 DEF SaidIsUnderHead
<1>12. SaidIsUnderHead'
    BY <1>3, <1>11 DEF SaidIsUnderHead
<1> QED BY <1>9, <1>10, <1>12 DEF ThreadInv

LEMMA ThreadHourPassesInv == ThreadInv /\ ThreadHourPasses => ThreadInv'
<1> SUFFICES ASSUME ThreadInv, ThreadHourPasses PROVE ThreadInv'
    OBVIOUS
<1>1. /\ threadHour < MaxThreadHours /\ threadHour' = threadHour + 1
      /\ heads' = heads /\ turns' = turns /\ writer' = writer /\ threads' = threads
      /\ topic' = topic /\ overtaken' = overtaken
    BY DEF ThreadHourPasses
<1>2. ThreadTypeOK /\ ThreadsAreOwned /\ SaidIsUnderHead
    BY DEF ThreadInv
<1>3. threadHour' \in 0..MaxThreadHours /\ threadHour \in Nat
    BY <1>1, <1>2, ThreadAssumption DEF ThreadTypeOK
<1>4. ASSUME NEW p \in Principal
      PROVE  heads[p].thread <= threads /\ heads[p].started <= threadHour + 1
  <2>1. heads[p].thread <= threads /\ heads[p].started <= threadHour
      BY <1>2 DEF ThreadTypeOK
  <2>2. heads[p] \in HeadRow
      BY <1>2 DEF ThreadTypeOK
  <2>3. heads[p].started \in Nat
      BY <2>2 DEF HeadRow
  <2> QED BY <1>3, <2>1, <2>3
<1>5. ThreadTypeOK'
    BY <1>1, <1>2, <1>3, <1>4 DEF ThreadTypeOK
<1>6. ThreadsAreOwned'
    BY <1>1, <1>2 DEF ThreadsAreOwned
<1>7. SaidIsUnderHead'
    BY <1>1, <1>2 DEF SaidIsUnderHead
<1> QED BY <1>5, <1>6, <1>7 DEF ThreadInv

LEMMA ThreadNextInv == ThreadInv /\ [ThreadNext]_threadVars => ThreadInv'
<1> SUFFICES ASSUME ThreadInv, [ThreadNext]_threadVars PROVE ThreadInv'
    OBVIOUS
<1>1. CASE UNCHANGED threadVars
  <2>1. ThreadTypeOK' /\ ThreadsAreOwned' /\ SaidIsUnderHead'
      BY <1>1 DEF threadVars, ThreadInv, ThreadTypeOK, ThreadsAreOwned, SaidIsUnderHead
  <2> QED BY <2>1 DEF ThreadInv
<1> QED BY <1>1, LookForHeadInv, InsertTurnInv, InsertHeadAndTurnInv, NewTopicInv,
           ThreadHourPassesInv DEF ThreadNext

\* The rows thread_for reads, oldest first: the live turns of the head, each
\* once.
LEMMA LiveTurnsInOrder ==
    ASSUME ThreadTypeOK, NEW p, LiveHead(p)
    PROVE  LET s == ThreadFor(p) IN
           /\ s \in Seq(TurnRow)
           /\ \A i \in DOMAIN s : \E k \in LiveTurns(p) : s[i] = turns[k]
           /\ \A k \in LiveTurns(p) : \E i \in DOMAIN s : s[i] = turns[k]
<1> DEFINE S == LiveTurns(p)
<1> DEFINE R == {t \in S \X S : t[1] < t[2]}
<1>1. PICK n \in Nat : n = Len(turns) /\ DOMAIN turns = 1..n /\ turns \in Seq(TurnRow)
    BY DEF ThreadTypeOK
<1>2. S \subseteq 1..n /\ S \subseteq DOMAIN turns
    BY <1>1 DEF LiveTurns
<1>3. IsFiniteSet(S)
  <2> HIDE DEF S
  <2>1. PICK a : a = 1
      OBVIOUS
  <2>2. IsFiniteSet(a..n)
      BY <1>1, <2>1, FS_Interval
  <2> QED BY <1>2, <2>1, <2>2, FS_Subset
<1>4. \A j, k \in S : (<<j, k>> \in R) <=> j < k
    OBVIOUS
<1>5. Orders(R, S)
  <2>1. \A j \in S : <<j, j>> \notin R
      BY <1>2, <1>4
  <2>2. ASSUME NEW i \in S, NEW j \in S, NEW k \in S, <<i, j>> \in R, <<j, k>> \in R
        PROVE  <<i, k>> \in R
    <3>1. i < j /\ j < k
        BY <1>4, <2>2
    <3>2. i < k
        BY <1>2, <3>1
    <3> QED BY <1>4, <3>2
  <2>3. ASSUME NEW j \in S, NEW k \in S PROVE j = k \/ <<j, k>> \in R \/ <<k, j>> \in R
    <3>1. j = k \/ j < k \/ k < j
        BY <1>2
    <3> QED BY <1>4, <3>1
  <2> HIDE DEF R, S
  <2> QED BY <2>1, <2>2, <2>3 DEF Orders
<1>6. \A x \in S : {y \in S : y < x} = Before(R, S, x)
    BY <1>4 DEF Before
<1>7. PICK f : f = InOrder(S, LAMBDA j, k : j < k)
    OBVIOUS
<1>8. /\ f \in [1..Cardinality(S) -> S]
      /\ \A k \in 1..Cardinality(S) : Cardinality(Before(R, S, f[k])) = k - 1
  <2> HIDE DEF R, S
  <2>1. ASSUME NEW k \in 1..Cardinality(S)
        PROVE  \E x \in S : Cardinality({y \in S : y < x}) = k - 1
    <3>1. PICK x \in S : Cardinality(Before(R, S, x)) = k - 1
        BY <1>3, <1>5, EveryRankIsTaken
    <3>2. {y \in S : y < x} = Before(R, S, x)
        BY <1>6
    <3>3. Cardinality({y \in S : y < x}) = k - 1
        BY <3>1, <3>2
    <3> QED BY <3>3
  <2>2. ASSUME NEW k \in 1..Cardinality(S)
        PROVE  f[k] \in S /\ Cardinality({y \in S : y < f[k]}) = k - 1
      BY <1>7, <2>1 DEF InOrder
  <2>3. f \in [1..Cardinality(S) -> S]
    <3>1. \A k \in 1..Cardinality(S) :
            (CHOOSE x \in S : Cardinality({y \in S : y < x}) = k - 1) \in S
        BY <2>1
    <3> QED BY <1>7, <3>1 DEF InOrder
  <2> QED BY <1>6, <2>2, <2>3
<1>9. IsOrdered(f, R, S)
  <2> HIDE DEF R, S
  <2> QED BY <1>3, <1>5, <1>8, RankedIsOrdered
<1>10. PICK m \in Nat : m = Cardinality(S)
    BY <1>3, FS_CardinalityType
<1>11. f \in [1..m -> S] /\ \A x \in S : \E k \in 1..m : f[k] = x
    BY <1>9, <1>10 DEF IsOrdered
<1>12. PICK s : s = ThreadFor(p)
    OBVIOUS
<1>13. s = [i \in 1..m |-> turns[f[i]]]
    BY <1>7, <1>11, <1>12 DEF ThreadFor
<1>14. s \in Seq(TurnRow)
  <2>1. \A i \in 1..m : turns[f[i]] \in TurnRow
      BY <1>1, <1>2, <1>11
  <2> QED BY <1>10, <1>13, <2>1
<1>15. \A i \in DOMAIN s : f[i] \in S /\ s[i] = turns[f[i]]
    BY <1>11, <1>13
<1>16. \A k \in S : \E i \in DOMAIN s : s[i] = turns[k]
    BY <1>11, <1>13
<1> QED BY <1>12, <1>14, <1>15, <1>16

LEMMA ThreadIsServed == ThreadInv => ThreadIsPrivate /\ SaidIsServed /\ ThreadPromptFits
<1> SUFFICES ASSUME ThreadInv PROVE ThreadIsPrivate /\ SaidIsServed /\ ThreadPromptFits
    OBVIOUS
<1>1. ThreadTypeOK /\ ThreadsAreOwned /\ SaidIsUnderHead
    BY DEF ThreadInv
<1>2. ASSUME NEW p \in Principal, ~LiveHead(p) PROVE ThreadFor(p) = << >>
    BY <1>2 DEF ThreadFor
<1>3. ASSUME NEW p \in Principal, NEW k \in DOMAIN ThreadFor(p)
      PROVE  ThreadFor(p)[k].principal = p
  <2>1. LiveHead(p)
      BY <1>2
  <2>2. PICK j \in LiveTurns(p) : ThreadFor(p)[k] = turns[j]
      BY <1>1, <2>1, LiveTurnsInOrder
  <2>3. j \in DOMAIN turns /\ turns[j].thread = heads[p].thread
      BY <2>2 DEF LiveTurns
  <2> QED BY <1>1, <2>2, <2>3 DEF ThreadsAreOwned
<1>4. ASSUME NEW p \in Principal, NEW k \in DOMAIN turns, LiveHead(p),
             turns[k].principal = p, k >= topic[p], k \notin overtaken
      PROVE  \E j \in DOMAIN ThreadFor(p) : ThreadFor(p)[j] = turns[k]
  <2>1. turns[k].thread = heads[p].thread /\ turns[k].at >= heads[p].started
      BY <1>1, <1>4 DEF SaidIsUnderHead
  <2>2. turns[k].at \in Nat /\ heads[p].started \in Nat /\ threadHour \in Nat
    <3>1. turns[k] \in TurnRow /\ heads[p] \in HeadRow
        BY <1>1 DEF ThreadTypeOK
    <3>2. threadHour \in Nat
        BY <1>1 DEF ThreadTypeOK
    <3> QED BY <3>1, <3>2 DEF TurnRow, HeadRow
  <2>3. Live(turns[k].at)
      BY <1>4, <2>1, <2>2, ThreadAssumption DEF LiveHead, Live
  <2>4. k \in LiveTurns(p)
      BY <2>1, <2>3 DEF LiveTurns
  <2> QED BY <1>1, <1>4, <2>4, LiveTurnsInOrder
<1>5. ASSUME NEW p \in Principal PROVE WithinBudget(ThreadMessages(p))
  <2>1. PICK s : s = ThreadFor(p)
      OBVIOUS
  <2>2. s \in Seq(TurnRow)
    <3>1. CASE LiveHead(p)
        BY <1>1, <2>1, <3>1, LiveTurnsInOrder
    <3>2. CASE ~LiveHead(p)
      <4>1. s = << >>
          BY <1>2, <2>1, <3>2
      <4> QED BY <4>1
    <3> QED BY <3>1, <3>2
  <2>3. PICK l \in Nat : l = Len(s)
      BY <2>2
  <2>4. PICK d : d = LastOf(s, MaxShown)
      OBVIOUS
  <2>5. d \in Seq(TurnRow) /\ Len(d) <= MaxShown /\ Len(d) \in Nat
    <3>1. CASE l > MaxShown
      <4>1. d = SubSeq(s, (l - MaxShown) + 1, l)
          BY <2>3, <2>4, <3>1 DEF LastOf
      <4> QED BY <2>2, <2>3, <3>1, <4>1, BudgetAssumption
    <3>2. CASE ~(l > MaxShown)
      <4>1. d = SubSeq(s, 1, l)
          BY <2>3, <2>4, <3>2 DEF LastOf
      <4> QED BY <2>2, <2>3, <3>2, <4>1, BudgetAssumption
    <3> QED BY <3>1, <3>2
  <2>6. PICK n \in 0..Len(d) : /\ Taking(d) = SubSeq(d, 1, n)
                               /\ n > 1 => Weight(SubSeq(d, 1, n)) <= MaxWeight
      BY <2>5, TakingFits
  <2>7. PICK t : t = SubSeq(d, 1, n)
      OBVIOUS
  <2>8. Len(t) = n /\ t \in Seq(TurnRow)
      BY <2>5, <2>6, <2>7
  <2>9. ThreadMessages(p) = t
      BY <2>1, <2>4, <2>6, <2>7 DEF ThreadMessages
  <2>10. Len(t) <= MaxShown
      BY <2>5, <2>6, <2>8, BudgetAssumption
  <2>11. CASE n > 1
      BY <2>6, <2>7, <2>9, <2>10, <2>11 DEF WithinBudget
  <2>12. CASE n = 1
      BY <2>8, <2>9, <2>10, <2>12 DEF WithinBudget
  <2>13. CASE n = 0
    <3>1. t = << >>
        BY <2>8, <2>13
    <3>2. Weight(t) <= MaxWeight
        BY <3>1, NothingWeighsNothing, BudgetAssumption
    <3> QED BY <2>9, <2>10, <3>2 DEF WithinBudget
  <2> QED BY <2>5, <2>6, <2>11, <2>12, <2>13
<1>6. ThreadIsPrivate
    BY <1>3 DEF ThreadIsPrivate
<1>7. SaidIsServed
    BY <1>4 DEF SaidIsServed
<1>8. ThreadPromptFits
    BY <1>5 DEF ThreadPromptFits
<1> QED BY <1>6, <1>7, <1>8

\* However the connections of the thread store interleave: nobody reads another's
\* turns, a turn is served as long as its topic lasts, and a prompt fits.
THEOREM ThreadIsServedAlways ==
    ThreadSpec => [](ThreadTypeOK /\ ThreadIsPrivate /\ SaidIsServed /\ ThreadPromptFits)
<1>1. ThreadInv => ThreadTypeOK
    BY DEF ThreadInv
<1> QED BY <1>1, ThreadInitInv, ThreadNextInv, ThreadIsServed, PTL DEF ThreadSpec

-----------------------------------------------------------------------------
(* The media seam. No two threads work for the same send, so what one of   *)
(* them leaves on the disk or in the queue is its own.                     *)

MediaChannel == [Update -> [stage : {"due", "waiting", "done"}, sends : 0..MaxSends]]

\* A thread is free or holds the send it works for.
WebShape ==
    web \in [WebThread -> {Free} \cup [stage : {"fetching", "fetched", "worded"}, of : SendOf]]

\* No two threads work for the same send: a send is made once.
SendsAreOwned ==
    \A t, o \in WebThread : Working(t) /\ Working(o) /\ web[t].of = web[o].of => t = o

MediaInv == MediaTypeOK /\ WebShape /\ SendsAreOwned /\ MediaIsTidy

-----------------------------------------------------------------------------
LEMMA MediaInitInv == MediaInit => MediaInv
<1> SUFFICES ASSUME MediaInit PROVE MediaInv
    OBVIOUS
<1> USE MediaAssumption
<1>1. \A t \in WebThread : web[t] = Free
    BY DEF MediaInit
<1>2. MediaTypeOK
  <2>1. channel \in MediaChannel
      BY DEF MediaInit, MediaChannel
  <2>2. \A t \in WebThread : web[t].stage = "free"
      BY <1>1 DEF Free
  <2>3. restarts \in 0..mediaFaults /\ mediaFaults \in 0..MaxMediaFaults
      BY DEF MediaInit
  <2> QED BY <2>1, <2>2, <2>3 DEF MediaInit, MediaTypeOK, MediaChannel, WebStages, Working
<1>3. WebShape
    BY DEF MediaInit, WebShape
<1>4. SendsAreOwned
    BY <1>1 DEF SendsAreOwned, Working, Free
<1>5. MediaIsTidy
    BY DEF MediaInit, MediaIsTidy, OnlyCrashesLeaveHalfFiles, SpokenToIsAnsweredAloud
<1> QED BY <1>2, <1>3, <1>4, <1>5 DEF MediaInv

\* The channel's answer moves a stage and counts no send.
LEMMA ChannelLeavesSends ==
    ASSUME channel \in MediaChannel, NEW send \in SendOf, NEW stage \in {"due", "done"},
           ChannelLeaves(send, stage)
    PROVE  channel' \in MediaChannel /\ \A u \in Update : channel'[u].sends = channel[u].sends
<1>1. send.update \in Update
    BY DEF SendOf
<1>2. CASE channel' = channel
    BY <1>2
<1>3. CASE channel' = [channel EXCEPT ![send.update].stage = stage]
    BY <1>1, <1>3 DEF MediaChannel
<1> QED BY <1>2, <1>3 DEF ChannelLeaves

\* The locals of a thread, for the proofs.
LEMMA WorkingShape ==
    ASSUME WebShape, NEW t \in WebThread, web[t].stage # "free"
    PROVE  /\ web[t] \in [stage : {"fetching", "fetched", "worded"}, of : SendOf]
           /\ web[t] = [stage |-> web[t].stage, of |-> web[t].of]
           /\ web[t].of \in SendOf
<1>1. web[t] \in [stage : {"fetching", "fetched", "worded"}, of : SendOf]
    BY DEF WebShape, Free
<1> QED BY <1>1

LEMMA AtFields == \A stage, send : At(stage, send).stage = stage /\ At(stage, send).of = send
BY DEF At

LEMMA ShapeStages == WebShape' => \A o \in WebThread : web'[o].stage \in WebStages
<1> SUFFICES ASSUME WebShape', NEW o \in WebThread PROVE web'[o].stage \in WebStages
    OBVIOUS
<1>1. CASE web'[o] = Free
    BY <1>1 DEF Free, WebStages
<1>2. CASE web'[o] \in [stage : {"fetching", "fetched", "worded"}, of : SendOf]
    BY <1>2 DEF WebStages
<1> QED BY <1>1, <1>2 DEF WebShape

\* A thread that is done leaves the others as they were: what is left to show of
\* such a step is its files and its tasks.
LEMMA ThreadEnds ==
    ASSUME MediaInv, NEW t \in WebThread, web' = [web EXCEPT ![t] = Free],
           channel' \in MediaChannel, \A u \in Update : channel'[u].sends = channel[u].sends
    PROVE  /\ WebShape' /\ SendsAreOwned'
           /\ \A o \in WebThread : Working(o)' => o # t /\ web'[o] = web[o]
           /\ \A o \in WebThread : /\ web'[o].stage \in WebStages
                                   /\ Working(o)' => /\ web'[o].of \in SendOf
                                                     /\ web'[o].of.n <= channel'[web'[o].of.update].sends
<1>1. WebShape /\ SendsAreOwned /\ MediaTypeOK
    BY DEF MediaInv
<1>2. WebShape'
    BY <1>1 DEF WebShape
<1>3. \A o \in WebThread : web'[o] = IF o = t THEN Free ELSE web[o]
    BY <1>1 DEF WebShape
<1>4. \A o \in WebThread : Working(o)' => o # t /\ web'[o] = web[o]
    BY <1>3 DEF Working, Free
<1>5. SendsAreOwned'
    BY <1>1, <1>4 DEF SendsAreOwned, Working
<1>6. \A o \in WebThread : web'[o].stage \in WebStages
    BY <1>2, ShapeStages
<1>7. \A o \in WebThread : Working(o)' => /\ web'[o].of \in SendOf
                                           /\ web'[o].of.n <= channel'[web'[o].of.update].sends
  <2> SUFFICES ASSUME NEW o \in WebThread, Working(o)'
               PROVE  web'[o].of \in SendOf /\ web'[o].of.n <= channel'[web'[o].of.update].sends
      OBVIOUS
  <2>1. web'[o] = web[o] /\ Working(o)
      BY <1>4 DEF Working
  <2>2. web[o].of \in SendOf /\ web[o].of.n <= channel[web[o].of.update].sends
      BY <1>1, <2>1 DEF MediaTypeOK
  <2>3. web[o].of.update \in Update
      BY <2>2 DEF SendOf
  <2> QED BY <2>1, <2>2, <2>3
<1> QED BY <1>2, <1>4, <1>5, <1>6, <1>7

LEMMA SendInv ==
    ASSUME MediaInv, NEW u \in Update, NEW t \in WebThread, Send(u, t) PROVE MediaInv'
<1> USE MediaAssumption
<1> DEFINE send == [update |-> u, n |-> channel[u].sends + 1]
<1>1. MediaTypeOK /\ WebShape /\ SendsAreOwned /\ MediaIsTidy
    BY DEF MediaInv
<1>2. /\ channel[u].stage = "due" /\ channel[u].sends < MaxSends /\ web[t].stage = "free"
      /\ channel' = [channel EXCEPT ![u] =
            [stage |-> IF kindOf[u] = "none" THEN "done" ELSE "waiting", sends |-> send.n]]
      /\ web' = [web EXCEPT ![t] = CASE kindOf[u] = "none" -> Free
                                     [] kindOf[u] = "text" -> At("worded", send)
                                     [] OTHER -> At("fetching", send)]
      /\ mediaFiles' = IF IsMedia(kindOf[u])
                        THEN mediaFiles \cup {[of |-> send, whole |-> FALSE]} ELSE mediaFiles
      /\ UNCHANGED <<kindOf, heard, restarts, mediaFaults>>
    BY DEF Send, Working
<1>3. /\ kindOf \in [Update -> MediaKinds] /\ channel \in MediaChannel
      /\ mediaFiles \subseteq MediaFile /\ heard \subseteq HeardTask
      /\ restarts \in 0..mediaFaults /\ mediaFaults \in 0..MaxMediaFaults
    BY <1>1 DEF MediaTypeOK, MediaChannel
<1>4. channel[u].sends \in Nat /\ channel[u].sends + 1 \in 1..MaxSends
    BY <1>2, <1>3 DEF MediaChannel
<1>5. send \in SendOf
    BY <1>4 DEF SendOf
<1>6. channel' \in MediaChannel
    BY <1>2, <1>3, <1>4 DEF MediaChannel
<1>7. /\ channel'[u].sends = channel[u].sends + 1
      /\ \A v \in Update : v # u => channel'[v] = channel[v]
    BY <1>2, <1>3 DEF MediaChannel
<1> HIDE DEF send
<1>8. \A o \in WebThread : o # t => web'[o] = web[o]
    BY <1>1, <1>2 DEF WebShape
<1>9. \/ web'[t] = Free /\ mediaFiles' = mediaFiles
      \/ web'[t] = At("worded", send) /\ mediaFiles' = mediaFiles
      \/ web'[t] = At("fetching", send) /\ mediaFiles' = mediaFiles \cup {[of |-> send, whole |-> FALSE]}
  <2>1. web'[t] = CASE kindOf[u] = "none" -> Free
                    [] kindOf[u] = "text" -> At("worded", send)
                    [] OTHER -> At("fetching", send)
      BY <1>1, <1>2 DEF WebShape
  <2>2. kindOf[u] \in MediaKinds
      BY <1>3
  <2>3. CASE kindOf[u] = "none"
      BY <1>2, <2>1, <2>3 DEF IsMedia
  <2>4. CASE kindOf[u] = "text"
      BY <1>2, <2>1, <2>4 DEF IsMedia
  <2>5. CASE kindOf[u] \notin {"none", "text"}
    <3>1. web'[t] = At("fetching", send)
        BY <2>1, <2>5
    <3>2. IsMedia(kindOf[u])
        BY <2>2, <2>5 DEF IsMedia, MediaKinds
    <3> QED BY <1>2, <3>1, <3>2
  <2> QED BY <2>3, <2>4, <2>5
<1>10. WebShape'
  <2>1. web'[t] \in {Free} \cup [stage : {"fetching", "fetched", "worded"}, of : SendOf]
      BY <1>5, <1>9 DEF At
  <2> QED BY <1>1, <1>2, <2>1 DEF WebShape
\* A send of this number was not there before.
<1>11. \A o \in WebThread : Working(o) => web[o].of \in SendOf /\ web[o].of # send
  <2> SUFFICES ASSUME NEW o \in WebThread, Working(o), web[o].of = send PROVE FALSE
      BY <1>1 DEF MediaTypeOK
  <2>1. web[o].of.n <= channel[web[o].of.update].sends
      BY <1>1 DEF MediaTypeOK
  <2>2. send.n = channel[u].sends + 1 /\ send.update = u
      BY DEF send
  <2> QED BY <1>4, <2>1, <2>2
<1>12. SendsAreOwned'
  <2> SUFFICES ASSUME NEW o \in WebThread, NEW p \in WebThread, Working(o)', Working(p)',
                      web'[o].of = web'[p].of, o # p PROVE FALSE
      BY DEF SendsAreOwned
  <2>1. web'[t] # Free => web'[t].of = send
      BY <1>9 DEF At
  <2>2. CASE o # t /\ p # t
      BY <1>1, <1>8, <2>2 DEF SendsAreOwned, Working
  <2>3. CASE o = t
      BY <1>8, <1>11, <2>1, <2>3 DEF Working, Free
  <2>4. CASE p = t
      BY <1>8, <1>11, <2>1, <2>4 DEF Working, Free
  <2> QED BY <2>2, <2>3, <2>4
<1>13. MediaTypeOK'
  <2>1. mediaFiles' \subseteq MediaFile
    <3>1. [of |-> send, whole |-> FALSE] \in MediaFile
        BY <1>5 DEF MediaFile
    <3> QED BY <1>3, <1>9, <3>1
  <2>2. mediaFiles \subseteq mediaFiles'
      BY <1>9
  <2>3. ASSUME NEW o \in WebThread
        PROVE  /\ web'[o].stage \in WebStages
               /\ web'[o].stage \in {"fetching", "fetched"} =>
                    [of |-> web'[o].of, whole |-> web'[o].stage = "fetched"] \in mediaFiles'
               /\ Working(o)' => web'[o].of \in SendOf /\ web'[o].of.n <= channel'[web'[o].of.update].sends
    <3>1. CASE o # t
      <4>1. web'[o] = web[o]
          BY <1>8, <3>1
      <4>2. web[o].stage \in WebStages
          BY <1>1 DEF MediaTypeOK
      <4>3. web[o].stage \in {"fetching", "fetched"} =>
                    [of |-> web[o].of, whole |-> web[o].stage = "fetched"] \in mediaFiles
          BY <1>1 DEF MediaTypeOK
      <4>4. Working(o) => web[o].of \in SendOf /\ web[o].of.n <= channel[web[o].of.update].sends
          BY <1>1 DEF MediaTypeOK
      <4>5. Working(o) => web[o].of.n <= channel'[web[o].of.update].sends
        <5> SUFFICES ASSUME Working(o) PROVE web[o].of.n <= channel'[web[o].of.update].sends
            OBVIOUS
        <5>1. web[o].of.update \in Update /\ web[o].of.n \in Nat
            BY <4>4 DEF SendOf
        <5>2. CASE web[o].of.update = u
            BY <1>4, <1>7, <4>4, <5>1, <5>2
        <5>3. CASE web[o].of.update # u
            BY <1>7, <4>4, <5>1, <5>3
        <5> QED BY <5>2, <5>3
      <4> QED BY <2>2, <4>1, <4>2, <4>3, <4>4, <4>5 DEF Working
    <3>2. CASE o = t /\ web'[t] = Free
        BY <3>2 DEF Free, WebStages, Working
    <3>3. send.n <= channel'[send.update].sends
        BY <1>4, <1>7 DEF send
    <3>4. CASE o = t /\ web'[t] = At("worded", send)
        BY <1>5, <3>3, <3>4 DEF At, WebStages, Working
    <3>5. CASE o = t /\ web'[t] = At("fetching", send) /\ [of |-> send, whole |-> FALSE] \in mediaFiles'
      <4>1. web'[o].stage = "fetching" /\ web'[o].of = send
          BY <3>5 DEF At
      <4>2. [of |-> web'[o].of, whole |-> web'[o].stage = "fetched"] = [of |-> send, whole |-> FALSE]
          BY <4>1
      <4> QED BY <1>5, <3>3, <3>5, <4>1, <4>2 DEF WebStages, Working
    <3> QED BY <1>9, <3>1, <3>2, <3>4, <3>5
  <2> QED BY <1>2, <1>3, <1>6, <2>1, <2>3 DEF MediaTypeOK, MediaChannel, Working
<1>14. OnlyCrashesLeaveHalfFiles'
  <2> SUFFICES ASSUME restarts = 0, NEW f \in mediaFiles', ~f.whole
               PROVE  \E o \in WebThread : web'[o] = At("fetching", f.of)
      BY <1>2 DEF OnlyCrashesLeaveHalfFiles
  <2>1. CASE f \in mediaFiles
    <3>1. PICK o \in WebThread : web[o] = At("fetching", f.of)
        BY <1>1, <2>1 DEF MediaIsTidy, OnlyCrashesLeaveHalfFiles
    <3>2. o # t
        BY <1>2, <3>1 DEF At
    <3> QED BY <1>8, <3>1, <3>2
  <2>2. CASE web'[t] = At("fetching", send) /\ f = [of |-> send, whole |-> FALSE]
      BY <2>2
  <2> QED BY <1>9, <2>1, <2>2
<1>15. SpokenToIsAnsweredAloud'
    BY <1>1, <1>2 DEF MediaIsTidy, SpokenToIsAnsweredAloud
<1> QED BY <1>10, <1>12, <1>13, <1>14, <1>15 DEF MediaInv, MediaIsTidy

LEMMA FetchInv ==
    ASSUME MediaInv, NEW t \in WebThread, Fetch(t) PROVE MediaInv'
<1> USE MediaAssumption
<1>1. MediaTypeOK /\ WebShape /\ SendsAreOwned /\ MediaIsTidy
    BY DEF MediaInv
<1>2. /\ web[t].stage = "fetching"
      /\ mediaFiles' = (mediaFiles \ {[of |-> web[t].of, whole |-> FALSE]})
                        \cup {[of |-> web[t].of, whole |-> TRUE]}
      /\ web' = [web EXCEPT ![t].stage = "fetched"]
      /\ UNCHANGED <<kindOf, channel, heard, restarts, mediaFaults>>
    BY DEF Fetch
<1>3. web[t] = At("fetching", web[t].of) /\ web[t].of \in SendOf
    BY <1>1, <1>2, WorkingShape DEF At
<1>4. web'[t] = At("fetched", web[t].of)
  <2>1. web'[t] = [web[t] EXCEPT !.stage = "fetched"]
      BY <1>1, <1>2 DEF WebShape
  <2> QED BY <1>3, <2>1 DEF At
<1>5. \A o \in WebThread : o # t => web'[o] = web[o]
    BY <1>1, <1>2 DEF WebShape
<1>6. WebShape'
  <2>1. web'[t] \in {Free} \cup [stage : {"fetching", "fetched", "worded"}, of : SendOf]
      BY <1>3, <1>4 DEF At
  <2> QED BY <1>1, <1>2, <1>5, <2>1 DEF WebShape
<1>7. \A o \in WebThread : Working(o)' <=> Working(o)
    BY <1>2, <1>4, <1>5 DEF Working, At
<1>8. \A o \in WebThread : Working(o) => web'[o].of = web[o].of
    BY <1>4, <1>5 DEF At
<1>9. SendsAreOwned'
    BY <1>1, <1>7, <1>8 DEF SendsAreOwned
<1>10. MediaTypeOK'
  <2>1. [of |-> web[t].of, whole |-> TRUE] \in MediaFile
      BY <1>3 DEF MediaFile
  <2>2. mediaFiles' \subseteq MediaFile
      BY <1>1, <1>2, <2>1 DEF MediaTypeOK
  <2>3. ASSUME NEW o \in WebThread
        PROVE  web'[o].stage \in WebStages
      BY <1>6, ShapeStages
  <2>4. ASSUME NEW o \in WebThread, web'[o].stage \in {"fetching", "fetched"}
        PROVE  [of |-> web'[o].of, whole |-> web'[o].stage = "fetched"] \in mediaFiles'
    <3>1. CASE o = t
      <4>1. web'[o].of = web[t].of /\ web'[o].stage = "fetched"
          BY <1>4, <3>1, AtFields
      <4>2. (web'[o].stage = "fetched") = TRUE
          BY <4>1
      <4>3. [of |-> web[t].of, whole |-> TRUE] \in mediaFiles'
          BY <1>2
      <4> QED BY <4>1, <4>2, <4>3
    <3>2. CASE o # t
      <4>1. web'[o] = web[o]
          BY <1>5, <3>2
      <4>2. [of |-> web[o].of, whole |-> web[o].stage = "fetched"] \in mediaFiles
          BY <1>1, <2>4, <4>1 DEF MediaTypeOK
      <4>3. web[o].of # web[t].of
          BY <1>1, <1>2, <2>4, <3>2, <4>1 DEF SendsAreOwned, Working
      <4> QED BY <1>2, <4>1, <4>2, <4>3
    <3> QED BY <3>1, <3>2
  <2>5. ASSUME NEW o \in WebThread, Working(o)'
        PROVE  web'[o].of \in SendOf /\ web'[o].of.n <= channel'[web'[o].of.update].sends
      BY <1>1, <1>2, <1>7, <1>8, <2>5 DEF MediaTypeOK
  <2> QED BY <1>1, <1>2, <2>2, <2>3, <2>4, <2>5 DEF MediaTypeOK
<1>11. OnlyCrashesLeaveHalfFiles'
  <2> SUFFICES ASSUME restarts = 0, NEW f \in mediaFiles', ~f.whole
               PROVE  \E o \in WebThread : web'[o] = At("fetching", f.of)
      BY <1>2 DEF OnlyCrashesLeaveHalfFiles
  <2>1. f \in mediaFiles /\ f # [of |-> web[t].of, whole |-> FALSE]
      BY <1>2
  <2>2. f \in MediaFile
      BY <1>1, <2>1 DEF MediaTypeOK
  <2>3. f.of # web[t].of
      BY <2>1, <2>2 DEF MediaFile
  <2>4. PICK o \in WebThread : web[o] = At("fetching", f.of)
      BY <1>1, <2>1 DEF MediaIsTidy, OnlyCrashesLeaveHalfFiles
  <2>5. o # t
      BY <2>3, <2>4, AtFields
  <2> QED BY <1>5, <2>4, <2>5
<1>12. SpokenToIsAnsweredAloud'
    BY <1>1, <1>2 DEF MediaIsTidy, SpokenToIsAnsweredAloud
<1> QED BY <1>6, <1>9, <1>10, <1>11, <1>12 DEF MediaInv, MediaIsTidy

LEMMA SenseFileInv ==
    ASSUME MediaInv, NEW t \in WebThread, SenseFile(t) PROVE MediaInv'
<1> USE MediaAssumption
<1>1. MediaTypeOK /\ WebShape /\ SendsAreOwned /\ MediaIsTidy
    BY DEF MediaInv
<1>2. /\ web[t].stage = "fetched" /\ web' = [web EXCEPT ![t].stage = "worded"]
      /\ UNCHANGED <<kindOf, channel, mediaFiles, heard, restarts, mediaFaults>>
    BY DEF SenseFile
<1>3. web[t] = At("fetched", web[t].of) /\ web[t].of \in SendOf
    BY <1>1, <1>2, WorkingShape DEF At
<1>4. web'[t] = At("worded", web[t].of)
  <2>1. web'[t] = [web[t] EXCEPT !.stage = "worded"]
      BY <1>1, <1>2 DEF WebShape
  <2> QED BY <1>3, <2>1 DEF At
<1>5. \A o \in WebThread : o # t => web'[o] = web[o]
    BY <1>1, <1>2 DEF WebShape
<1>6. WebShape'
  <2>1. web'[t] \in {Free} \cup [stage : {"fetching", "fetched", "worded"}, of : SendOf]
      BY <1>3, <1>4 DEF At
  <2> QED BY <1>1, <1>2, <1>5, <2>1 DEF WebShape
<1>7. \A o \in WebThread : Working(o)' <=> Working(o)
    BY <1>2, <1>4, <1>5 DEF Working, At
<1>8. \A o \in WebThread : Working(o) => web'[o].of = web[o].of
    BY <1>4, <1>5 DEF At
<1>9. SendsAreOwned'
    BY <1>1, <1>7, <1>8 DEF SendsAreOwned
<1>10. MediaTypeOK'
  <2>1. ASSUME NEW o \in WebThread
        PROVE  web'[o].stage \in WebStages
      BY <1>6, ShapeStages
  <2>2. ASSUME NEW o \in WebThread, web'[o].stage \in {"fetching", "fetched"}
        PROVE  [of |-> web'[o].of, whole |-> web'[o].stage = "fetched"] \in mediaFiles'
    <3>1. o # t
        BY <1>4, <2>2 DEF At
    <3>2. web'[o] = web[o]
        BY <1>5, <3>1
    <3>3. [of |-> web[o].of, whole |-> web[o].stage = "fetched"] \in mediaFiles
        BY <1>1, <2>2, <3>2 DEF MediaTypeOK
    <3>4. [of |-> web'[o].of, whole |-> web'[o].stage = "fetched"]
            = [of |-> web[o].of, whole |-> web[o].stage = "fetched"]
        BY <3>2
    <3>5. mediaFiles' = mediaFiles
        BY <1>2
    <3> QED BY <3>3, <3>4, <3>5
  <2>3. ASSUME NEW o \in WebThread, Working(o)'
        PROVE  web'[o].of \in SendOf /\ web'[o].of.n <= channel'[web'[o].of.update].sends
      BY <1>1, <1>2, <1>7, <1>8, <2>3 DEF MediaTypeOK
  <2> QED BY <1>1, <1>2, <2>1, <2>2, <2>3 DEF MediaTypeOK
<1>11. OnlyCrashesLeaveHalfFiles'
  <2> SUFFICES ASSUME restarts = 0, NEW f \in mediaFiles, ~f.whole
               PROVE  \E o \in WebThread : web'[o] = At("fetching", f.of)
      BY <1>2 DEF OnlyCrashesLeaveHalfFiles
  <2>1. PICK o \in WebThread : web[o] = At("fetching", f.of)
      BY <1>1 DEF MediaIsTidy, OnlyCrashesLeaveHalfFiles
  <2>2. o # t
      BY <1>2, <2>1, AtFields
  <2> QED BY <1>5, <2>1, <2>2
<1>12. SpokenToIsAnsweredAloud'
    BY <1>1, <1>2 DEF MediaIsTidy, SpokenToIsAnsweredAloud
<1> QED BY <1>6, <1>9, <1>10, <1>11, <1>12 DEF MediaInv, MediaIsTidy

\* The refusals and the publication end a thread's work.
LEMMA FetchRefusedInv ==
    ASSUME MediaInv, NEW t \in WebThread, FetchRefused(t) PROVE MediaInv'
<1> USE MediaAssumption
<1>1. MediaTypeOK /\ WebShape /\ SendsAreOwned /\ MediaIsTidy
    BY DEF MediaInv
<1>2. /\ web[t].stage = "fetching" /\ mediaFiles' = LeftOnDisk(web[t].of)
      /\ ChannelLeaves(web[t].of, "due") /\ web' = [web EXCEPT ![t] = Free]
      /\ mediaFaults < MaxMediaFaults /\ mediaFaults' = mediaFaults + 1
      /\ UNCHANGED <<kindOf, heard, restarts>>
    BY DEF FetchRefused, Unavailable, MediaFault
<1>3. web[t].of \in SendOf
    BY <1>1, <1>2, WorkingShape
<1>4. channel' \in MediaChannel /\ \A u \in Update : channel'[u].sends = channel[u].sends
    BY <1>1, <1>2, <1>3, ChannelLeavesSends DEF MediaTypeOK, MediaChannel
<1>5. /\ WebShape' /\ SendsAreOwned'
      /\ \A o \in WebThread : Working(o)' => o # t /\ web'[o] = web[o]
      /\ \A o \in WebThread : /\ web'[o].stage \in WebStages
                              /\ Working(o)' => /\ web'[o].of \in SendOf
                                                /\ web'[o].of.n <= channel'[web'[o].of.update].sends
    BY <1>2, <1>4, ThreadEnds
<1>6. \A f \in mediaFiles' : f \in mediaFiles /\ f.of # web[t].of
    BY <1>2 DEF LeftOnDisk
<1>7. MediaTypeOK'
  <2>1. ASSUME NEW o \in WebThread, web'[o].stage \in {"fetching", "fetched"}
        PROVE  [of |-> web'[o].of, whole |-> web'[o].stage = "fetched"] \in mediaFiles'
    <3>1. o # t /\ web'[o] = web[o]
        BY <1>5, <2>1 DEF Working
    <3>2. [of |-> web[o].of, whole |-> web[o].stage = "fetched"] \in mediaFiles
        BY <1>1, <2>1, <3>1 DEF MediaTypeOK
    <3>3. web[o].of # web[t].of
        BY <1>1, <1>2, <2>1, <3>1 DEF SendsAreOwned, Working
    <3> QED BY <1>2, <3>1, <3>2, <3>3 DEF LeftOnDisk
  <2>2. restarts' \in 0..mediaFaults' /\ mediaFaults' \in 0..MaxMediaFaults
      BY <1>1, <1>2 DEF MediaTypeOK
  <2>3. mediaFiles' \subseteq MediaFile
      BY <1>1, <1>6 DEF MediaTypeOK
  <2> QED BY <1>1, <1>2, <1>4, <1>5, <2>1, <2>2, <2>3 DEF MediaTypeOK, MediaChannel
<1>8. OnlyCrashesLeaveHalfFiles'
  <2> SUFFICES ASSUME restarts = 0, NEW f \in mediaFiles', ~f.whole
               PROVE  \E o \in WebThread : web'[o] = At("fetching", f.of)
      BY <1>2 DEF OnlyCrashesLeaveHalfFiles
  <2>1. f \in mediaFiles /\ f.of # web[t].of
      BY <1>6
  <2>2. PICK o \in WebThread : web[o] = At("fetching", f.of)
      BY <1>1, <2>1 DEF MediaIsTidy, OnlyCrashesLeaveHalfFiles
  <2>3. o # t
      BY <2>1, <2>2, AtFields
  <2> QED BY <1>1, <1>2, <2>2, <2>3 DEF WebShape
<1>9. SpokenToIsAnsweredAloud'
    BY <1>1, <1>2 DEF MediaIsTidy, SpokenToIsAnsweredAloud
<1> QED BY <1>5, <1>7, <1>8, <1>9 DEF MediaInv, MediaIsTidy

\* A thread past its download has no half file.
LEMMA LaterEndInv ==
    ASSUME MediaInv, NEW t \in WebThread, web[t].stage \in {"fetched", "worded"},
           NEW stage \in {"due", "done"}, ChannelLeaves(web[t].of, stage),
           web' = [web EXCEPT ![t] = Free], mediaFaults' \in {mediaFaults, mediaFaults + 1},
           mediaFaults' \in 0..MaxMediaFaults, heard' \subseteq HeardTask, SpokenToIsAnsweredAloud',
           UNCHANGED <<kindOf, mediaFiles, restarts>>
    PROVE  MediaInv'
<1> USE MediaAssumption
<1>1. MediaTypeOK /\ WebShape /\ SendsAreOwned /\ MediaIsTidy
    BY DEF MediaInv
<1>2. web[t].of \in SendOf
    BY <1>1, WorkingShape
<1>3. channel' \in MediaChannel /\ \A u \in Update : channel'[u].sends = channel[u].sends
    BY <1>1, <1>2, ChannelLeavesSends DEF MediaTypeOK, MediaChannel
<1>4. /\ WebShape' /\ SendsAreOwned'
      /\ \A o \in WebThread : Working(o)' => o # t /\ web'[o] = web[o]
      /\ \A o \in WebThread : /\ web'[o].stage \in WebStages
                              /\ Working(o)' => /\ web'[o].of \in SendOf
                                                /\ web'[o].of.n <= channel'[web'[o].of.update].sends
    BY <1>3, ThreadEnds
<1>5. MediaTypeOK'
  <2>1. ASSUME NEW o \in WebThread, web'[o].stage \in {"fetching", "fetched"}
        PROVE  [of |-> web'[o].of, whole |-> web'[o].stage = "fetched"] \in mediaFiles'
    <3>1. web'[o] = web[o]
        BY <1>4, <2>1 DEF Working
    <3>2. [of |-> web[o].of, whole |-> web[o].stage = "fetched"] \in mediaFiles
        BY <1>1, <2>1, <3>1 DEF MediaTypeOK
    <3> QED BY <3>1, <3>2
  <2>2. restarts' \in 0..mediaFaults'
      BY <1>1 DEF MediaTypeOK
  <2> QED BY <1>1, <1>3, <1>4, <2>1, <2>2 DEF MediaTypeOK, MediaChannel
<1>6. OnlyCrashesLeaveHalfFiles'
  <2> SUFFICES ASSUME restarts = 0, NEW f \in mediaFiles, ~f.whole
               PROVE  \E o \in WebThread : web'[o] = At("fetching", f.of)
      BY DEF OnlyCrashesLeaveHalfFiles
  <2>1. PICK o \in WebThread : web[o] = At("fetching", f.of)
      BY <1>1 DEF MediaIsTidy, OnlyCrashesLeaveHalfFiles
  <2>2. o # t
      BY <2>1, AtFields
  <2> QED BY <1>1, <2>1, <2>2 DEF WebShape
<1> QED BY <1>4, <1>5, <1>6 DEF MediaInv, MediaIsTidy

LEMMA SenseRefusedInv ==
    ASSUME MediaInv, NEW t \in WebThread, SenseRefused(t) PROVE MediaInv'
<1>1. mediaFaults \in 0..MaxMediaFaults /\ heard \subseteq HeardTask /\ SpokenToIsAnsweredAloud
    BY DEF MediaInv, MediaTypeOK, MediaIsTidy
<1>2. /\ web[t].stage = "fetched" /\ ChannelLeaves(web[t].of, "due")
      /\ web' = [web EXCEPT ![t] = Free] /\ UNCHANGED <<kindOf, mediaFiles, heard, restarts>>
    BY DEF SenseRefused, Unavailable
<1>3. MediaFault \/ mediaFaults' = mediaFaults
    BY Zenon DEF SenseRefused
<1>4. mediaFaults' \in {mediaFaults, mediaFaults + 1} /\ mediaFaults' \in 0..MaxMediaFaults
    BY <1>1, <1>3, MediaAssumption DEF MediaFault
<1>5. SpokenToIsAnsweredAloud' /\ heard' \subseteq HeardTask
    BY <1>1, <1>2 DEF SpokenToIsAnsweredAloud
<1> QED BY <1>2, <1>4, <1>5, LaterEndInv

LEMMA PublishRefusedInv ==
    ASSUME MediaInv, NEW t \in WebThread, PublishRefused(t) PROVE MediaInv'
<1>1. mediaFaults \in 0..MaxMediaFaults /\ heard \subseteq HeardTask /\ SpokenToIsAnsweredAloud
    BY DEF MediaInv, MediaTypeOK, MediaIsTidy
<1>2. /\ web[t].stage = "worded" /\ ChannelLeaves(web[t].of, "due") /\ MediaFault
      /\ web' = [web EXCEPT ![t] = Free] /\ UNCHANGED <<kindOf, mediaFiles, heard, restarts>>
    BY DEF PublishRefused, Unavailable
<1>3. mediaFaults' \in {mediaFaults, mediaFaults + 1} /\ mediaFaults' \in 0..MaxMediaFaults
    BY <1>1, <1>2, MediaAssumption DEF MediaFault
<1>4. SpokenToIsAnsweredAloud' /\ heard' \subseteq HeardTask
    BY <1>1, <1>2 DEF SpokenToIsAnsweredAloud
<1> QED BY <1>2, <1>3, <1>4, LaterEndInv

LEMMA PublishWordsInv ==
    ASSUME MediaInv, NEW t \in WebThread, PublishWords(t) PROVE MediaInv'
<1> DEFINE kind == kindOf[web[t].of.update]
           task == [of |-> web[t].of, words |-> WordsOf(kind), spoken |-> WantsVoiceReply(kind)]
<1>1. /\ mediaFaults \in 0..MaxMediaFaults /\ heard \subseteq HeardTask
      /\ SpokenToIsAnsweredAloud /\ WebShape /\ kindOf \in [Update -> MediaKinds]
    BY DEF MediaInv, MediaTypeOK, MediaIsTidy
<1>2. /\ web[t].stage = "worded" /\ ChannelLeaves(web[t].of, "done") /\ heard' = heard \cup {task}
      /\ web' = [web EXCEPT ![t] = Free] /\ UNCHANGED <<kindOf, mediaFiles, restarts, mediaFaults>>
    BY DEF PublishWords, Accepts
<1>3. web[t].of \in SendOf
    BY <1>1, <1>2, WorkingShape
<1>4. kind \in MediaKinds
    BY <1>1, <1>3 DEF SendOf
<1>5. task \in HeardTask
  <2>1. WordsOf(kind) \in Words
      BY DEF WordsOf, Words
  <2>2. WantsVoiceReply(kind) \in BOOLEAN
      BY DEF WantsVoiceReply, IsSpeech
  <2> QED BY <1>3, <2>1, <2>2 DEF HeardTask
<1>6. heard' \subseteq HeardTask
    BY <1>1, <1>2, <1>5
<1>7. SpokenToIsAnsweredAloud'
  <2> SUFFICES ASSUME NEW k \in heard' PROVE k.spoken <=> kindOf[k.of.update] \in {"voice", "audio"}
      BY <1>2 DEF SpokenToIsAnsweredAloud
  <2>1. CASE k \in heard
      BY <1>1, <2>1 DEF SpokenToIsAnsweredAloud
  <2>2. CASE k = task
    <3>1. k.spoken = WantsVoiceReply(kind) /\ k.of = web[t].of
        BY <2>2
    <3> QED BY <3>1 DEF WantsVoiceReply, IsSpeech
  <2> QED BY <1>2, <2>1, <2>2
<1> QED BY <1>1, <1>2, <1>6, <1>7, LaterEndInv

\* The channel gives up waiting; nothing else moves.
LEMMA ChannelTimesOutInv ==
    ASSUME MediaInv, NEW u \in Update, ChannelTimesOut(u) PROVE MediaInv'
<1>1. MediaTypeOK /\ WebShape /\ SendsAreOwned /\ MediaIsTidy
    BY DEF MediaInv
<1>2. /\ channel' = [channel EXCEPT ![u].stage = "due"] /\ MediaFault
      /\ UNCHANGED <<kindOf, web, mediaFiles, heard, restarts>>
    BY DEF ChannelTimesOut
<1>3. channel \in MediaChannel
    BY <1>1 DEF MediaTypeOK, MediaChannel
<1>4. channel' \in MediaChannel /\ \A v \in Update : channel'[v].sends = channel[v].sends
    BY <1>2, <1>3 DEF MediaChannel
<1>5. restarts' \in 0..mediaFaults' /\ mediaFaults' \in 0..MaxMediaFaults
    BY <1>1, <1>2, MediaAssumption DEF MediaTypeOK, MediaFault
<1>6. ASSUME NEW o \in WebThread, Working(o)'
      PROVE  web'[o].of \in SendOf /\ web'[o].of.n <= channel'[web'[o].of.update].sends
  <2>1. web[o].of \in SendOf /\ web[o].of.n <= channel[web[o].of.update].sends
      BY <1>1, <1>2, <1>6 DEF MediaTypeOK, Working
  <2>2. web[o].of.update \in Update
      BY <2>1 DEF SendOf
  <2> QED BY <1>2, <1>4, <2>1, <2>2
<1>7. MediaTypeOK'
    BY <1>1, <1>2, <1>4, <1>5, <1>6 DEF MediaTypeOK, MediaChannel
<1>8. WebShape' /\ SendsAreOwned'
    BY <1>1, <1>2 DEF WebShape, SendsAreOwned, Working
<1>9. MediaIsTidy'
    BY <1>1, <1>2 DEF MediaIsTidy, OnlyCrashesLeaveHalfFiles, SpokenToIsAnsweredAloud
<1> QED BY <1>7, <1>8, <1>9 DEF MediaInv

LEMMA DoorRestartsInv ==
    ASSUME MediaInv, DoorRestarts PROVE MediaInv'
<1>1. MediaTypeOK /\ WebShape /\ SendsAreOwned /\ MediaIsTidy
    BY DEF MediaInv
<1>2. /\ web' = [t \in WebThread |-> Free] /\ MediaFault /\ restarts' = restarts + 1
      /\ channel' = [u \in Update |-> IF channel[u].stage = "waiting"
                                      THEN [channel[u] EXCEPT !.stage = "due"] ELSE channel[u]]
      /\ UNCHANGED <<kindOf, mediaFiles, heard>>
    BY DEF DoorRestarts
<1>3. channel \in MediaChannel
    BY <1>1 DEF MediaTypeOK, MediaChannel
<1>4. channel' \in MediaChannel
    BY <1>2, <1>3 DEF MediaChannel
<1>5. restarts' \in 0..mediaFaults' /\ mediaFaults' \in 0..MaxMediaFaults /\ restarts' # 0
    BY <1>1, <1>2, MediaAssumption DEF MediaTypeOK, MediaFault
<1>6. \A o \in WebThread : web'[o].stage = "free"
    BY <1>2 DEF Free
<1>7. MediaTypeOK'
    BY <1>1, <1>2, <1>4, <1>5, <1>6 DEF MediaTypeOK, MediaChannel, WebStages, Working
<1>8. WebShape' /\ SendsAreOwned'
    BY <1>2, <1>6 DEF WebShape, SendsAreOwned, Working
<1>9. MediaIsTidy'
    BY <1>1, <1>2, <1>5 DEF MediaIsTidy, OnlyCrashesLeaveHalfFiles, SpokenToIsAnsweredAloud
<1> QED BY <1>7, <1>8, <1>9 DEF MediaInv

LEMMA MediaNextInv == MediaInv /\ [MediaNext]_mediaVars => MediaInv'
<1> SUFFICES ASSUME MediaInv, [MediaNext]_mediaVars PROVE MediaInv'
    OBVIOUS
<1>1. ASSUME NEW t \in WebThread, NEW u \in Update, Send(u, t) PROVE MediaInv'
    BY <1>1, SendInv
<1>2. ASSUME NEW t \in WebThread, Handles(t) PROVE MediaInv'
    BY <1>2, FetchInv, SenseFileInv, SenseRefusedInv, PublishWordsInv DEF Handles
<1>3. ASSUME NEW t \in WebThread, FetchRefused(t) \/ PublishRefused(t) PROVE MediaInv'
    BY <1>3, FetchRefusedInv, PublishRefusedInv
<1>4. ASSUME NEW u \in Update, ChannelTimesOut(u) PROVE MediaInv'
    BY <1>4, ChannelTimesOutInv
<1>5. CASE DoorRestarts
    BY <1>5, DoorRestartsInv
<1>6. CASE UNCHANGED mediaVars
    BY <1>6 DEF mediaVars, MediaInv, MediaTypeOK, WebShape, SendsAreOwned, Working, MediaIsTidy,
                OnlyCrashesLeaveHalfFiles, SpokenToIsAnsweredAloud
<1> QED BY <1>1, <1>2, <1>3, <1>4, <1>5, <1>6 DEF MediaNext

\* It takes no fairness.
LEMMA MediaIsKept ==
    MediaInit /\ [][MediaNext]_mediaVars => [](MediaTypeOK /\ MediaIsTidy)
<1>1. MediaInv => MediaTypeOK /\ MediaIsTidy
    BY DEF MediaInv
<1> QED BY <1>1, MediaInitInv, MediaNextInv, PTL

\* Whatever fails, times out or dies, and however often an update is sent again:
\* half a file is a running download's or a dead process's, and what was asked
\* aloud is answered aloud.
THEOREM MediaHolds == MediaSpec => [](MediaTypeOK /\ MediaIsTidy)
<1> QED BY MediaIsKept, PTL DEF MediaSpec

-----------------------------------------------------------------------------
(* The estate.  Its parts share no state, so a step of it is a step of one *)
(* part and leaves every other part where it is: a behaviour of the estate *)
(* is a behaviour of each part, and what was proved of the parts holds.    *)

LEMMA EstateStep ==
    [EstateNext]_estateVars =>
        /\ [part' = part]_part
        /\ [RouterNext]_routerVars /\ [BoardNext]_boardVars /\ [HistoryNext]_historyVars
        /\ [OnbNext]_onbVars /\ [ThreadNext]_threadVars /\ [TalkNext]_talkVars
        /\ [MigrateNext]_migrateVars /\ [FillNext]_fillVars /\ [EvalNext]_evalVars
        /\ [ObsNext]_obsVars /\ [MediaNext]_mediaVars
BY DEF EstateNext, estateVars, Moves

\* The estate implements each of its parts: their specifications, all but the
\* fairness of the one part that states some.
THEOREM EveryPartRuns ==
    EstateSpec =>
        /\ RouterSpec /\ BoardSpec /\ HistorySpec /\ OnbSpec /\ ThreadSpec /\ TalkSpec
        /\ MigrateSpec /\ FillSpec /\ EvalSpec /\ ObsSpec
        /\ MediaInit /\ [][MediaNext]_mediaVars
<1>1. EstateInit =>
        /\ RouterInit /\ BoardInit /\ HistoryInit /\ OnbInit /\ ThreadInit /\ TalkInit
        /\ MigrateInit /\ FillInit /\ EvalInit /\ ObsInit /\ MediaInit
    BY DEF EstateInit
<1> QED BY <1>1, EstateStep, PTL
        DEF EstateSpec, RouterSpec, BoardSpec, HistorySpec, OnbSpec, ThreadSpec, TalkSpec,
            MigrateSpec, FillSpec, EvalSpec, ObsSpec

\* Every table, local and counter of every part keeps its shape.
THEOREM EstateTyped == EstateSpec => []EstateTypeOK
<1>1. EstateInit => part \in Parts
    BY DEF EstateInit
<1>2. part \in Parts /\ [EstateNext]_estateVars => (part \in Parts)'
    BY EstateStep
<1>3. EstateSpec => [](part \in Parts)
    BY <1>1, <1>2, PTL DEF EstateSpec
<1> QED BY <1>3, EveryPartRuns, RouterTyped, BoardTyped, HistoryHolds, OnboardingHolds,
           ThreadIsServedAlways, PastIsServedAlways, MigrationsTyped, FillHolds, EvalHolds,
           TelemetryHolds, MediaIsKept, PTL DEF EstateTypeOK

\* From either of its two records, a conversation is served as it was promised.
THEOREM ConversationsServed == EstateSpec => []ConversationsAreServed
<1> QED BY EveryPartRuns, ThreadIsServedAlways, PastIsServedAlways, PTL
        DEF ConversationsAreServed

\* What every part promises holds of the estate they make up.
THEOREM PromisesAreKept ==
    EstateSpec =>
        /\ [](/\ KeepsItsAccount /\ StaysWithinAuthority /\ WorkIsPaidFor /\ HistoryIsTold
              /\ OnboardedWhole /\ SchemaIsSound /\ BridgeIsComplete /\ PassIsEarned
              /\ SpansAreAccountedFor /\ MediaIsTidy)
        /\ EvidenceStands
<1> QED BY EveryPartRuns, AccountIsKept, AuthorityIsKept, NothingMadeForNothing, HistoryHolds,
           OnboardingHolds, SchemaStaysSound, FillHolds, EvalHolds, TelemetryHolds, MediaIsKept,
           EvidenceHolds, PTL
=============================================================================
