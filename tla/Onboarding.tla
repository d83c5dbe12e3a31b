----------------------------- MODULE Onboarding -----------------------------
(***************************************************************************)
(* otto onboard: one service is admitted in six steps that leave a signed  *)
(* inventory and a catalog entity on disk, or is refused.                  *)
(*                                                                         *)
(*   manifest -> tools -> budgets -> key -> prior inventory -> span        *)
(*      -> inv.pending -> cat.pending -> coverage -> inv -> cat            *)
(*                                          `-> unlink, unlink: refused    *)
(*                                                                         *)
(* Several runs for the same service share the two files, their two staged *)
(* names and the signing key; some share a tool registry too (embedded),   *)
(* the command line makes a new one for each run.                          *)
(*                                                                         *)
(* X_Something is a mutant of X: X with a plausible mistake in it.         *)
(***************************************************************************)
EXTENDS Naturals, Sequences, FiniteSets

CONSTANTS
    Run,           \* runs of onboard_service
    Embedded,      \* the runs that are handed a registry they share
    NoRun,
    Manifest,      \* what a manifest file can say: see ManifestKind
    RegistryMax,   \* GatewayConfig.max_tools
    MaxOnbFaults   \* bound: deaths of a run, edits of the inventory by hand

Unsaid == 9

\* english: title and description read as words; budgets: what the mapping is;
\* a tool that names no tier has tier Unsaid.
ManifestKind ==
    [named : BOOLEAN, tier : 0..3 \cup {Unsaid}, english : BOOLEAN, owned : BOOLEAN,
     tools : Seq([name : STRING, tier : 0..3 \cup {Unsaid}]),
     budgets : {"absent", "negative", "unknown_lane", "sound"}]

ASSUME OnboardingAssumption ==
    /\ IsFiniteSet(Run) /\ Embedded \subseteq Run
    /\ NoRun \notin Run
    /\ Manifest \subseteq ManifestKind
    /\ RegistryMax \in Nat /\ MaxOnbFaults \in Nat

VARIABLES
    manifest,   \* manifest[r]: what run r was started with
    onb,        \* onb[r]: its locals
    registry,   \* names in the registry the embedded runs share
    disk,       \* disk[f]: what lies under that name
    keyFile,    \* the signing key on disk, 0 when there is none
    minted,     \* keys generated so far
    seen,       \* runs whose span the trace backend has in its window
    overlapped, \* two runs were under way at once (an observation)
    late,       \* runs past their look at an inventory edited since (an observation)
    onbFaults

onbVars == <<manifest, onb, registry, disk, keyFile, minted, seen, overlapped, late,
             onbFaults>>

File == {"inv", "cat", "inv.pending", "cat.pending"}

\* sound: nobody edited it since it was signed.
Content == [by : Run \cup {NoRun}, key : Nat, sound : BOOLEAN]
Absent  == [by |-> NoRun, key |-> 0, sound |-> TRUE]

OnbStages == {"idle", "registered", "keyless", "keyed", "signed", "stamped", "staged",
              "stagedBoth", "green", "promoted", "red", "redder",
              "admitted", "refused", "died"}
OnbOver == {"idle", "admitted", "refused", "died"}

OnbTypeOK ==
    /\ manifest \in [Run -> Manifest]
    /\ onb \in [Run -> [stage : OnbStages, key : Nat]]
    /\ Cardinality(registry) <= RegistryMax
    /\ disk \in [File -> Content]
    /\ keyFile \in 0..minted /\ minted \in 0..Cardinality(Run)
    /\ seen \subseteq Run /\ late \subseteq Run
    /\ overlapped \in BOOLEAN
    /\ onbFaults \in 0..MaxOnbFaults

OnbInit ==
    /\ manifest \in [Run -> Manifest]
    /\ onb = [r \in Run |-> [stage |-> "idle", key |-> 0]]
    /\ registry = {}
    /\ disk = [f \in File |-> Absent]
    /\ keyFile = 0 /\ minted = 0
    /\ seen = {} /\ late = {}
    /\ overlapped = FALSE
    /\ onbFaults = 0

OnbFault == onbFaults < MaxOnbFaults /\ onbFaults' = onbFaults + 1

Stage(r, s)  == onb[r].stage = s
Goes(r, s)   == onb' = [onb EXCEPT ![r].stage = s]
UnderWay     == {r \in Run : onb[r].stage \notin OnbOver}

-----------------------------------------------------------------------------
(* The manifest and the registry.                                          *)

\* parse_manifest: no tier, no onboarding, and never a default.
Sound(m) == m.named /\ m.tier # Unsaid /\ m.english /\ m.owned
            /\ m.budgets \notin {"absent", "negative"}

Names(m, n) == {m.tools[k].name : k \in 1..n}

RegistryOf(r) == IF r \in Embedded THEN registry ELSE {}

\* ToolRegistry.register: the n-th tool of m is new, and there is room for it.
Fits(m, n, reg) ==
    /\ m.tools[n].name \notin reg \cup Names(m, n - 1)
    /\ Cardinality(reg \cup Names(m, n - 1)) < RegistryMax

\* How many tools of m are registered before one is refused.
Taken(m, reg) ==
    CHOOSE n \in 0..Len(m.tools) :
        /\ \A k \in 1..n : Fits(m, k, reg)
        /\ n = Len(m.tools) \/ ~Fits(m, n + 1, reg)

\* load_manifest, _register_tools and _allocate_budgets.  The tools taken
\* before a refusal stay in the registry.
Onboard(r) ==
    LET m == manifest[r]
        n == IF Sound(m) THEN Taken(m, RegistryOf(r)) ELSE 0
        passes == Sound(m) /\ n = Len(m.tools) /\ m.budgets # "unknown_lane"
    IN /\ Stage(r, "idle")
       /\ registry' = IF r \in Embedded THEN registry \cup Names(m, n) ELSE registry
       /\ Goes(r, IF passes THEN "registered" ELSE "refused")
       /\ overlapped' = (overlapped \/ (passes /\ UnderWay # {}))
       /\ UNCHANGED <<manifest, disk, keyFile, minted, seen, late, onbFaults>>

-----------------------------------------------------------------------------
(* The key and the inventory that is there already.                        *)

LooksForKey(r) ==
    onb' = [onb EXCEPT ![r].stage = IF keyFile = 0 THEN "keyless" ELSE "keyed",
                       ![r].key = keyFile]

\* load_or_create_keypair: is there a key?
LoadKey(r) ==
    /\ Stage(r, "registered")
    /\ LooksForKey(r)
    /\ UNCHANGED <<manifest, registry, disk, keyFile, minted, seen, overlapped, late,
                   onbFaults>>

\* There was none when it looked: generate one and write it over what is there.
CreateKey(r) ==
    /\ Stage(r, "keyless")
    /\ minted' = minted + 1
    /\ keyFile' = minted + 1
    /\ onb' = [onb EXCEPT ![r].stage = "keyed", ![r].key = minted + 1]
    /\ UNCHANGED <<manifest, registry, disk, seen, overlapped, late, onbFaults>>

Verifies_Unchecked(c, key) == TRUE

\* verify_signed_inventory, or no inventory at all.
Verifies(c, key) == c.by = NoRun \/ (c.sound /\ c.key = key)

\* _verify_prior_inventory, then the inventory of this run signed in memory.
VerifyPrior(r) ==
    /\ Stage(r, "keyed")
    /\ Goes(r, IF Verifies(disk["inv"], onb[r].key) THEN "signed" ELSE "refused")
    /\ late' = late \ {r}
    /\ UNCHANGED <<manifest, registry, disk, keyFile, minted, seen, overlapped, onbFaults>>

\* instrument refuses, or the onboarding span is made; it reaches the backend
\* or it does not.
Stamp(r, up, exported) ==
    /\ Stage(r, "signed")
    /\ exported => up
    /\ Goes(r, IF up THEN "stamped" ELSE "refused")
    /\ seen' = IF exported THEN seen \cup {r} ELSE seen
    /\ UNCHANGED <<manifest, registry, disk, keyFile, minted, overlapped, late, onbFaults>>

-----------------------------------------------------------------------------
(* The artifacts.                                                          *)

Write(f, c) == disk' = [disk EXCEPT ![f] = c]

Mine(r) == [by |-> r, key |-> onb[r].key, sound |-> TRUE]

StageInv(r) ==
    /\ Stage(r, "stamped")
    /\ Write("inv.pending", Mine(r))
    /\ Goes(r, "staged")
    /\ UNCHANGED <<manifest, registry, keyFile, minted, seen, overlapped, late, onbFaults>>

StageCat(r) ==
    /\ Stage(r, "staged")
    /\ Write("cat.pending", Mine(r))
    /\ Goes(r, "stagedBoth")
    /\ UNCHANGED <<manifest, registry, keyFile, minted, seen, overlapped, late, onbFaults>>

\* check_coverage: the backend is bound and holds a span of this service, of
\* this run or of an earlier one.
Green(bound) == bound /\ seen # {}

CheckCoverage(r, bound) ==
    /\ Stage(r, "stagedBoth")
    /\ Goes(r, IF Green(bound) THEN "green" ELSE "red")
    /\ UNCHANGED <<manifest, registry, disk, keyFile, minted, seen, overlapped, late,
                   onbFaults>>

Unlinked_InvOnly(s) == IF s = "red" THEN "refused" ELSE s
Unlinked(s) == IF s = "red" THEN "redder" ELSE "refused"

\* A red report: the staged files go, the one and then the other.
Unlink(r) ==
    /\ onb[r].stage \in {"red", "redder"}
    /\ Write(IF Stage(r, "red") THEN "inv.pending" ELSE "cat.pending", Absent)
    /\ Goes(r, Unlinked(onb[r].stage))
    /\ UNCHANGED <<manifest, registry, keyFile, minted, seen, overlapped, late, onbFaults>>

\* os.replace: moves what the staged name holds now; nothing there is an error.
Promote(r, staged, final, next) ==
    /\ IF disk[staged] = Absent
       THEN Goes(r, "died") /\ UNCHANGED disk
       ELSE Goes(r, next) /\ disk' = [disk EXCEPT ![final] = disk[staged], ![staged] = Absent]
    /\ UNCHANGED <<manifest, registry, keyFile, minted, seen, overlapped, late, onbFaults>>

PromoteInv(r) == Stage(r, "green") /\ Promote(r, "inv.pending", "inv", "promoted")
PromoteCat(r) == Stage(r, "promoted") /\ Promote(r, "cat.pending", "cat", "admitted")

-----------------------------------------------------------------------------
(* What comes from outside.                                                *)

\* The process dies, or a write or the backend raises.
Dies(r) ==
    /\ r \in UnderWay
    /\ Goes(r, "died")
    /\ OnbFault
    /\ UNCHANGED <<manifest, registry, disk, keyFile, minted, seen, overlapped, late>>

\* Somebody edits the signed inventory.
EditInventory ==
    /\ disk["inv"].by # NoRun /\ disk["inv"].sound
    /\ Write("inv", [disk["inv"] EXCEPT !.sound = FALSE])
    /\ late' = {r \in UnderWay : onb[r].stage \notin {"registered", "keyless", "keyed"}}
    /\ OnbFault
    /\ UNCHANGED <<manifest, onb, registry, keyFile, minted, seen, overlapped>>

\* coverage_window_seconds pass.
SpansAge ==
    /\ seen # {}
    /\ seen' = {}
    /\ UNCHANGED <<manifest, onb, registry, disk, keyFile, minted, overlapped, late, onbFaults>>

OnbNext ==
    \/ \E r \in Run :
        \/ Onboard(r) \/ LoadKey(r) \/ CreateKey(r) \/ VerifyPrior(r)
        \/ \E up, exported \in BOOLEAN : Stamp(r, up, exported)
        \/ StageInv(r) \/ StageCat(r)
        \/ \E bound \in BOOLEAN : CheckCoverage(r, bound)
        \/ Unlink(r) \/ PromoteInv(r) \/ PromoteCat(r)
        \/ Dies(r)
    \/ EditInventory \/ SpansAge

OnbSpec == OnbInit /\ [][OnbNext]_onbVars

-----------------------------------------------------------------------------
(* What must hold.                                                         *)

\* All or nothing (core.py: "Fail closed, nothing half-onboarded"): when no two
\* runs overlapped and nothing failed from outside, the runs that are over have
\* left no staged file, the inventory and the catalog entity are of one run,
\* and that run was admitted.
QuietRunIsWhole ==
    (~overlapped /\ onbFaults = 0 /\ UnderWay = {}) =>
        /\ disk["inv.pending"] = Absent /\ disk["cat.pending"] = Absent
        /\ disk["inv"].by = disk["cat"].by
        /\ disk["inv"].by # NoRun => Stage(disk["inv"].by, "admitted")

\* An inventory that was edited after it was signed stays as evidence: the only
\* run that may replace it is one that had looked at it before the edit.
EvidenceIsKept ==
    [][ (~disk["inv"].sound /\ disk'["inv"] # disk["inv"]) =>
            \E r \in late : Stage(r, "green") ]_onbVars

\* A published inventory verifies against the key on disk, whatever runs came
\* and died since, unless two runs overlapped: two first runs may each find no
\* key and each write one, and every later run takes the inventory for tampered.
KeyIsStable ==
    (~overlapped /\ disk["inv"].by # NoRun) => disk["inv"].key = keyFile

\* Two services admitted to one registry share no tool name, and so neither
\* can be called under the other's tier; the failed run before them counts.
OneOwnerPerTool ==
    \A r, s \in Embedded :
        (r # s /\ {onb[r].stage, onb[s].stage} \subseteq {"admitted", "green", "promoted"}) =>
            Names(manifest[r], Len(manifest[r].tools))
                \cap Names(manifest[s], Len(manifest[s].tools)) = {}

\* What is not visible is not admitted: at the moment a run turns green the
\* backend holds a span of the service, and a span it holds was sent by a run
\* that got as far as its key, whatever happened to that run afterwards.
AdmittedWasVisible ==
    [][ \A r \in Run : (onb'[r].stage = "green" /\ ~Stage(r, "green")) =>
            \E s \in seen : onb[s].key # 0 /\ Sound(manifest[s]) ]_onbVars

\* What an onboarding leaves behind is whole, verifies, and belongs to one
\* service; and how it comes about, below: nothing is overwritten unread and
\* nothing is admitted unseen.
OnboardedWhole == QuietRunIsWhole /\ KeyIsStable /\ OneOwnerPerTool

EvidenceStands == EvidenceIsKept /\ AdmittedWasVisible
=============================================================================
