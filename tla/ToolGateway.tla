---------------------------- MODULE ToolGateway ----------------------------
(***************************************************************************)
(* The tool gateway: which tools a process boots with, and what becomes of *)
(* one call.  It keeps no state of its own between calls but the registry, *)
(* so everything here is an operator; ModelRouter makes steps of them.     *)
(*                                                                         *)
(* A tool is its name.  Tiers are 0..3; the arguments of a call are        *)
(* whether the tool's schema accepts them.                                 *)
(***************************************************************************)
EXTENDS Integers, FiniteSets

CONSTANTS
    Tool,          \* names: note, the agent's tools, terminal_irreversible
    Note,          \* the lane's own probe, NOTE_TOOL_NAME
    Terminal,      \* the shell, whose handler refuses what cannot be undone
    LastResort,    \* terminal_irreversible, the only tier 3 tool
    TierOf,        \* TierOf[tool]: its tier
    Irreversible,  \* tools that need a human below tier 3 too
    MaxTools,      \* GatewayConfig.max_tools
    TaintCeiling   \* GatewayConfig.taint_ceiling

Tiers == 0..3

ASSUME GatewayAssumption ==
    /\ {Note, Terminal, LastResort} \subseteq Tool
    /\ Cardinality({Note, Terminal, LastResort}) = 3
    /\ TierOf \in [Tool -> Tiers]
    /\ TierOf[Note] = 2 /\ TierOf[LastResort] = 3
    /\ Irreversible \subseteq Tool
    /\ MaxTools \in Nat \ {0}
    /\ TaintCeiling \in Tiers

-----------------------------------------------------------------------------
(* Booting: build_registry and register_fork_tools.                        *)

\* Everything a deployment's toolsets ask the registry to hold; a name that
\* is there already is skipped, and the irreversible terminal always comes.
Wanted(toolset) ==
    IF toolset = {} THEN {Note} ELSE {Note, LastResort} \cup toolset

\* The names that are new: "real" hands, without the synthetic one.
Hands(toolset) == toolset \ {Note}

\* Registering past the cap raises, and so does a toolset without one hand:
\* the process does not boot rather than boot with fewer tools.
Boots(toolset) ==
    /\ Cardinality(Wanted(toolset)) <= MaxTools
    /\ toolset # {} => Hands(toolset) # {}

-----------------------------------------------------------------------------
(* One call: ToolGateway.call.                                             *)

\* Untrusted content caps the ceiling whatever the envelope claims.
Effective_ClaimStands(ceiling, untrusted) == ceiling

Effective(ceiling, untrusted) ==
    IF untrusted /\ ceiling > TaintCeiling THEN TaintCeiling ELSE ceiling

NeedsHuman(tool) == TierOf[tool] = 3 \/ tool \in Irreversible

\* The reasons for refusing, in the order they are asked.  hook: no human gate
\* is wired, it withholds its token, or it approves.
Refusal(registry, tool, valid, ceiling, untrusted, hook) ==
    IF tool \notin registry THEN "UNKNOWN_TOOL"
    ELSE IF ~valid THEN "SCHEMA_INVALID"
    ELSE IF TierOf[tool] > Effective(ceiling, untrusted)
      THEN IF untrusted /\ TierOf[tool] <= ceiling THEN "TAINT_CAP" ELSE "TIER_INSUFFICIENT"
    ELSE IF NeedsHuman(tool) /\ hook = "unwired" THEN "HUMAN_APPROVAL_REQUIRED"
    ELSE IF NeedsHuman(tool) /\ hook = "withheld" THEN "HUMAN_APPROVAL_REFUSED"
    ELSE "none"

\* What the model is shown of the registry under a ceiling.
Offered(registry, ceiling) ==
    {tool \in registry \ {Note} : TierOf[tool] <= ceiling}
=============================================================================
