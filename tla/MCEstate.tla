------------------------------ MODULE MCEstate ------------------------------
(* Values for the constants of the parts of Estate.                        *)
EXTENDS Estate

CONSTANTS note, read, shell, rm, k1, k2

-----------------------------------------------------------------------------
(* ModelRouter.                                                            *)

AllTools == {note, read, shell, rm}
Tiering  == (note :> 2) @@ (read :> 1) @@ (shell :> 2) @@ (rm :> 3)

AskOf(tier, tainted, class) ==
    [tier |-> tier, tainted |-> tainted, source |-> "chat", class |-> class,
     complexity |-> "normal"]

Asks == {AskOf(2, TRUE, "research"), AskOf(3, FALSE, "deep")}

Families(judgment) ==
    [l \in Lane |-> CASE l = "judgment" -> judgment [] l = "bulk" -> "minimax"
                      [] l = "verify" -> "google" [] l = "deep" -> "moonshot"]

Deployed(width, tools, judgment) ==
    [width |-> width, toolset |-> tools, family |-> Families(judgment)]

Deployments ==
    {Deployed(1, {read, shell}, "anthropic"),        \* the ingress worker
     Deployed(1, {shell}, "anthropic"),
     Deployed(2, {}, "anthropic"),                   \* the webhook server
     Deployed(1, {note}, "anthropic"),               \* a toolset without a hand
     Deployed(1, {read}, "google"),                  \* judged by its own family
     Deployed(1, {read}, "unmapped")}

Each(n) == [l \in Lane |-> n]
Budgets == Each(2)
Caps    == Each(1)

Row(i, c)  == [i |-> i, clear |-> c]
JudgeSays  == {<<Row(1, TRUE), Row(2, FALSE)>>, <<Row(2, TRUE), Row(1, FALSE)>>, <<Row(1, TRUE)>>}

-----------------------------------------------------------------------------
(* TaskHistory and Onboarding.                                             *)

TaskScript == <<"tasks", "audit", "verdicts", "tasks">>

ToolNamed(name, tier) == [name |-> name, tier |-> tier]

ManifestOf(tier, tools, budgets) ==
    [named |-> TRUE, tier |-> tier, english |-> TRUE, owned |-> TRUE,
     tools |-> tools, budgets |-> budgets]

Manifests ==
    {ManifestOf(1, <<ToolNamed("a", Unsaid), ToolNamed("b", 2)>>, "sound"),
     ManifestOf(Unsaid, << >>, "sound"),
     ManifestOf(2, <<ToolNamed("c", 0)>>, "unknown_lane"),
     ManifestOf(2, << >>, "sound")}

-----------------------------------------------------------------------------
(* EvalGate.                                                               *)

Expects(expect, tagged) == [expect |-> expect, tagged |-> tagged]

Leaky == Expects(<<"no_error", "no_leakage">>, TRUE)
Plainly == Expects(<<"no_error">>, FALSE)

SuiteOf(cases) == [sound |-> TRUE, cases |-> cases]

Suites ==
    {SuiteOf((k1 :> Leaky) @@ (k2 :> Plainly)),
     SuiteOf(k1 :> Leaky),                                     \* a case less
     SuiteOf(k1 :> Expects(<<"no_error">>, TRUE)),             \* a dimension less
     SuiteOf(k2 :> Expects(<<"unknown">>, FALSE)),
     [sound |-> FALSE, cases |-> (k1 :> Leaky)]}
=============================================================================
