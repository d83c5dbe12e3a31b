-------------------------- MODULE MCCompletionGate --------------------------
(* Packages for CompletionGate: one claim that is so, one that is not, one only *)
(* another model can judge, their mixture, and none at all.                     *)
EXTENDS CompletionGate, TLC

CONSTANTS so, notSo, judged

AllPackages == {{so}, {so, notSo}, {so, judged}, {}}
TwoPackages == {{so}, {so, notSo}}
=============================================================================
