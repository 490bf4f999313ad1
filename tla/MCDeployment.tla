---------------------------- MODULE MCDeployment ----------------------------
(***************************************************************************)
(* Two requests opened one after the other in one form, with one module     *)
(* that needs a hook authority and counts countries, others after an edit;   *)
(* faults and decisions are bounded together.                                *)
(***************************************************************************)
EXTENDS Deployment, TLC

CONSTANTS
    q1, q2, edited, f1, none, x1, c1, c2,
    MaxDisturbances    \* bound on faults and decisions together

MCModuleSeq == <<x1>>
MCCapsOf == [v \in Values |-> IF v = edited THEN {c2} ELSE {c1}]
MCNext == Next /\ faults' + decisions' <= MaxDisturbances
MCSpec == Init /\ [][MCNext]_vars

Sym == Permutations({q1, q2})
=============================================================================
