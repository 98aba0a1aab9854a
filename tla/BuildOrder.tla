----------------------------- MODULE BuildOrder -----------------------------
(***************************************************************************)
(* What a run of BBCooker promises about the order of builds, without the  *)
(* recursion that finds it: a recipe is built, or fails, only when each of *)
(* its dependencies has a provider that was built before it, and what was  *)
(* built or failed stays so.  Cooker is shown to implement it.             *)
(***************************************************************************)
CONSTANT Recipe                 \* the .bb files

VARIABLES
    needs,                      \* needs[r]: for each dependency of r, its providers
    built,                      \* recipes built, or found up to date
    failed                      \* recipes whose build failed

vars == <<needs, built, failed>>

Ready(r) == \A P \in needs[r] : P \cap built # {}

Init ==
    /\ needs \in [Recipe -> SUBSET SUBSET Recipe]
    /\ built = {}
    /\ failed = {}

Build(r) ==
    /\ Ready(r)
    /\ built' = built \cup {r}
    /\ UNCHANGED <<needs, failed>>

Fail(r) ==
    /\ Ready(r)
    /\ r \notin built
    /\ failed' = failed \cup {r}
    /\ UNCHANGED <<needs, built>>

Next == \E r \in Recipe : Build(r) \/ Fail(r)

Spec == Init /\ [][Next]_vars
=============================================================================
