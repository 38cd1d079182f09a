------------------------------ MODULE HelmRun ------------------------------
(***************************************************************************)
(* What the reconciler relies on when it calls HelmDeploySimulationToolkit *)
(* and what Reconciler takes a Helm run to be: between its begin and its   *)
(* end the installation may break up or become the one that was asked for; *)
(* a run that succeeds leaves the one that was asked for; and outside of   *)
(* runs only an administrator takes things away.                           *)
(***************************************************************************)
CONSTANTS
    Complete,   \* complete installations
    Nothing,    \* nothing is installed
    Partial     \* anything else

VARIABLES
    state,      \* "running", or how the last run ended
    target,     \* the installation it was asked for
    installed   \* what is there

vars == <<state, target, installed>>

Init == state = "stopped" /\ target \in Complete /\ installed = Nothing

Begin ==
    /\ state # "running" /\ state' = "running"
    /\ target' \in Complete
    /\ UNCHANGED installed

Change ==
    /\ state = "running" /\ installed' \in {Partial, target}
    /\ UNCHANGED <<state, target>>

Succeed ==
    /\ state = "running" /\ state' = "ok"
    /\ installed' = target
    /\ UNCHANGED target

\* A run fails, or dies with the operator.
Stop ==
    /\ state = "running" /\ state' = "stopped"
    /\ installed' \in {installed, Partial, target}
    /\ target' \in Complete

\* Somebody else works on the releases, or another operator takes over.
Intervene ==
    /\ state' = IF state = "running" THEN "running" ELSE "stopped"
    /\ installed' \in {installed, Partial, Nothing}
    /\ IF state' = "running" THEN UNCHANGED target ELSE target' \in Complete

Next == Begin \/ Change \/ Succeed \/ Stop \/ Intervene

Spec == Init /\ [][Next]_vars

=============================================================================
