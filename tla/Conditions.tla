----------------------------- MODULE Conditions -----------------------------
(***************************************************************************)
(* The status conditions of a SimulationToolkit object.                    *)
(*                                                                         *)
(* A toolkit has at most one condition per status, so the list in the      *)
(* object and the map the reconciler builds from it are one function from  *)
(* statuses to conditions: UpdateStatus always writes the list in the      *)
(* order of Position, and the reconciler indexes it by status.             *)
(*                                                                         *)
(* LastTransitionTime and LastUpdateTime are set together everywhere and   *)
(* are one stamp.  A stamp taken from time.Now() lies inside a second      *)
(* (frac = 1); metav1.Time is encoded as RFC 3339, so what the API server  *)
(* stores and gives back is the second alone (frac = 0).                   *)
(***************************************************************************)
EXTENDS Integers

CONSTANTS
    Versions,     \* version IDs: operator, helm chart and toolkit version
    NoCondition   \* there is no condition with this status

STATUS_UNKNOWN    == ""
STATUS_PAUSED     == "Paused"
STATUS_FAILED     == "Failed"
STATUS_SUCCESSFUL == "Successful"
STATUS_UPDATING   == "Updating"

Statuses == {STATUS_PAUSED, STATUS_FAILED, STATUS_SUCCESSFUL, STATUS_UPDATING}

\* The order UpdateStatus writes the conditions in, and so the order in which
\* the next Reconcile reads them.
Position == [s \in Statuses |->
               CASE s = STATUS_PAUSED     -> 1
                 [] s = STATUS_FAILED     -> 2
                 [] s = STATUS_SUCCESSFUL -> 3
                 [] s = STATUS_UPDATING   -> 4]

Condition == [sec: Nat, frac: {0, 1}, version: Versions]

ASSUME NoConditionAssumption == NoCondition \notin Condition

ConditionMaps == [Statuses -> Condition \cup {NoCondition}]

NoConditions == [s \in Statuses |-> NoCondition]

Present(conds) == {s \in Statuses : conds[s] # NoCondition}

-----------------------------------------------------------------------------

\* c carries a later stamp than d.
Later(c, d) ==
    \/ c.sec > d.sec
    \/ c.sec = d.sec /\ c.frac > d.frac

\* The loops over the conditions keep the first one they see unless a later
\* one has a strictly later stamp: the status with the latest stamp, the
\* first in the list among equals.
LastStatus(conds) ==
    IF Present(conds) = {} THEN STATUS_UNKNOWN
    ELSE CHOOSE s \in Present(conds) :
           \A t \in Present(conds) :
             \/ Later(conds[s], conds[t])
             \/ ~Later(conds[t], conds[s]) /\ Position[s] <= Position[t]

\* allConditions[status] = condition
Put(conds, status, condition) == [conds EXCEPT ![status] = condition]

\* A condition stamped with time.Now() in second now.
Stamp(now, version) == [sec |-> now, frac |-> 1, version |-> version]

\* What is left of the conditions once the API server has stored them.
Stored(conds) ==
    [s \in Statuses |-> IF s \in Present(conds)
                        THEN [conds[s] EXCEPT !.frac = 0]
                        ELSE NoCondition]

=============================================================================
