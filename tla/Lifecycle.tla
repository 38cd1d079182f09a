----------------------------- MODULE Lifecycle -----------------------------
(***************************************************************************)
(* What the operator promises about one SimulationToolkit object, told     *)
(* without calls, caches, patches and time: the state machine in the       *)
(* comment of Reconcile, and next to it what is installed.                 *)
(*                                                                         *)
(* The promise is about the two together.  What is installed only changes  *)
(* while the object says Updating, or after it was deleted under a Helm    *)
(* run; it says Successful only over a complete installation; and it does  *)
(* not say Updating forever.                                               *)
(***************************************************************************)
CONSTANTS
    Complete,   \* complete installations
    Nothing,    \* nothing is installed
    Partial     \* an installation is half-way

VARIABLES
    status,     \* the last condition of the object, or Absent
    installed   \* what Helm has left behind

vars == <<status, installed>>

Gone == "Absent"
Unknown == ""

Init == status = Gone /\ installed = Nothing

Appear == status = Gone /\ status' = Unknown /\ UNCHANGED installed

\* Unknown => Updating, Successful => Updating, Failed => Updating
Announce ==
    /\ status \in {Unknown, "Successful", "Failed"}
    /\ status' = "Updating"
    /\ UNCHANGED installed

Install ==
    /\ status \in {"Updating", Gone}
    /\ installed' \in Complete \cup {Partial}
    /\ UNCHANGED status

\* Updating => if update successful Successful, else Failed
Succeed ==
    /\ status = "Updating" /\ installed \in Complete
    /\ status' = "Successful"
    /\ UNCHANGED installed

Fail == status = "Updating" /\ status' = "Failed" /\ UNCHANGED installed

Pause == status # Gone /\ status' = "Paused" /\ UNCHANGED installed

Vanish == status # Gone /\ status' = Gone /\ UNCHANGED installed

Next == Appear \/ Announce \/ Install \/ Succeed \/ Fail \/ Pause \/ Vanish

Spec == Init /\ [][Next]_vars

\* An update that was announced comes to a verdict.
Verdict == status = "Updating" /\ (Succeed \/ Fail \/ Pause \/ Vanish)

Fairness == WF_vars(Verdict)

=============================================================================
