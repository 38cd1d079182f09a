------------------------------ MODULE Operator ------------------------------
(***************************************************************************)
(* Two SimulationToolkit objects in the namespace the operator watches.    *)
(* Nothing in the code keeps a second one away.  Each has a life of its    *)
(* own (Reconciler), but they share the worker that reconciles them, the   *)
(* releases it deploys, the process and the time.                          *)
(***************************************************************************)
EXTENDS Setup, Conditions, Sequences

CONSTANTS
    Absent, NoAnnotations, NoHash, Nothing, Partial, Inputs,
    StaleThreshold, Environment, MaxClock, MaxEdits, MaxFaults

VARIABLES
    cr1, cache1, lagging1, queued1, pc1, base1, obj1, requeue1, moved1,
    locked1, asked1,
    cr2, cache2, lagging2, queued2, pc2, base2, obj2, requeue2, moved2,
    locked2, asked2,
    deployed, operator, clock, edits, faults,
    runs    \* how many Helm runs were begun

first == <<cr1, cache1, lagging1, queued1, pc1, base1, obj1, requeue1, moved1,
           locked1, asked1>>
second == <<cr2, cache2, lagging2, queued2, pc2, base2, obj2, requeue2, moved2,
            locked2, asked2>>
vars == <<first, second, deployed, operator, clock, edits, faults, runs>>

One == INSTANCE Reconciler WITH
    cr <- cr1, cache <- cache1, lagging <- lagging1, queued <- queued1,
    pc <- pc1, base <- base1, obj <- obj1, requeue <- requeue1,
    moved <- moved1, locked <- locked1, asked <- asked1

Two == INSTANCE Reconciler WITH
    cr <- cr2, cache <- cache2, lagging <- lagging2, queued <- queued2,
    pc <- pc2, base <- base2, obj <- obj2, requeue <- requeue2,
    moved <- moved2, locked <- locked2, asked <- asked2

\* What Reconciler assumes of the constants.
ASSUME OperatorAssumption == One!ReconcilerAssumption

-----------------------------------------------------------------------------

\* The worker takes a key when it has none.
DecideOne ==
    /\ pc2 = "idle" /\ One!Decide
    /\ runs' = IF pc1' = "deploy" THEN runs + 1 ELSE runs
    /\ UNCHANGED second

\* Mutant: the worker stays with the first key until it is done with it.
DecideTwoLast ==
    /\ pc1 = "idle" /\ ~queued1 /\ Two!Decide
    /\ runs' = IF pc2' = "deploy" THEN runs + 1 ELSE runs
    /\ UNCHANGED first

DecideTwo ==
    /\ pc1 = "idle" /\ Two!Decide
    /\ runs' = IF pc2' = "deploy" THEN runs + 1 ELSE runs
    /\ UNCHANGED first

Continue ==
    /\ \/ One!Continue /\ UNCHANGED second
       \/ Two!Continue /\ UNCHANGED first
    /\ UNCHANGED runs

SyncOne == One!Sync /\ UNCHANGED <<second, runs>>
SyncTwo == Two!Sync /\ UNCHANGED <<first, runs>>

Tick == One!Tick /\ UNCHANGED <<second, runs>>

\* One process holds both calls and both caches.
Restart(v) ==
    /\ One!Relist(v) /\ Two!Relist(v)
    /\ deployed' \in (IF "deploy" \in {pc1, pc2} THEN {deployed, Partial}
                                                 ELSE {deployed})
    /\ UNCHANGED runs

UsersAct ==
    /\ \/ (One!UserActs \/ One!Finalize) /\ UNCHANGED second
       \/ (Two!UserActs \/ Two!Finalize) /\ UNCHANGED first
    /\ UNCHANGED runs

Init == One!Init /\ Two!Init /\ runs = 0

Next ==
    \/ DecideOne \/ DecideTwo \/ Continue
    \/ SyncOne \/ SyncTwo \/ Tick
    \/ (\E v \in Versions : Restart(v))
    \/ UsersAct

Spec == Init /\ [][Next]_vars

\* The fairness of Reconciler; and the queue is first in, first out: a key that
\* waits is taken, however often the other one is put back.
Fairness ==
    /\ SF_vars(DecideOne) /\ SF_vars(DecideTwo)
    /\ WF_vars(Continue)
    /\ WF_vars(SyncOne) /\ WF_vars(SyncTwo)
    /\ WF_vars(Tick)

FairSpec == Spec /\ Fairness

-----------------------------------------------------------------------------
(* What must be true. *)

\* Once both are reported as deployed, what is there is what the one that was
\* deployed last asks for, whole and by the operator that runs: no upgrade, no
\* failure and no restart leaves one object's remains under the other's report.
LatestWins ==
    One!Reported /\ Two!Reported =>
        LET sec1 == cr1.conditions[STATUS_SUCCESSFUL].sec
            sec2 == cr2.conditions[STATUS_SUCCESSFUL].sec
        IN  \/ sec1 >= sec2 /\ deployed = [setup |-> cr1.setup, version |-> operator]
            \/ sec2 >= sec1 /\ deployed = [setup |-> cr2.setup, version |-> operator]

\* The objects do not undo each other in turns, though each finds the releases
\* other than it left them: a Helm run has a reason of its own, a setup somebody
\* wrote, or a failure or a restart, which may touch both objects.
RunsHaveReasons == runs <= edits + 2 * faults

\* A failure that time does not let grow old.
FailedLate(t) ==
    /\ t # Absent /\ LastStatus(t.conditions) = STATUS_FAILED
    /\ t.conditions[STATUS_FAILED].sec + StaleThreshold >= MaxClock

\* Once users and failures let them, both objects come to rest over an
\* installation that is one of theirs, whole and by the operator that runs.  They
\* share one worker, and one that has failed is put back again and again while
\* its failure is young: that does not keep the other one from its turn, and one
\* that came to rest over an installation the other one then broke has it mended
\* by the other one's retry.
BothComeToRest ==
    <>[](/\ One!Quiescent \/ FailedLate(cr1)
         /\ Two!Quiescent \/ FailedLate(cr2)
         /\ \/ cr1 = Absent /\ cr2 = Absent
            \/ FailedLate(cr1) \/ FailedLate(cr2)
            \/ deployed \in {[setup |-> t.setup, version |-> operator] :
                               t \in {cr1, cr2} \ {Absent}})

=============================================================================
