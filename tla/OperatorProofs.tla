--------------------------- MODULE OperatorProofs ---------------------------
(***************************************************************************)
(* Theorems about two objects that share one operator, for every set of    *)
(* setups and versions and every bound.  What one object does to itself is *)
(* proved in StatusProofs; here it is put together, once for each object.  *)
(***************************************************************************)
EXTENDS Operator, TLAPS

P1 == INSTANCE StatusProofs WITH
    cr <- cr1, cache <- cache1, lagging <- lagging1, queued <- queued1,
    pc <- pc1, base <- base1, obj <- obj1, requeue <- requeue1,
    moved <- moved1, locked <- locked1, asked <- asked1

P2 == INSTANCE StatusProofs WITH
    cr <- cr2, cache <- cache2, lagging <- lagging2, queued <- queued2,
    pc <- pc2, base <- base2, obj <- obj2, requeue <- requeue2,
    moved <- moved2, locked <- locked2, asked <- asked2

-----------------------------------------------------------------------------
(* The two objects are what StatusProofs is about. *)

LEMMA Assumptions ==
    /\ P1!StringsAssumption /\ P1!HashAssumption
    /\ P1!NoConditionAssumption /\ P1!ReconcilerAssumption
    /\ P2!StringsAssumption /\ P2!HashAssumption
    /\ P2!NoConditionAssumption /\ P2!ReconcilerAssumption
  <1>1. P1!StringsAssumption /\ P2!StringsAssumption
    BY StringsAssumption DEF P1!StringsAssumption, P2!StringsAssumption
  <1>2. P1!HashAssumption /\ P2!HashAssumption
    BY HashAssumption
       DEF P1!HashAssumption, P2!HashAssumption, P1!Setups, P2!Setups, Setups
  <1>3. P1!NoConditionAssumption /\ P2!NoConditionAssumption
    BY NoConditionAssumption
       DEF P1!NoConditionAssumption, P2!NoConditionAssumption,
           P1!Condition, P2!Condition, Condition
  <1>4. P1!ReconcilerAssumption /\ P2!ReconcilerAssumption
    BY OperatorAssumption
       DEF One!ReconcilerAssumption, One!Toolkits, One!Deployments, One!Hashes,
           One!Setups, One!ConditionMaps, One!Condition, One!Statuses,
           One!STATUS_PAUSED, One!STATUS_UPDATING, One!STATUS_SUCCESSFUL,
           One!STATUS_FAILED, One!STATUS_UNKNOWN, One!Behaviours,
           P1!ReconcilerAssumption, P1!Toolkits, P1!Deployments, P1!Hashes,
           P1!Setups, P1!ConditionMaps, P1!Condition, P1!Statuses,
           P1!STATUS_PAUSED, P1!STATUS_UPDATING, P1!STATUS_SUCCESSFUL,
           P1!STATUS_FAILED, P1!STATUS_UNKNOWN, P1!Behaviours,
           P2!ReconcilerAssumption, P2!Toolkits, P2!Deployments, P2!Hashes,
           P2!Setups, P2!ConditionMaps, P2!Condition, P2!Statuses,
           P2!STATUS_PAUSED, P2!STATUS_UPDATING, P2!STATUS_SUCCESSFUL,
           P2!STATUS_FAILED, P2!STATUS_UNKNOWN, P2!Behaviours
  <1> QED BY <1>1, <1>2, <1>3, <1>4

LEMMA FirstAgrees ==
    /\ One!Init => P1!Init
    /\ One!Decide => P1!Decide
    /\ One!Continue => P1!Continue
    /\ One!Sync => P1!Sync
    /\ One!Tick => P1!Tick
    /\ \A v \in Versions : One!Relist(v) => P1!Relist(v)
    /\ One!UserActs => P1!UserActs
    /\ One!Finalize => P1!Finalize
    /\ One!Reported => P1!Reported
  BY DEF One!Accepted, One!Active, One!Annotated, One!Ask, One!BlockedEarly,
          One!CannotGenerate, One!ConfigurationChanged, One!ConfigurationOld,
          One!Continue, One!Create, One!Decide, One!Delete,
          One!DeleteForeground, One!DeploymentStale, One!Edit, One!Finalize,
          One!HelmEnds, One!HelmFails, One!HelmRefuses, One!HelmSucceeds,
          One!Identified, One!IgnoreMissing, One!IngressOutcomes, One!Init,
          One!Last, One!LastHash, One!LastStatus, One!Later, One!Marked,
          One!Merged, One!MergedSetup, One!MustUpdate, One!NoConditions,
          One!PatchDefinition, One!PatchFault, One!PatchObject,
          One!PatchRejected, One!PatchStatus, One!Patched, One!Position,
          One!Present, One!Proceed, One!Put, One!Quiescent, One!Reading,
          One!ReconcilePaused, One!RefuseToDeploy, One!Relist, One!Replace,
          One!Reported, One!RequiresClusterIngress, One!Resolve,
          One!ResolveFails, One!Return, One!Routed, One!STATUS_FAILED,
          One!STATUS_PAUSED, One!STATUS_SUCCESSFUL, One!STATUS_UNKNOWN,
          One!STATUS_UPDATING, One!SetPaused, One!Stamp,
          One!StartHelm, One!StartUpdating, One!StatusPatched, One!Statuses,
          One!StayPut, One!Stored, One!Sync, One!Tick, One!ToPaused,
          One!ToUpdating, One!UserActs, One!UserWrites, One!WaitToRetry,
          One!bounds, One!call, One!object, P1!Accepted, P1!Active,
          P1!Annotated, P1!Ask, P1!BlockedEarly, P1!CannotGenerate,
          P1!ConfigurationChanged, P1!ConfigurationOld, P1!Continue, P1!Create,
          P1!Decide, P1!Delete, P1!DeleteForeground, P1!DeploymentStale,
          P1!Edit, P1!Finalize, P1!HelmEnds, P1!HelmFails, P1!HelmRefuses,
          P1!HelmSucceeds, P1!Identified, P1!IgnoreMissing, P1!IngressOutcomes,
          P1!Init, P1!Last, P1!LastHash, P1!LastStatus, P1!Later, P1!Marked,
          P1!Merged, P1!MergedSetup, P1!MustUpdate, P1!NoConditions,
          P1!PatchDefinition, P1!PatchFault, P1!PatchObject, P1!PatchRejected,
          P1!PatchStatus, P1!Patched, P1!Position, P1!Present, P1!Proceed,
          P1!Put, P1!Quiescent, P1!Reading, P1!ReconcilePaused,
          P1!RefuseToDeploy, P1!Relist, P1!Replace, P1!Reported,
          P1!RequiresClusterIngress, P1!Resolve, P1!ResolveFails, P1!Return,
          P1!Routed, P1!STATUS_FAILED, P1!STATUS_PAUSED, P1!STATUS_SUCCESSFUL,
          P1!STATUS_UNKNOWN, P1!STATUS_UPDATING, P1!SetPaused,
          P1!Stamp, P1!StartHelm, P1!StartUpdating, P1!StatusPatched,
          P1!Statuses, P1!StayPut, P1!Stored, P1!Sync, P1!Tick, P1!ToPaused,
          P1!ToUpdating, P1!UserActs, P1!UserWrites, P1!WaitToRetry, P1!bounds,
          P1!call, P1!object

LEMMA SecondAgrees ==
    /\ Two!Init => P2!Init
    /\ Two!Decide => P2!Decide
    /\ Two!Continue => P2!Continue
    /\ Two!Sync => P2!Sync
    /\ Two!Tick => P2!Tick
    /\ \A v \in Versions : Two!Relist(v) => P2!Relist(v)
    /\ Two!UserActs => P2!UserActs
    /\ Two!Finalize => P2!Finalize
    /\ Two!Reported => P2!Reported
  BY DEF Two!Accepted, Two!Active, Two!Annotated, Two!Ask, Two!BlockedEarly,
          Two!CannotGenerate, Two!ConfigurationChanged, Two!ConfigurationOld,
          Two!Continue, Two!Create, Two!Decide, Two!Delete,
          Two!DeleteForeground, Two!DeploymentStale, Two!Edit, Two!Finalize,
          Two!HelmEnds, Two!HelmFails, Two!HelmRefuses, Two!HelmSucceeds,
          Two!Identified, Two!IgnoreMissing, Two!IngressOutcomes, Two!Init,
          Two!Last, Two!LastHash, Two!LastStatus, Two!Later, Two!Marked,
          Two!Merged, Two!MergedSetup, Two!MustUpdate, Two!NoConditions,
          Two!PatchDefinition, Two!PatchFault, Two!PatchObject,
          Two!PatchRejected, Two!PatchStatus, Two!Patched, Two!Position,
          Two!Present, Two!Proceed, Two!Put, Two!Quiescent, Two!Reading,
          Two!ReconcilePaused, Two!RefuseToDeploy, Two!Relist, Two!Replace,
          Two!Reported, Two!RequiresClusterIngress, Two!Resolve,
          Two!ResolveFails, Two!Return, Two!Routed, Two!STATUS_FAILED,
          Two!STATUS_PAUSED, Two!STATUS_SUCCESSFUL, Two!STATUS_UNKNOWN,
          Two!STATUS_UPDATING, Two!SetPaused, Two!Stamp,
          Two!StartHelm, Two!StartUpdating, Two!StatusPatched, Two!Statuses,
          Two!StayPut, Two!Stored, Two!Sync, Two!Tick, Two!ToPaused,
          Two!ToUpdating, Two!UserActs, Two!UserWrites, Two!WaitToRetry,
          Two!bounds, Two!call, Two!object, P2!Accepted, P2!Active,
          P2!Annotated, P2!Ask, P2!BlockedEarly, P2!CannotGenerate,
          P2!ConfigurationChanged, P2!ConfigurationOld, P2!Continue, P2!Create,
          P2!Decide, P2!Delete, P2!DeleteForeground, P2!DeploymentStale,
          P2!Edit, P2!Finalize, P2!HelmEnds, P2!HelmFails, P2!HelmRefuses,
          P2!HelmSucceeds, P2!Identified, P2!IgnoreMissing, P2!IngressOutcomes,
          P2!Init, P2!Last, P2!LastHash, P2!LastStatus, P2!Later, P2!Marked,
          P2!Merged, P2!MergedSetup, P2!MustUpdate, P2!NoConditions,
          P2!PatchDefinition, P2!PatchFault, P2!PatchObject, P2!PatchRejected,
          P2!PatchStatus, P2!Patched, P2!Position, P2!Present, P2!Proceed,
          P2!Put, P2!Quiescent, P2!Reading, P2!ReconcilePaused,
          P2!RefuseToDeploy, P2!Relist, P2!Replace, P2!Reported,
          P2!RequiresClusterIngress, P2!Resolve, P2!ResolveFails, P2!Return,
          P2!Routed, P2!STATUS_FAILED, P2!STATUS_PAUSED, P2!STATUS_SUCCESSFUL,
          P2!STATUS_UNKNOWN, P2!STATUS_UPDATING, P2!SetPaused,
          P2!Stamp, P2!StartHelm, P2!StartUpdating, P2!StatusPatched,
          P2!Statuses, P2!StayPut, P2!Stored, P2!Sync, P2!Tick, P2!ToPaused,
          P2!ToUpdating, P2!UserActs, P2!UserWrites, P2!WaitToRetry, P2!bounds,
          P2!call, P2!object

-----------------------------------------------------------------------------
(* The steps of the whole. *)

Deploying == "deploy" \in {pc1, pc2}

\* One object's step, in which the other one is left alone: a call goes on
\* only when the other one has none.
FirstMoves ==
    /\ UNCHANGED <<second, clock, operator>>
    /\ \/ /\ P1!Decide /\ pc1 = "idle" /\ pc2 = "idle"
          /\ runs' = IF pc1' = "deploy" THEN runs + 1 ELSE runs
       \/ P1!Continue /\ pc1 # "idle" /\ pc1' # "deploy" /\ runs' = runs
       \/ (P1!Sync \/ P1!UserActs \/ P1!Finalize) /\ UNCHANGED <<pc1, runs>>

SecondMoves ==
    /\ UNCHANGED <<first, clock, operator>>
    /\ \/ /\ P2!Decide /\ pc1 = "idle" /\ pc2 = "idle"
          /\ runs' = IF pc2' = "deploy" THEN runs + 1 ELSE runs
       \/ P2!Continue /\ pc2 # "idle" /\ pc2' # "deploy" /\ runs' = runs
       \/ (P2!Sync \/ P2!UserActs \/ P2!Finalize) /\ UNCHANGED <<pc2, runs>>

TimePasses == P1!Tick /\ P2!Tick /\ UNCHANGED <<deployed, runs>>

BothRestart ==
    /\ \E v \in Versions : P1!Relist(v) /\ P2!Relist(v)
    /\ deployed' \in (IF Deploying THEN {deployed, Partial} ELSE {deployed})
    /\ runs' = runs

LEMMA StepsAre ==
    ASSUME [Next]_vars
    PROVE  \/ FirstMoves \/ SecondMoves \/ TimePasses \/ BothRestart
           \/ UNCHANGED vars
  <1>1. CASE DecideOne
    BY <1>1, FirstAgrees, Assumptions, P1!StepsOfCalls DEF DecideOne, FirstMoves
  <1>2. CASE DecideTwo
    BY <1>2, SecondAgrees, Assumptions, P2!StepsOfCalls DEF DecideTwo, SecondMoves
  <1>3. CASE Continue
    BY <1>3, FirstAgrees, SecondAgrees, Assumptions, P1!StepsOfCalls,
       P2!StepsOfCalls
       DEF Continue, FirstMoves, SecondMoves
  <1>4. CASE SyncOne
    BY <1>4, FirstAgrees, Assumptions, P1!StepsOfCalls DEF SyncOne, FirstMoves
  <1>5. CASE SyncTwo
    BY <1>5, SecondAgrees, Assumptions, P2!StepsOfCalls DEF SyncTwo, SecondMoves
  <1>6. CASE Tick
    <2>1. P1!Tick /\ UNCHANGED <<second, runs>>
      BY <1>6, FirstAgrees DEF Tick
    <2>2. P2!Tick /\ deployed' = deployed
      BY <2>1 DEF P1!Tick, P2!Tick, P1!bounds, P2!bounds, P2!object, P2!call, second
    <2> QED BY <2>1, <2>2 DEF TimePasses
  <1>7. ASSUME NEW v \in Versions, Restart(v)
        PROVE  BothRestart
    BY <1>7, FirstAgrees, SecondAgrees DEF Restart, BothRestart, Deploying
  <1>8. CASE UsersAct
    BY <1>8, FirstAgrees, SecondAgrees, Assumptions, P1!StepsOfCalls,
       P2!StepsOfCalls
       DEF UsersAct, FirstMoves, SecondMoves
  <1> QED BY <1>1, <1>2, <1>3, <1>4, <1>5, <1>6, <1>7, <1>8 DEF Next

\* Each step is one of each object's own, but for what Helm has installed.
LEMMA StepsOfEach ==
    /\ FirstMoves \/ TimePasses => P1!Next
    /\ SecondMoves \/ TimePasses => P2!Next
  BY Assumptions DEF FirstMoves, SecondMoves, TimePasses, P1!Next, P2!Next

-----------------------------------------------------------------------------
(* Each object keeps the invariants it has alone; one call runs at a time. *)

\* The worker has one key at a time.
Exclusive == pc1 = "idle" \/ pc2 = "idle"

Sound == P1!TypeOK /\ P2!TypeOK /\ P1!Inv /\ P2!Inv /\ Exclusive

LEMMA SecondRests ==
    ASSUME Sound, UNCHANGED <<second, clock, operator>>, P1!TypeOK'
    PROVE  P2!TypeOK' /\ P2!Inv'
  <1>1. P2!TypeOK'
    BY DEF Sound, P1!TypeOK, P2!TypeOK, second, P1!Deployments, P2!Deployments,
           P1!Setups, P2!Setups
  <1>2. P2!Fresh' /\ P2!Timely' /\ P2!Effective' /\ P2!Settled'
    BY DEF Sound, P2!Inv, P2!Fresh, P2!Timely, P2!Dated, P2!Effective,
           P2!Ineffective, P2!Settled, P2!Quiescent, second
  <1> QED BY <1>1, <1>2 DEF P2!Inv

LEMMA FirstRests ==
    ASSUME Sound, UNCHANGED <<first, clock, operator>>, P2!TypeOK'
    PROVE  P1!TypeOK' /\ P1!Inv'
  <1>1. P1!TypeOK'
    BY DEF Sound, P1!TypeOK, P2!TypeOK, first, P1!Deployments, P2!Deployments,
           P1!Setups, P2!Setups
  <1>2. P1!Fresh' /\ P1!Timely' /\ P1!Effective' /\ P1!Settled'
    BY DEF Sound, P1!Inv, P1!Fresh, P1!Timely, P1!Dated, P1!Effective,
           P1!Ineffective, P1!Settled, P1!Quiescent, first
  <1> QED BY <1>1, <1>2 DEF P1!Inv

LEMMA SoundStep ==
    ASSUME Sound, [Next]_vars
    PROVE  Sound'
  <1>1. CASE FirstMoves
    <2>1. P1!TypeOK' /\ P1!Inv'
      BY <1>1, StepsOfEach, Assumptions, P1!InvStep DEF Sound
    <2>2. P2!TypeOK' /\ P2!Inv'
      BY <1>1, <2>1, SecondRests DEF FirstMoves
    <2>3. Exclusive'
      BY <1>1 DEF FirstMoves, second, Sound, Exclusive
    <2> QED BY <2>1, <2>2, <2>3 DEF Sound
  <1>2. CASE SecondMoves
    <2>1. P2!TypeOK' /\ P2!Inv'
      BY <1>2, StepsOfEach, Assumptions, P2!InvStep DEF Sound
    <2>2. P1!TypeOK' /\ P1!Inv'
      BY <1>2, <2>1, FirstRests DEF SecondMoves
    <2>3. Exclusive'
      BY <1>2 DEF SecondMoves, first, Sound, Exclusive
    <2> QED BY <2>1, <2>2, <2>3 DEF Sound
  <1>3. CASE TimePasses
    <2>1. P1!TypeOK' /\ P1!Inv' /\ P2!TypeOK' /\ P2!Inv'
      BY <1>3, StepsOfEach, Assumptions, P1!InvStep, P2!InvStep DEF Sound
    <2>2. UNCHANGED <<pc1, pc2>>
      BY <1>3, Assumptions, P1!StepsOfCalls, P2!StepsOfCalls DEF TimePasses
    <2> QED BY <2>1, <2>2 DEF Sound, Exclusive
  <1>4. CASE BothRestart
    <2>1. PICK v \in Versions : P1!Relist(v) /\ P2!Relist(v)
      BY <1>4 DEF BothRestart
    <2>2. /\ deployed' \in P1!Deployments \cup {Nothing, Partial}
          /\ deployed' \in P2!Deployments \cup {Nothing, Partial}
      BY <1>4 DEF BothRestart, Sound, P1!TypeOK, P2!TypeOK
    <2>3. P1!TypeOK' /\ P1!Inv' /\ P2!TypeOK' /\ P2!Inv'
      BY <2>1, <2>2, Assumptions, P1!RelistType, P2!RelistType, P1!RelistKeeps,
         P2!RelistKeeps
         DEF Sound
    <2>4. Exclusive'
      BY <2>1 DEF P1!Relist, Exclusive
    <2> QED BY <2>3, <2>4 DEF Sound
  <1>5. CASE UNCHANGED vars
    <2>1. UNCHANGED P1!vars /\ UNCHANGED P2!vars
      BY <1>5 DEF vars, first, second, P1!vars, P1!object, P1!call, P1!bounds,
                  P2!vars, P2!object, P2!call, P2!bounds
    <2>2. P1!TypeOK' /\ P1!Inv' /\ P2!TypeOK' /\ P2!Inv'
      BY <2>1, Assumptions, P1!InvStep, P2!InvStep DEF Sound
    <2>3. UNCHANGED <<pc1, pc2>>
      BY <1>5 DEF vars, first, second
    <2> QED BY <2>2, <2>3 DEF Sound, Exclusive
  <1> QED BY <1>1, <1>2, <1>3, <1>4, <1>5, StepsAre

LEMMA SoundAlways ==
    ASSUME "handover" \notin Environment
    PROVE  Spec => []Sound
  <1>1. Init => Sound
    <2>1. Init => P1!Init /\ P2!Init /\ Exclusive
      BY FirstAgrees, SecondAgrees DEF Init, P1!Init, Exclusive
    <2> QED BY <2>1, Assumptions, P1!InitOwn, P2!InitOwn DEF Sound
  <1>2. Sound /\ [Next]_vars => Sound'
    BY SoundStep
  <1> QED BY <1>1, <1>2, PTL DEF Spec

-----------------------------------------------------------------------------
(* What is there is what the object asks for that was deployed last, when   *)
(* the cache does not lag, users leave the setups they write alone and no    *)
(* operator starts in the second in which another one stops.                 *)

WrittenOnce ==
    Environment \cap {"lag", "edit", "replace", "recreate", "handover"} = {}

Kept == P1!Own /\ P2!Own /\ P1!Constant /\ P2!Constant

\* A success on its way to be stored tells of what is there, and is no older
\* than what the other object claims.  Of two successes that are stored, one is
\* the later one and tells of what is there: while Helm works on an object, that
\* object claims none.
Story ==
    /\ P1!Pending => /\ deployed = P1!Promised.what
                     /\ P2!Claims => P1!Promised.sec >= P2!Claimed.sec
    /\ P2!Pending => /\ deployed = P2!Promised.what
                     /\ P1!Claims => P2!Promised.sec >= P1!Claimed.sec
    /\ P1!Claims /\ P2!Claims =>
         \/ P1!Claimed.sec >= P2!Claimed.sec /\ deployed = P1!Claimed.what
         \/ P2!Claimed.sec >= P1!Claimed.sec /\ deployed = P2!Claimed.what

LEMMA FirstKeepsStill ==
    ASSUME UNCHANGED <<first, operator>>
    PROVE  /\ P1!Own => P1!Own'
           /\ P1!Constant => P1!Constant'
           /\ P1!Claims' <=> P1!Claims
           /\ P1!Pending' <=> P1!Pending
           /\ UNCHANGED <<P1!Claimed, P1!Promised>>
  BY DEF first, P1!Own, P1!Current, P1!VersionShown, P1!Unrepeated,
         P1!Ineffective, P1!Reported, P1!Quiescent, P1!Last, P1!Constant,
         P1!Promised, P1!Success, P1!Claims, P1!Claimed, P1!Pending

LEMMA SecondKeepsStill ==
    ASSUME UNCHANGED <<second, operator>>
    PROVE  /\ P2!Own => P2!Own'
           /\ P2!Constant => P2!Constant'
           /\ P2!Claims' <=> P2!Claims
           /\ P2!Pending' <=> P2!Pending
           /\ UNCHANGED <<P2!Claimed, P2!Promised>>
  BY DEF second, P2!Own, P2!Current, P2!VersionShown, P2!Unrepeated,
         P2!Ineffective, P2!Reported, P2!Quiescent, P2!Last, P2!Constant,
         P2!Promised, P2!Success, P2!Claims, P2!Claimed, P2!Pending

LEMMA FirstTellsOn ==
    ASSUME WrittenOnce, Sound, Kept, Story, FirstMoves
    PROVE  Kept' /\ Story'
  <1>1. /\ P1!TypeOK /\ P1!Inv /\ P1!Own /\ P1!Constant
        /\ P2!TypeOK /\ P2!Inv /\ P2!Own /\ P2!Constant
    BY DEF Sound, Kept
  <1>2. /\ P1!WrittenOnce /\ [P1!Next]_P1!vars
        /\ "lag" \notin Environment /\ "recreate" \notin Environment
    BY StepsOfEach DEF WrittenOnce, P1!WrittenOnce
  <1>3. P1!Timely /\ P1!Fresh /\ P1!Effective /\ P1!Unrepeated
    BY <1>1 DEF P1!Inv, P1!Own
  <1>4. /\ P1!Claims' => \/ P1!Claims /\ P1!Claimed' = P1!Claimed
                         \/ /\ P1!Pending /\ P1!Claimed' = P1!Promised
                            /\ deployed' = deployed
        /\ P1!Pending' =>
             \/ P1!Pending /\ UNCHANGED <<P1!Promised, deployed>>
             \/ /\ P1!Promised' = [what |-> deployed', sec |-> clock]
                /\ pc1 = "deploy"
        /\ deployed' # deployed => pc1 = "deploy" /\ ~P1!Claims'
    BY <1>1, <1>2, <1>3, Assumptions, P1!SuccessStep
  <1>5. /\ UNCHANGED <<second, operator>>
        /\ P2!Own' /\ P2!Constant'
        /\ P2!Claims' <=> P2!Claims
        /\ P2!Pending' <=> P2!Pending
        /\ UNCHANGED <<P2!Claimed, P2!Promised>>
    <2>1. UNCHANGED <<second, operator>>
      BY DEF FirstMoves
    <2> QED BY <1>1, <2>1, SecondKeepsStill
  <1>6. P1!Own' /\ P1!Constant'
    BY <1>1, <1>2, <1>3, Assumptions, P1!OwnStep, P1!ConstantStep
  <1>7. P2!Claims => P2!Claimed.sec \in Nat /\ P2!Claimed.sec <= clock
    BY <1>1, Assumptions, P2!ClaimedSec DEF P2!Inv
  <1>8. pc1 = "deploy" => ~P2!Pending
    BY DEF Sound, Exclusive, P2!Pending
  <1>9. ASSUME P1!Pending'
        PROVE  /\ deployed' = P1!Promised.what'
               /\ P2!Claims' => P1!Promised.sec' >= P2!Claimed.sec'
    <2>1. CASE P1!Pending /\ UNCHANGED <<P1!Promised, deployed>>
      BY <1>5, <2>1 DEF Story
    <2>2. CASE P1!Promised' = [what |-> deployed', sec |-> clock]
      <3>1. P1!Promised.what' = deployed' /\ P1!Promised.sec' = clock
        BY <2>2
      <3>2. clock \in Nat
        BY <1>1 DEF P2!TypeOK
      <3> QED BY <1>5, <1>7, <3>1, <3>2
    <2> QED BY <1>4, <1>9, <2>1, <2>2
  <1>10. ASSUME P2!Pending'
         PROVE  /\ deployed' = P2!Promised.what'
                /\ P1!Claims' => P2!Promised.sec' >= P1!Claimed.sec'
    <2>1. P2!Pending /\ deployed' = deployed /\ ~P1!Pending
      BY <1>4, <1>5, <1>8, <1>10 DEF Sound, Exclusive, P1!Pending, P2!Pending
    <2> QED BY <1>4, <1>5, <2>1 DEF Story
  <1>11. ASSUME P1!Claims', P2!Claims'
         PROVE  \/ P1!Claimed.sec' >= P2!Claimed.sec' /\ deployed' = P1!Claimed.what'
                \/ P2!Claimed.sec' >= P1!Claimed.sec' /\ deployed' = P2!Claimed.what'
    BY <1>4, <1>5, <1>11 DEF Story
  <1> QED BY <1>1, <1>5, <1>6, <1>9, <1>10, <1>11 DEF Kept, Story

LEMMA SecondTellsOn ==
    ASSUME WrittenOnce, Sound, Kept, Story, SecondMoves
    PROVE  Kept' /\ Story'
  <1>1. /\ P1!TypeOK /\ P1!Inv /\ P1!Own /\ P1!Constant
        /\ P2!TypeOK /\ P2!Inv /\ P2!Own /\ P2!Constant
    BY DEF Sound, Kept
  <1>2. /\ P2!WrittenOnce /\ [P2!Next]_P2!vars
        /\ "lag" \notin Environment /\ "recreate" \notin Environment
    BY StepsOfEach DEF WrittenOnce, P2!WrittenOnce
  <1>3. P2!Timely /\ P2!Fresh /\ P2!Effective /\ P2!Unrepeated
    BY <1>1 DEF P2!Inv, P2!Own
  <1>4. /\ P2!Claims' => \/ P2!Claims /\ P2!Claimed' = P2!Claimed
                         \/ /\ P2!Pending /\ P2!Claimed' = P2!Promised
                            /\ deployed' = deployed
        /\ P2!Pending' =>
             \/ P2!Pending /\ UNCHANGED <<P2!Promised, deployed>>
             \/ /\ P2!Promised' = [what |-> deployed', sec |-> clock]
                /\ pc2 = "deploy"
        /\ deployed' # deployed => pc2 = "deploy" /\ ~P2!Claims'
    BY <1>1, <1>2, <1>3, Assumptions, P2!SuccessStep
  <1>5. /\ UNCHANGED <<first, operator>>
        /\ P1!Own' /\ P1!Constant'
        /\ P1!Claims' <=> P1!Claims
        /\ P1!Pending' <=> P1!Pending
        /\ UNCHANGED <<P1!Claimed, P1!Promised>>
    <2>1. UNCHANGED <<first, operator>>
      BY DEF SecondMoves
    <2> QED BY <1>1, <2>1, FirstKeepsStill
  <1>6. P2!Own' /\ P2!Constant'
    BY <1>1, <1>2, <1>3, Assumptions, P2!OwnStep, P2!ConstantStep
  <1>7. P1!Claims => P1!Claimed.sec \in Nat /\ P1!Claimed.sec <= clock
    BY <1>1, Assumptions, P1!ClaimedSec DEF P1!Inv
  <1>8. pc2 = "deploy" => ~P1!Pending
    BY DEF Sound, Exclusive, P1!Pending
  <1>9. ASSUME P2!Pending'
        PROVE  /\ deployed' = P2!Promised.what'
               /\ P1!Claims' => P2!Promised.sec' >= P1!Claimed.sec'
    <2>1. CASE P2!Pending /\ UNCHANGED <<P2!Promised, deployed>>
      BY <1>5, <2>1 DEF Story
    <2>2. CASE P2!Promised' = [what |-> deployed', sec |-> clock]
      <3>1. P2!Promised.what' = deployed' /\ P2!Promised.sec' = clock
        BY <2>2
      <3>2. clock \in Nat
        BY <1>1 DEF P1!TypeOK
      <3> QED BY <1>5, <1>7, <3>1, <3>2
    <2> QED BY <1>4, <1>9, <2>1, <2>2
  <1>10. ASSUME P1!Pending'
         PROVE  /\ deployed' = P1!Promised.what'
                /\ P2!Claims' => P1!Promised.sec' >= P2!Claimed.sec'
    <2>1. P1!Pending /\ deployed' = deployed /\ ~P2!Pending
      BY <1>4, <1>5, <1>8, <1>10 DEF Sound, Exclusive, P2!Pending, P1!Pending
    <2> QED BY <1>4, <1>5, <2>1 DEF Story
  <1>11. ASSUME P2!Claims', P1!Claims'
         PROVE  \/ P2!Claimed.sec' >= P1!Claimed.sec' /\ deployed' = P2!Claimed.what'
                \/ P1!Claimed.sec' >= P2!Claimed.sec' /\ deployed' = P1!Claimed.what'
    BY <1>4, <1>5, <1>11 DEF Story
  <1> QED BY <1>1, <1>5, <1>6, <1>9, <1>10, <1>11 DEF Kept, Story

LEMMA StoryStep ==
    ASSUME WrittenOnce, Sound, Kept, Story, [Next]_vars
    PROVE  Kept' /\ Story'
  <1>1. CASE FirstMoves
    BY <1>1, FirstTellsOn
  <1>2. CASE SecondMoves
    BY <1>2, SecondTellsOn
  <1>3. CASE TimePasses \/ UNCHANGED vars
    <2>1. UNCHANGED <<first, second, operator, deployed>>
      BY <1>3 DEF TimePasses, vars, first, second, P1!Tick, P1!object, P1!call,
                  P1!bounds, P2!Tick, P2!object, P2!call, P2!bounds
    <2> QED BY <2>1, FirstKeepsStill, SecondKeepsStill DEF Kept, Story
  <1>4. CASE BothRestart
    <2>1. PICK v \in Versions : P1!Relist(v) /\ P2!Relist(v)
      BY <1>4 DEF BothRestart
    <2>2. /\ P1!Effective /\ P1!Unrepeated /\ P1!Own
          /\ P2!Effective /\ P2!Unrepeated /\ P2!Own
      BY DEF Sound, Kept, P1!Inv, P2!Inv, P1!Own, P2!Own
    <2>3. Kept' /\ ~P1!Pending' /\ ~P2!Pending'
      BY <2>1, <2>2, Assumptions, P1!OwnRelist, P2!OwnRelist, P1!SuccessRelist,
         P2!SuccessRelist
         DEF Kept
    <2>4. /\ P1!Claims' => pc1 # "deploy" /\ P1!Claims /\ P1!Claimed' = P1!Claimed
          /\ P2!Claims' => pc2 # "deploy" /\ P2!Claims /\ P2!Claimed' = P2!Claimed
      BY <2>1, <2>2, Assumptions, P1!SuccessRelist, P2!SuccessRelist
    <2>5. P1!Claims' /\ P2!Claims' => deployed' = deployed
      BY <1>4, <2>4 DEF BothRestart, Deploying
    <2> QED BY <2>3, <2>4, <2>5 DEF Story
  <1> QED BY <1>1, <1>2, <1>3, <1>4, StepsAre

LEMMA StoryAlways ==
    ASSUME WrittenOnce
    PROVE  Spec => [](Kept /\ Story)
  <1>0. "handover" \notin Environment
    BY DEF WrittenOnce
  <1>1. Init => Kept /\ Story
    <2>1. Init => /\ P1!Init /\ P2!Init
                  /\ cr1 = Absent /\ cr2 = Absent /\ pc1 = "idle" /\ pc2 = "idle"
      BY FirstAgrees, SecondAgrees DEF Init, P1!Init, P2!Init
    <2>2. Init => Kept
      BY <1>0, <2>1, Assumptions, P1!InitOwn, P2!InitOwn
         DEF Kept, P1!Constant, P2!Constant
    <2>3. Init => Story
      BY <2>1 DEF Story, P1!Pending, P2!Pending, P1!Claims
    <2> QED BY <2>2, <2>3
  <1>2. Sound /\ Kept /\ Story /\ [Next]_vars => Kept' /\ Story'
    BY StoryStep
  <1> QED BY <1>0, <1>1, <1>2, SoundAlways, PTL DEF Spec

\* When both objects are reported as deployed, the one that was deployed last has
\* what it asks for, whole and by the operator that runs: no failure, upgrade or
\* restart leaves the remains of one under the report of the other (Reconcile and
\* the releases both deploy).
THEOREM LatestIsThere ==
    ASSUME WrittenOnce
    PROVE  Spec => []LatestWins
  <1>1. Kept /\ Story => LatestWins
    <2> SUFFICES ASSUME Kept, Story, One!Reported, Two!Reported
                 PROVE  LatestWins
      BY DEF LatestWins
    <2>1. P1!Reported /\ P2!Reported /\ P1!VersionShown /\ P2!VersionShown
      BY FirstAgrees, SecondAgrees DEF Kept, P1!Own, P2!Own
    <2>2. /\ P1!Claims /\ P1!Claimed.sec = cr1.conditions[STATUS_SUCCESSFUL].sec
          /\ P1!Claimed.what = [setup |-> cr1.setup, version |-> operator]
      BY <2>1 DEF P1!Reported, P1!Last, P1!Claims, P1!VersionShown, P1!Claimed,
                  P1!Success, P1!STATUS_SUCCESSFUL, STATUS_SUCCESSFUL
    <2>3. /\ P2!Claims /\ P2!Claimed.sec = cr2.conditions[STATUS_SUCCESSFUL].sec
          /\ P2!Claimed.what = [setup |-> cr2.setup, version |-> operator]
      BY <2>1 DEF P2!Reported, P2!Last, P2!Claims, P2!VersionShown, P2!Claimed,
                  P2!Success, P2!STATUS_SUCCESSFUL, STATUS_SUCCESSFUL
    <2> QED BY <2>2, <2>3 DEF Story, LatestWins
  <1> QED BY <1>1, StoryAlways, PTL

-----------------------------------------------------------------------------
(* The objects do not undo each other in turns.                             *)

AllDeployable == \A s \in Inputs : Deployable(s)

\* The Helm runs an object may be about to begin though nobody writes it,
\* nothing fails and the operator goes on.
Reasons(due) == IF due THEN 1 ELSE 0

\* Each Helm run is paid for by a write or a failure, which pay for those that
\* are still due as well.
Counted ==
    /\ P1!Noted /\ P2!Noted
    /\ runs \in Nat
    /\ runs + Reasons(P1!Due) + Reasons(P2!Due) <= edits + 2 * faults

LEMMA FirstAlike == AllDeployable => P1!AllDeployable
  BY DEF AllDeployable, Deployable, Accepted, Filled,
         P1!AllDeployable, P1!Deployable, P1!Accepted, P1!Filled

LEMMA SecondAlike == AllDeployable => P2!AllDeployable
  BY DEF AllDeployable, Deployable, Accepted, Filled,
         P2!AllDeployable, P2!Deployable, P2!Accepted, P2!Filled

LEMMA FirstOwesStill ==
    ASSUME UNCHANGED <<first, operator>>
    PROVE  (P1!Noted => P1!Noted') /\ (P1!Due' <=> P1!Due)
  BY DEF first, P1!Noted, P1!Due, P1!UpToDate

LEMMA SecondOwesStill ==
    ASSUME UNCHANGED <<second, operator>>
    PROVE  (P2!Noted => P2!Noted') /\ (P2!Due' <=> P2!Due)
  BY DEF second, P2!Noted, P2!Due, P2!UpToDate

LEMMA FirstPays ==
    ASSUME AllDeployable, WrittenOnce, Sound, Kept, Counted, FirstMoves
    PROVE  Counted'
  <1>1. /\ P1!TypeOK /\ P1!Timely /\ P1!Fresh /\ P1!Effective
        /\ P1!Unrepeated /\ P1!Constant /\ P1!Noted /\ P2!Noted
    BY DEF Sound, Kept, Counted, P1!Inv, P1!Own
  <1>2. /\ P1!WrittenOnce /\ P1!AllDeployable /\ [P1!Next]_P1!vars
        /\ UNCHANGED <<second, operator>>
    BY StepsOfEach, FirstAlike DEF FirstMoves, WrittenOnce, P1!WrittenOnce
  <1>3. /\ P1!Noted' /\ P2!Noted'
        /\ P2!Due' <=> P2!Due
    BY <1>1, <1>2, Assumptions, P1!NotedStep, SecondOwesStill
  <1>4. /\ edits' \in {edits, edits + 1} /\ faults' \in {faults, faults + 1}
        /\ pc1 # "deploy" /\ pc1' = "deploy" => P1!Due /\ ~P1!Due'
        /\ P1!Due' => P1!Due \/ edits' = edits + 1 \/ faults' = faults + 1
    BY <1>1, <1>2, Assumptions, P1!DueStep
  <1>5. \/ runs' = runs
        \/ runs' = runs + 1 /\ pc1 # "deploy" /\ pc1' = "deploy"
    BY DEF FirstMoves
  <1>6. edits \in Nat /\ faults \in Nat /\ runs \in Nat
    BY DEF Sound, P1!TypeOK, Counted
  <1>7. Reasons(P2!Due') = Reasons(P2!Due)
    BY <1>3 DEF Reasons
  <1>8. /\ Reasons(P2!Due) \in 0..1 /\ Reasons(P1!Due) \in 0..1
        /\ Reasons(P1!Due') \in 0..1
        /\ P1!Due <=> Reasons(P1!Due) = 1
        /\ P1!Due' <=> Reasons(P1!Due') = 1
    BY DEF Reasons
  <1>9. /\ runs' \in Nat
        /\ runs' + Reasons(P1!Due') + Reasons(P2!Due)
             <= edits' + 2 * faults'
    <2> DEFINE a == Reasons(P1!Due)
               b == Reasons(P2!Due)
               c == Reasons(P1!Due')
    <2>1. runs + a + b <= edits + 2 * faults
      BY <1>6, <1>8 DEF Counted
    <2>2. a \in 0..1 /\ b \in 0..1 /\ c \in 0..1
      BY <1>8
    <2>3. /\ pc1 # "deploy" /\ pc1' = "deploy" => a = 1 /\ c = 0
          /\ c = 1 => a = 1 \/ edits' = edits + 1 \/ faults' = faults + 1
      BY <1>4, <1>8
    <2> HIDE DEF a, b, c
    <2>4. runs' \in Nat /\ runs' + c + b <= edits' + 2 * faults'
      BY <1>4, <1>5, <1>6, <2>1, <2>2, <2>3
    <2> QED BY <2>4 DEF a, b, c
  <1> QED BY <1>3, <1>7, <1>9 DEF Counted

LEMMA SecondPays ==
    ASSUME AllDeployable, WrittenOnce, Sound, Kept, Counted, SecondMoves
    PROVE  Counted'
  <1>1. /\ P2!TypeOK /\ P2!Timely /\ P2!Fresh /\ P2!Effective
        /\ P2!Unrepeated /\ P2!Constant /\ P2!Noted /\ P1!Noted
    BY DEF Sound, Kept, Counted, P2!Inv, P2!Own
  <1>2. /\ P2!WrittenOnce /\ P2!AllDeployable /\ [P2!Next]_P2!vars
        /\ UNCHANGED <<first, operator>>
    BY StepsOfEach, SecondAlike DEF SecondMoves, WrittenOnce, P2!WrittenOnce
  <1>3. /\ P2!Noted' /\ P1!Noted'
        /\ P1!Due' <=> P1!Due
    BY <1>1, <1>2, Assumptions, P2!NotedStep, FirstOwesStill
  <1>4. /\ edits' \in {edits, edits + 1} /\ faults' \in {faults, faults + 1}
        /\ pc2 # "deploy" /\ pc2' = "deploy" => P2!Due /\ ~P2!Due'
        /\ P2!Due' => P2!Due \/ edits' = edits + 1 \/ faults' = faults + 1
    BY <1>1, <1>2, Assumptions, P2!DueStep
  <1>5. \/ runs' = runs
        \/ runs' = runs + 1 /\ pc2 # "deploy" /\ pc2' = "deploy"
    BY DEF SecondMoves
  <1>6. edits \in Nat /\ faults \in Nat /\ runs \in Nat
    BY DEF Sound, P1!TypeOK, Counted
  <1>7. Reasons(P1!Due') = Reasons(P1!Due)
    BY <1>3 DEF Reasons
  <1>8. /\ Reasons(P1!Due) \in 0..1 /\ Reasons(P2!Due) \in 0..1
        /\ Reasons(P2!Due') \in 0..1
        /\ P2!Due <=> Reasons(P2!Due) = 1
        /\ P2!Due' <=> Reasons(P2!Due') = 1
    BY DEF Reasons
  <1>9. /\ runs' \in Nat
        /\ runs' + Reasons(P1!Due) + Reasons(P2!Due')
             <= edits' + 2 * faults'
    <2> DEFINE a == Reasons(P2!Due)
               b == Reasons(P1!Due)
               c == Reasons(P2!Due')
    <2>1. runs + a + b <= edits + 2 * faults
      BY <1>6, <1>8 DEF Counted
    <2>2. a \in 0..1 /\ b \in 0..1 /\ c \in 0..1
      BY <1>8
    <2>3. /\ pc2 # "deploy" /\ pc2' = "deploy" => a = 1 /\ c = 0
          /\ c = 1 => a = 1 \/ edits' = edits + 1 \/ faults' = faults + 1
      BY <1>4, <1>8
    <2> HIDE DEF a, b, c
    <2>4. runs' \in Nat /\ runs' + b + c <= edits' + 2 * faults'
      BY <1>4, <1>5, <1>6, <2>1, <2>2, <2>3
    <2> QED BY <2>4 DEF a, b, c
  <1> QED BY <1>3, <1>7, <1>9 DEF Counted

LEMMA CountedStep ==
    ASSUME AllDeployable, WrittenOnce, Sound, Kept, Counted, [Next]_vars
    PROVE  Counted'
  <1>1. CASE FirstMoves
    BY <1>1, FirstPays
  <1>2. CASE SecondMoves
    BY <1>2, SecondPays
  <1>3. CASE TimePasses \/ UNCHANGED vars
    <2>1. UNCHANGED <<first, second, operator, runs, edits, faults>>
      BY <1>3 DEF TimePasses, vars, first, second, P1!Tick, P1!object, P1!call,
                  P1!bounds, P2!Tick, P2!object, P2!call, P2!bounds
    <2> QED BY <2>1, FirstOwesStill, SecondOwesStill DEF Counted, Reasons
  <1>4. CASE BothRestart
    <2>1. /\ P1!Noted' /\ P2!Noted' /\ runs' = runs
          /\ edits' = edits /\ faults' = faults + 1
      BY <1>4, Assumptions, P1!NotedRelist, P2!NotedRelist DEF BothRestart, Counted
    <2>2. edits \in Nat /\ faults \in Nat
      BY DEF Sound, P1!TypeOK
    <2>3. /\ runs + Reasons(P1!Due) + Reasons(P2!Due) <= edits + 2 * faults
          /\ Reasons(P1!Due) \in 0..1 /\ Reasons(P2!Due) \in 0..1
          /\ Reasons(P1!Due') \in 0..1 /\ Reasons(P2!Due') \in 0..1
          /\ runs \in Nat
      BY DEF Counted, Reasons
    <2>4. runs + Reasons(P1!Due') + Reasons(P2!Due') <= edits + 2 * (faults + 1)
      BY <2>2, <2>3
    <2> QED BY <2>1, <2>2, <2>3, <2>4 DEF Counted
  <1> QED BY <1>1, <1>2, <1>3, <1>4, StepsAre

\* With nothing to fill in and nobody editing, every Helm run begun has a reason
\* of its own, a write or a failure: two objects that ask for different things
\* of the same releases do not take turns at undoing each other (Reconcile looks
\* at its own object only).
THEOREM RunsAreCounted ==
    ASSUME AllDeployable, WrittenOnce
    PROVE  Spec => []RunsHaveReasons
  <1>0. "handover" \notin Environment
    BY DEF WrittenOnce
  <1>1. Init => Counted
    <2>1. Init => /\ P1!Init /\ P2!Init /\ runs = 0
      BY FirstAgrees, SecondAgrees DEF Init
    <2>2. Init => /\ P1!Noted /\ P2!Noted /\ ~P1!Due /\ ~P2!Due
                  /\ edits = 0 /\ faults = 0
      BY <2>1 DEF P1!Init, P2!Init, P1!Noted, P2!Noted, P1!Due, P2!Due
    <2> QED BY <2>1, <2>2 DEF Counted, Reasons
  <1>2. Sound /\ Kept /\ Counted /\ [Next]_vars => Counted'
    BY CountedStep
  <1>3. Sound /\ Counted => RunsHaveReasons
    <2> SUFFICES ASSUME Sound, Counted PROVE RunsHaveReasons
      OBVIOUS
    <2>1. /\ Reasons(P1!Due) \in 0..1 /\ Reasons(P2!Due) \in 0..1
          /\ edits \in Nat /\ faults \in Nat /\ runs \in Nat
      BY DEF Reasons, Sound, P1!TypeOK, Counted
    <2> QED BY <2>1 DEF Counted, RunsHaveReasons
  <1> QED BY <1>0, <1>1, <1>2, <1>3, SoundAlways, StoryAlways, PTL DEF Spec

=============================================================================
