---------------------------- MODULE StatusProofs ----------------------------
(***************************************************************************)
(* Theorems about the status that users are shown, for every set of setups *)
(* and versions, every environment and every bound.                        *)
(***************************************************************************)
EXTENDS ReconcilerProofs

\* A call that will not requeue and changes nothing reports what is stored, and
\* has read an object that is Paused if it asks to be.
Shown ==
    pc \in {"patch", "status"} /\ ~requeue /\ Ineffective =>
        /\ LastStatus(obj.conditions) = LastStatus(base.conditions)
        /\ base.paused => LastStatus(base.conditions) = STATUS_PAUSED

\* A pause that is stamped again in its own second was the last word already,
\* and is again.
LEMMA PauseShows ==
    ASSUME TypeOK, Timely, ReconcilePaused, Ineffective'
    PROVE  /\ LastStatus(obj'.conditions) = STATUS_PAUSED
           /\ LastStatus(base'.conditions) = STATUS_PAUSED
  <1> DEFINE c == cache.conditions
  <1>1. /\ cache \in Toolkits /\ c \in ConditionMaps
        /\ clock \in Nat /\ operator \in Versions
    BY DEF ReconcilePaused, TypeOK, Toolkits
  <1>2. Dated(cache) /\ \A s \in Present(c) : c[s].frac = 0
    BY <1>1, ReconcilerAssumption DEF Timely
  <1>3. PICK version \in Versions :
          ToPaused(Annotated(cache)).conditions
            = Put(c, STATUS_PAUSED, Stamp(clock, version))
    <2>1. Dated(Annotated(cache)) /\ Annotated(cache) \in Toolkits
      BY <1>1, <1>2, AnnotatedType DEF Dated
    <2> QED BY <1>1, <2>1, AnnotatedType, ToPausedDated
  <1> DEFINE stamp == Stamp(clock, version)
             o == Put(c, STATUS_PAUSED, stamp)
  <1>4. obj'.conditions = o /\ base' = cache /\ Stored(o) = c
    BY <1>3 DEF ReconcilePaused, Proceed, Ineffective
  <1>5. STATUS_PAUSED \in Present(c) /\ c[STATUS_PAUSED].sec = clock
    BY <1>1, <1>4, StatusNames, StoredStamp
  <1>6. LastStatus(c) = STATUS_PAUSED
    BY <1>1, <1>2, <1>5, PausedIsLast DEF Dated
  <1>7. LastStatus(o) = STATUS_PAUSED
    <2>1. stamp \in Condition /\ stamp.sec = clock /\ stamp.frac = 1
      BY <1>1, StampType DEF Stamp
    <2> HIDE DEF stamp
    <2>2. /\ o \in ConditionMaps /\ o[STATUS_PAUSED] = stamp
          /\ STATUS_PAUSED \in Present(o)
          /\ Present(o) = Present(c) \cup {STATUS_PAUSED}
          /\ \A s \in Statuses \ {STATUS_PAUSED} : o[s] = c[s]
      BY <1>1, <2>1, StatusNames, PutType
    <2> HIDE DEF o
    <2>3. ASSUME NEW t \in Present(o) \ {STATUS_PAUSED}
          PROVE  Later(o[STATUS_PAUSED], o[t])
      <3>1. t \in Present(c) /\ o[t] = c[t]
        BY <2>2 DEF Present
      <3>2. c[t].frac = 0 /\ c[t].sec <= clock /\ c[t].sec \in Nat
        BY <1>1, <1>2, <3>1, PresentHasStamp DEF Dated
      <3> QED BY <1>1, <2>1, <2>2, <3>1, <3>2 DEF Later
    <2> QED BY <2>2, <2>3, LatestIsLast
  <1> QED BY <1>4, <1>6, <1>7

LEMMA ShownStep ==
    ASSUME TypeOK, Timely, Effective, Shown, [Next]_vars
    PROVE  Shown'
  <1>1. CASE IgnoreMissing
    BY <1>1 DEF IgnoreMissing, Reading, call, Shown
  <1>2. CASE ReconcilePaused
    BY <1>2, PauseShows DEF Shown
  <1>3. CASE StartUpdating
    BY <1>3, AnnouncementShows DEF Shown
  <1>4. CASE StayPut
    <2>1. cache \in Toolkits /\ ~cache.paused
      BY <1>4 DEF StayPut, Active, TypeOK
    <2> QED BY <1>4, <2>1, AnnotatedType DEF StayPut, Proceed, Shown
  <1>5. CASE WaitToRetry \/ PatchDefinition \/ RefuseToDeploy
    BY <1>5 DEF WaitToRetry, PatchDefinition, RefuseToDeploy, Proceed, Shown
  <1>6. CASE StartHelm
    <2>1. pc' = "deploy"
      BY <1>6 DEF StartHelm, Proceed
    <2> QED BY <2>1 DEF Shown
  <1>7. CASE HelmSucceeds
    BY <1>7, SuccessShows DEF Shown
  <1>8. CASE HelmRefuses \/ HelmFails
    BY <1>8 DEF HelmRefuses, HelmFails, HelmEnds, Shown
  <1>9. CASE PatchObject
    BY <1>9 DEF PatchObject, Shown, Ineffective
  <1>10. CASE \/ PatchStatus \/ PatchRejected \/ PatchFault
              \/ \E v \in Versions : Restart(v)
    <2>1. pc' = "idle"
      BY <1>10 DEF PatchStatus, PatchRejected, PatchFault, Return, Restart, Relist
    <2> QED BY <2>1 DEF Shown
  <1>11. CASE Sync \/ Tick \/ UserActs \/ Finalize \/ UNCHANGED vars
    <2>1. UNCHANGED call
      BY <1>11 DEF Sync, Tick, UserActs, Create, Edit, Replace, SetPaused, Delete,
                   DeleteForeground, UserWrites, Finalize, vars
    <2> QED BY <2>1 DEF call, Shown, Ineffective
  <1> QED BY <1>1, <1>2, <1>3, <1>4, <1>5, <1>6, <1>7, <1>8, <1>9, <1>10, <1>11
          DEF Next, Decide, Continue

LEMMA PauseStep ==
    ASSUME TypeOK, Fresh, Effective, Shown, PauseSettles, [Next]_vars
    PROVE  PauseSettles'
  <1> SUFFICES ASSUME Quiescent', cr' # Absent, cr'.paused
               PROVE  Last(cr)' = STATUS_PAUSED
    BY DEF PauseSettles
  <1>1. CASE PatchStatus /\ ~queued' /\ ~lagging'
    BY <1>1, QuietReturn DEF Shown, Last
  <1>2. CASE Quiescent /\ cr' = cr
    BY <1>2 DEF PauseSettles, Last
  <1> QED BY <1>1, <1>2, ComesToRest

LEMMA PhaseStep ==
    ASSUME TypeOK, Fresh, Effective, Shown, PhaseSettles, [Next]_vars
    PROVE  PhaseSettles'
  <1> SUFFICES ASSUME Quiescent', cr' # Absent
               PROVE  /\ cr'.phase = Last(cr)'
                      /\ cr'.version = cr'.conditions[Last(cr)'].version
    BY DEF PhaseSettles, Last
  <1>1. CASE PatchStatus /\ ~queued' /\ ~lagging'
    <2> DEFINE o == obj.conditions
               last == LastStatus(o)
    <2>1. /\ base \in Toolkits /\ cr = base /\ cr' = base
          /\ StatusPatched = base /\ pc = "status" /\ ~requeue /\ Ineffective
      BY <1>1, QuietReturn
    <2>2. o \in ConditionMaps /\ Present(o) # {}
      BY <2>1 DEF TypeOK, Toolkits
    <2>3. last \in Present(o) /\ Stored(o)[last].version = o[last].version
      BY <2>2, LastStatusIsBest, StoredType
    <2>4. base.conditions = Stored(o) /\ Last(base) = last
      BY <1>1, <2>1 DEF Shown, Ineffective, Last, PatchStatus
    <2>5. /\ StatusPatched.phase = Merged(base.phase, base.phase, last)
          /\ StatusPatched.version
               = Merged(base.version, base.version, o[last].version)
      BY <2>1 DEF StatusPatched, Toolkits
    <2>6. base.phase = last /\ base.version = o[last].version
      BY <2>1, <2>5 DEF Merged
    <2>7. Last(cr)' = last
      BY <2>1, <2>4 DEF Last
    <2> QED BY <2>1, <2>3, <2>4, <2>6, <2>7
  <1>2. CASE Quiescent /\ cr' = cr
    BY <1>2 DEF PhaseSettles, Last
  <1> QED BY <1>1, <1>2, ComesToRest

\* An object that asks to be paused ends up Paused, also when a Helm run that
\* was under way reports its result after the pause was asked for.
THEOREM PauseWins ==
    ASSUME "handover" \notin Environment
    PROVE  Spec => []PauseSettles
  <1>1. Init => Inv /\ Shown /\ PauseSettles
    BY InitInv DEF Init, Shown, PauseSettles
  <1>2. TypeOK /\ Inv /\ [Next]_vars => Inv'
    BY FreshStep, TimelyStep, EffectiveStep, SettledStep DEF Inv
  <1>3. TypeOK /\ Inv /\ Shown /\ PauseSettles /\ [Next]_vars
          => Shown' /\ PauseSettles'
    BY ShownStep, PauseStep DEF Inv
  <1> QED BY <1>1, <1>2, <1>3, TypeCorrect, PTL DEF Spec

\* The phase and the version of an object nobody will look at again are those
\* of its latest condition.
THEOREM PhaseIsTrue ==
    ASSUME "handover" \notin Environment
    PROVE  Spec => []PhaseSettles
  <1>1. Init => Inv /\ Shown /\ PhaseSettles
    BY InitInv DEF Init, Shown, PhaseSettles
  <1>2. TypeOK /\ Inv /\ [Next]_vars => Inv'
    BY FreshStep, TimelyStep, EffectiveStep, SettledStep DEF Inv
  <1>3. TypeOK /\ Inv /\ Shown /\ PhaseSettles /\ [Next]_vars
          => Shown' /\ PhaseSettles'
    BY ShownStep, PhaseStep DEF Inv
  <1> QED BY <1>1, <1>2, <1>3, TypeCorrect, PTL DEF Spec

-----------------------------------------------------------------------------
(* What is reported is what Helm installed.  The cache does not lag: a call *)
(* that read an object as it was before a later call could report a success *)
(* that has been undone.                                                    *)

\* A success these conditions tell of is the one Helm had with this version.
Told(conds) ==
    LastStatus(conds) = STATUS_SUCCESSFUL =>
        /\ deployed \in Deployments
        /\ deployed.version = conds[STATUS_SUCCESSFUL].version

\* The stored conditions are those the call in flight has read, unless the
\* object was created again; what they tell is true, and so is what the call is
\* about to store.
Truthful ==
    /\ pc # "idle" /\ cr # Absent =>
         cr.conditions \in {base.conditions, NoConditions}
    /\ cr # Absent => Told(cr.conditions)
    /\ pc \in {"patch", "status"} => Told(Stored(obj.conditions))

\* A call that leaves a success alone has found the operator's version in it.
Current ==
    /\ pc \in {"patch", "status"} /\ ~requeue /\ Ineffective
    /\ ~base.paused /\ LastStatus(base.conditions) = STATUS_SUCCESSFUL
    => base.conditions[STATUS_SUCCESSFUL].version = operator

\* A stamp of the present second becomes the last word, or leaves the last word
\* and its version as they are: the two may be of one second, and then it is
\* the order of the list that decides.
LEMMA LastOfPut ==
    ASSUME NEW c \in ConditionMaps, NEW s \in Statuses,
           NEW now \in Nat, NEW version \in Versions,
           \A t \in Present(c) : c[t].frac = 0 /\ c[t].sec <= now,
           LastStatus(Stored(Put(c, s, Stamp(now, version)))) # s
    PROVE  LET d == Stored(Put(c, s, Stamp(now, version)))
           IN  /\ LastStatus(d) = LastStatus(c)
               /\ LastStatus(c) \in Present(c)
               /\ d[LastStatus(c)].version = c[LastStatus(c)].version
               /\ d[LastStatus(c)].sec = c[LastStatus(c)].sec
  <1> DEFINE stamp == Stamp(now, version)
             o == Put(c, s, stamp)
             d == Stored(o)
             last == LastStatus(d)
  <1>1. stamp \in Condition /\ stamp.sec = now
    BY StampType DEF Stamp
  <1>2. last # s
    OBVIOUS
  <1> HIDE DEF stamp
  <1>3. /\ o \in ConditionMaps /\ o[s] = stamp
        /\ \A t \in Statuses \ {s} : o[t] = c[t]
        /\ Present(o) = Present(c) \cup {s}
    BY <1>1, PutType
  <1> HIDE DEF o
  <1>4. /\ d \in ConditionMaps /\ Present(d) = Present(o)
        /\ \A t \in Present(o) : /\ d[t].sec = o[t].sec /\ d[t].frac = 0
                                 /\ d[t].version = o[t].version
    BY <1>3, StoredType
  <1> HIDE DEF d
  <1>5. last \in Present(d) /\ \A t \in Present(d) : Beats(d, last, t)
    BY <1>3, <1>4, LastStatusIsBest
  <1> HIDE DEF last
  <1>6. /\ last \in Present(c) /\ last \in Statuses
        /\ d[last].version = c[last].version
        /\ d[last].sec = c[last].sec
    BY <1>2, <1>3, <1>4, <1>5 DEF Present
  <1>7. ASSUME NEW t \in Present(c) \ {last}
        PROVE  \/ Later(c[last], c[t])
               \/ /\ ~Later(c[t], c[last])
                  /\ Position[last] < Position[t]
    <2>1. /\ t \in Present(d) /\ d[t].frac = 0 /\ d[last].frac = 0
          /\ c[t].frac = 0 /\ c[last].frac = 0
          /\ Beats(d, last, t)
      BY <1>3, <1>4, <1>5, <1>6
    <2>2. d[t].sec >= c[t].sec
      <3>1. CASE t = s
        BY <1>1, <1>3, <1>4, <3>1
      <3>2. CASE t # s
        <4>1. t \in Statuses /\ t \in Present(o)
          BY <1>3 DEF Present
        <4>2. d[t].sec = c[t].sec
          BY <1>3, <1>4, <3>2, <4>1
        <4> QED BY <4>2, PresentHasStamp
      <3> QED BY <3>1, <3>2
    <2>3. Position[last] # Position[t]
      <3>1. t \in Statuses /\ t # last
        BY DEF Present
      <3> QED BY <1>6, <3>1, Positions DEF Statuses
    <2>4. /\ c[t].sec \in Nat /\ c[last].sec \in Nat /\ d[t].sec \in Nat
          /\ Position[t] \in 1..4 /\ Position[last] \in 1..4
      BY <1>4, <1>6, <2>1, PresentHasStamp
    <2> QED BY <1>6, <2>1, <2>2, <2>3, <2>4 DEF Beats, Later
  <1>8. LastStatus(c) = last
    BY <1>6, <1>7, LatestIsLast
  <1> QED BY <1>6, <1>8 DEF last, d, o, stamp

\* A stamp for another status does not make a success the last word.
LEMMA NoNewSuccess ==
    ASSUME NEW c \in ConditionMaps, NEW s \in Statuses \ {STATUS_SUCCESSFUL},
           NEW now \in Nat, NEW version \in Versions,
           \A t \in Present(c) : c[t].frac = 0 /\ c[t].sec <= now,
           LastStatus(Stored(Put(c, s, Stamp(now, version)))) = STATUS_SUCCESSFUL
    PROVE  LET d == Stored(Put(c, s, Stamp(now, version)))
           IN  /\ LastStatus(c) = STATUS_SUCCESSFUL
               /\ d[STATUS_SUCCESSFUL].version = c[STATUS_SUCCESSFUL].version
               /\ d[STATUS_SUCCESSFUL].sec = c[STATUS_SUCCESSFUL].sec
  BY LastOfPut

\* What is stored already is stored as it is.
LEMMA StoredAgain ==
    ASSUME NEW c \in ConditionMaps, \A t \in Present(c) : c[t].frac = 0
    PROVE  Stored(c) = c
  <1>1. \A t \in Present(c) : [c[t] EXCEPT !.frac = 0] = c[t]
    BY PresentHasStamp DEF Condition
  <1> QED BY <1>1 DEF Stored, ConditionMaps, Present

\* What a call that has read a true story is about to store is true.
LEMMA ProceedTells ==
    ASSUME TypeOK, Timely, Decide, ~IgnoreMissing, Told(cache.conditions)
    PROVE  /\ cache # Absent /\ base' = cache /\ cr' = cr
           /\ deployed' = deployed /\ operator' = operator
           /\ pc' = "patch" => Told(Stored(obj'.conditions))
  <1> DEFINE c == cache.conditions
  <1>1. /\ cache # Absent /\ base' = cache /\ cr' = cr
        /\ deployed' = deployed /\ operator' = operator
    BY DEF Decide, ReconcilePaused, StartUpdating, StayPut, WaitToRetry,
           PatchDefinition, RefuseToDeploy, StartHelm, Proceed, MustUpdate, Active
  <1>2. /\ cache \in Toolkits /\ c \in ConditionMaps /\ Dated(cache)
        /\ \A s \in Present(c) : c[s].frac = 0 /\ c[s].sec <= clock
        /\ clock \in Nat /\ operator \in Versions
        /\ cache.setup \in Setups
    BY <1>1, ReconcilerAssumption DEF TypeOK, Timely, Toolkits, Dated
  <1>3. ASSUME NEW s \in Statuses \ {STATUS_SUCCESSFUL}, NEW v \in Versions
        PROVE  Told(Stored(Put(c, s, Stamp(clock, v))))
    BY <1>2, NoNewSuccess DEF Told
  <1>4. /\ STATUS_PAUSED \in Statuses \ {STATUS_SUCCESSFUL}
        /\ STATUS_UPDATING \in Statuses \ {STATUS_SUCCESSFUL}
        /\ STATUS_FAILED \in Statuses \ {STATUS_SUCCESSFUL}
    BY StatusNames
  <1>5. /\ Annotated(cache) \in Toolkits
        /\ Annotated(cache).conditions = c /\ Dated(Annotated(cache))
    BY <1>2, AnnotatedType DEF Dated
  <1>6. CASE ReconcilePaused
    <2>1. obj' = ToPaused(Annotated(cache))
      BY <1>6 DEF ReconcilePaused, Proceed
    <2> QED BY <1>1, <1>2, <1>3, <1>4, <1>5, <2>1, ToPausedDated
  <1>7. CASE StartUpdating
    <2>1. obj' = ToUpdating(cache, Hash(cache.setup))
      BY <1>7 DEF StartUpdating, Proceed
    <2> QED BY <1>1, <1>2, <1>3, <1>4, <2>1, ToUpdatingDated
  <1>8. CASE PatchDefinition
    <2>1. PICK r : obj' = [ToUpdating(cache, Hash(cache.setup)) EXCEPT !.setup = r]
      BY <1>8 DEF PatchDefinition, Proceed
    <2>2. ToUpdating(cache, Hash(cache.setup)) \in Toolkits
      BY <1>2, ToUpdatingType DEF Hashes
    <2>3. obj'.conditions = ToUpdating(cache, Hash(cache.setup)).conditions
      BY <2>1, <2>2 DEF Toolkits
    <2> QED BY <1>1, <1>2, <1>3, <1>4, <2>3, ToUpdatingDated
  <1>9. CASE RefuseToDeploy
    <2>1. obj' = Marked(Annotated(cache), STATUS_FAILED)
      BY <1>9 DEF RefuseToDeploy, Proceed
    <2>2. obj'.conditions = Put(c, STATUS_FAILED, Stamp(clock, operator))
      BY <1>5, <2>1 DEF Marked, Toolkits
    <2> QED BY <1>1, <1>2, <1>3, <1>4, <2>2
  <1>10. CASE StayPut \/ WaitToRetry
    <2>1. obj' = Annotated(cache)
      BY <1>10 DEF StayPut, WaitToRetry, Proceed
    <2>2. Stored(obj'.conditions) = c
      BY <1>2, <1>5, <2>1, StoredAgain
    <2> QED BY <1>1, <2>2
  <1>11. CASE StartHelm
    <2>1. pc' = "deploy"
      BY <1>11 DEF StartHelm, Proceed
    <2> QED BY <1>1, <2>1
  <1> QED BY <1>6, <1>7, <1>8, <1>9, <1>10, <1>11 DEF Decide

\* A Helm run ends with a story that is true: its own success, or no success.
LEMMA HelmTells ==
    ASSUME TypeOK, Timely, Effective, HelmSucceeds \/ HelmRefuses \/ HelmFails
    PROVE  Told(Stored(obj.conditions))'
  <1> DEFINE b == base.conditions
  <1>1. /\ pc = "deploy" /\ obj.conditions = b
        /\ LastStatus(b) = STATUS_UPDATING
        /\ base \in Toolkits /\ b \in ConditionMaps /\ obj \in Toolkits
        /\ clock \in Nat /\ operator \in Versions
    BY DEF HelmSucceeds, HelmRefuses, HelmFails, Effective, TypeOK, Toolkits
  <1>2. \A s \in Statuses : Marked(obj, s).conditions
                              = Put(b, s, Stamp(clock, operator))
    BY <1>1 DEF Marked, Toolkits
  <1>3. CASE HelmSucceeds
    <2> DEFINE stamp == Stamp(clock, operator)
               o == Put(b, STATUS_SUCCESSFUL, stamp)
    <2>1. stamp \in Condition /\ stamp.version = operator
      BY <1>1, StampType DEF Stamp
    <2>2. /\ obj'.conditions = o
          /\ deployed' = [setup |-> obj.setup, version |-> operator]
          /\ obj.setup \in Setups
      BY <1>1, <1>2, <1>3, StatusNames DEF HelmSucceeds, HelmEnds, Toolkits
    <2> HIDE DEF stamp
    <2>3. /\ o \in ConditionMaps /\ o[STATUS_SUCCESSFUL] = stamp
          /\ STATUS_SUCCESSFUL \in Present(o)
      BY <1>1, <2>1, StatusNames, PutType
    <2> HIDE DEF o
    <2>4. Stored(o)[STATUS_SUCCESSFUL].version = operator
      BY <2>1, <2>3, StoredType
    <2>5. deployed' \in Deployments /\ deployed'.version = operator
      BY <1>1, <2>2 DEF Deployments
    <2> QED BY <2>2, <2>4, <2>5 DEF Told
  <1>4. CASE HelmRefuses \/ HelmFails
    <2>1. obj'.conditions = Put(b, STATUS_FAILED, Stamp(clock, operator))
      BY <1>2, <1>4, StatusNames DEF HelmRefuses, HelmFails, HelmEnds
    <2>2. \A t \in Present(b) : b[t].frac = 0 /\ b[t].sec <= clock
      BY <1>1, ReconcilerAssumption DEF Timely, Dated
    <2>3. LastStatus(Stored(obj'.conditions)) # STATUS_SUCCESSFUL
      BY <1>1, <2>1, <2>2, StatusNames, NoNewSuccess
    <2> QED BY <2>3 DEF Told
  <1> QED BY <1>3, <1>4

LEMMA TruthfulStep ==
    ASSUME "lag" \notin Environment,
           TypeOK, Timely, Fresh, Effective, Truthful, [Next]_vars
    PROVE  Truthful'
  <1>1. /\ NoConditions \in ConditionMaps
        /\ LastStatus(NoConditions) # STATUS_SUCCESSFUL
    BY NoConditionsType, LastStatusType, StatusNames
  <1>2. CASE Decide /\ ~IgnoreMissing
    <2>1. cache = cr /\ pc' # "status"
      BY <1>2 DEF Decide, ReconcilePaused, StartUpdating, StayPut, WaitToRetry,
             PatchDefinition, RefuseToDeploy, StartHelm, MustUpdate, Active,
             Reading, Fresh, Proceed
    <2>2. cache # Absent
      BY <1>2 DEF Decide, ReconcilePaused, StartUpdating, StayPut, WaitToRetry,
           PatchDefinition, RefuseToDeploy, StartHelm, MustUpdate, Active
    <2>3. /\ Told(cache.conditions) /\ cr' = cr /\ base' = cache
          /\ deployed' = deployed
          /\ pc' = "patch" => Told(Stored(obj'.conditions))
      BY <1>2, <2>1, <2>2, ProceedTells DEF Truthful
    <2> QED BY <2>1, <2>3 DEF Truthful, Told
  <1>3. CASE HelmSucceeds \/ HelmRefuses \/ HelmFails
    <2>1. /\ pc = "deploy" /\ pc' = "patch" /\ cr' = cr /\ base' = base
          /\ LastStatus(base.conditions) = STATUS_UPDATING
      BY <1>3 DEF HelmSucceeds, HelmRefuses, HelmFails, HelmEnds, object, Effective
    <2>2. cr # Absent => LastStatus(cr.conditions) # STATUS_SUCCESSFUL
      BY <1>1, <2>1, StatusNames DEF Truthful
    <2> QED BY <1>3, <2>1, <2>2, HelmTells DEF Truthful, Told
  <1>4. CASE PatchObject
    <2>1. /\ pc = "patch" /\ pc' = "status" /\ cr # Absent /\ cr' = Patched
          /\ base' = base /\ obj' = obj /\ deployed' = deployed
      BY <1>4 DEF PatchObject
    <2>2. cr'.conditions = cr.conditions
      BY <2>1 DEF TypeOK, Patched, Toolkits
    <2> QED BY <2>1, <2>2 DEF Truthful, Told
  <1>5. ASSUME pc = "status", pc' = "idle", cr # Absent, cr' = StatusPatched,
               deployed' = deployed
        PROVE  Truthful'
    <2>1. cr'.conditions \in {cr.conditions, Stored(obj.conditions)}
      BY <1>5 DEF TypeOK, StatusPatched, Merged, Toolkits
    <2> QED BY <1>5, <2>1 DEF Truthful, Told
  <1>6. CASE PatchStatus \/ PatchRejected \/ PatchFault
    <2>1. /\ pc' = "idle" /\ deployed' = deployed
          /\ \/ cr' \in {cr, Patched}
             \/ pc = "status" /\ cr' = StatusPatched
          /\ cr' # cr => cr # Absent /\ pc # "idle"
      BY <1>6 DEF PatchStatus, PatchRejected, PatchFault, Return
    <2>2. CASE cr' \in {cr, Patched}
      <3>1. cr' # Absent => cr # Absent /\ cr'.conditions = cr.conditions
        BY <2>1, <2>2 DEF TypeOK, Patched, Toolkits
      <3> QED BY <2>1, <2>2, <3>1 DEF Truthful, Told
    <2>3. CASE pc = "status" /\ cr' = StatusPatched /\ cr' # cr
      BY <1>5, <2>1, <2>3
    <2> QED BY <2>1, <2>2, <2>3
  <1>7. ASSUME NEW v \in Versions, Restart(v)
        PROVE  Truthful'
    <2>1. /\ pc' = "idle" /\ cr' = cr
          /\ \/ deployed' = deployed
             \/ pc = "deploy"
      BY <1>7 DEF Restart, Relist
    <2>2. pc = "deploy" /\ cr # Absent
            => LastStatus(cr.conditions) # STATUS_SUCCESSFUL
      BY <1>1, StatusNames DEF Truthful, Effective
    <2> QED BY <2>1, <2>2 DEF Truthful, Told
  <1>8. ASSUME UNCHANGED <<pc, base, obj, deployed>>,
               cr' # Absent => \/ cr'.conditions = NoConditions
                               \/ cr # Absent /\ cr'.conditions = cr.conditions
        PROVE  Truthful'
    BY <1>1, <1>8 DEF Truthful, Told
  <1>9. CASE UserActs
    <2>1. UNCHANGED <<pc, base, obj, deployed>>
      BY <1>9 DEF UserActs, Create, Edit, Replace, SetPaused, Delete,
                  DeleteForeground, UserWrites, call
    <2>2. cr' # Absent => \/ cr'.conditions = NoConditions
                          \/ cr # Absent /\ cr'.conditions = cr.conditions
      <3>1. ASSUME NEW s, NEW p, NEW a, Create(s, p, a)
            PROVE  cr'.conditions = NoConditions
        BY <3>1 DEF Create, UserWrites
      <3>2. ASSUME cr # Absent, NEW s, NEW p,
                   \/ cr' = [cr EXCEPT !.setup = s]
                   \/ cr' = [cr EXCEPT !.setup = s, !.ann = NoAnnotations]
                   \/ cr' = [cr EXCEPT !.paused = p]
                   \/ cr' = [cr EXCEPT !.terminating = TRUE]
            PROVE  cr'.conditions = cr.conditions
        BY <3>2 DEF TypeOK, Toolkits
      <3>3. CASE Delete
        BY <3>3 DEF Delete, UserWrites
      <3>4. CASE (\E s \in Inputs : Edit(s) \/ Replace(s))
                 \/ (\E p \in BOOLEAN : SetPaused(p)) \/ DeleteForeground
        BY <3>2, <3>4 DEF Edit, Replace, SetPaused, DeleteForeground, UserWrites
      <3> QED BY <1>9, <3>1, <3>3, <3>4 DEF UserActs
    <2> QED BY <1>8, <2>1, <2>2
  <1>10. CASE IgnoreMissing \/ Sync \/ Tick \/ Finalize \/ UNCHANGED vars
    BY <1>8, <1>10 DEF IgnoreMissing, Sync, Tick, Finalize, vars, call, object
  <1> QED BY <1>2, <1>3, <1>4, <1>5, <1>6, <1>7, <1>9, <1>10
          DEF Next, Decide, Continue

LEMMA CurrentStep ==
    ASSUME TypeOK, Timely, Effective, Current, [Next]_vars
    PROVE  Current'
  <1>1. CASE IgnoreMissing
    BY <1>1 DEF IgnoreMissing, Reading, call, Current
  <1>2. CASE ReconcilePaused
    BY <1>2 DEF ReconcilePaused, Proceed, Current
  <1>3. CASE StartUpdating
    BY <1>3, AnnouncementShows DEF Current
  <1>4. CASE StayPut
    <2>1. /\ base' = cache /\ operator' = operator
          /\ LastStatus(cache.conditions) = STATUS_SUCCESSFUL
               => ~DeploymentStale(cache)
      BY <1>4, StatusNames DEF StayPut, Proceed, MustUpdate, Active
    <2> QED BY <2>1 DEF Current, DeploymentStale
  <1>5. CASE WaitToRetry \/ PatchDefinition \/ RefuseToDeploy
    BY <1>5 DEF WaitToRetry, PatchDefinition, RefuseToDeploy, Proceed, Current
  <1>6. CASE StartHelm
    <2>1. pc' = "deploy"
      BY <1>6 DEF StartHelm, Proceed
    <2> QED BY <2>1 DEF Current
  <1>7. CASE HelmSucceeds
    BY <1>7, SuccessShows DEF Current
  <1>8. CASE HelmRefuses \/ HelmFails
    BY <1>8 DEF HelmRefuses, HelmFails, HelmEnds, Current
  <1>9. CASE PatchObject
    BY <1>9 DEF PatchObject, Current, Ineffective
  <1>10. CASE \/ PatchStatus \/ PatchRejected \/ PatchFault
              \/ \E v \in Versions : Restart(v)
    <2>1. pc' = "idle"
      BY <1>10 DEF PatchStatus, PatchRejected, PatchFault, Return, Restart, Relist
    <2> QED BY <2>1 DEF Current
  <1>11. CASE Sync \/ Tick \/ UserActs \/ Finalize \/ UNCHANGED vars
    <2>1. UNCHANGED <<call, operator>>
      BY <1>11 DEF Sync, Tick, UserActs, Create, Edit, Replace, SetPaused, Delete,
                   DeleteForeground, UserWrites, Finalize, vars
    <2> QED BY <2>1 DEF call, Current, Ineffective
  <1> QED BY <1>1, <1>2, <1>3, <1>4, <1>5, <1>6, <1>7, <1>8, <1>9, <1>10, <1>11
          DEF Next, Decide, Continue

\* While nobody looks at an object, neither the operator nor Helm changes.
LEMMA NothingStirs ==
    ASSUME Quiescent, Quiescent', cr # Absent, [Next]_vars
    PROVE  UNCHANGED <<deployed, operator>>
  <1>1. CASE Decide
    BY <1>1 DEF Decide, Quiescent, IgnoreMissing, ReconcilePaused, StartUpdating,
           StayPut, WaitToRetry, PatchDefinition, RefuseToDeploy, StartHelm,
           MustUpdate, Active, Reading
  <1>2. CASE Continue
    BY <1>2 DEF Continue, Quiescent, HelmSucceeds, HelmRefuses, HelmFails,
           PatchObject, PatchStatus, PatchRejected, PatchFault
  <1>3. CASE Sync \/ Tick \/ UserActs \/ Finalize \/ UNCHANGED vars
    BY <1>3 DEF Sync, Tick, UserActs, Create, Edit, Replace, SetPaused, Delete,
                DeleteForeground, UserWrites, Finalize, vars
  <1>4. CASE \E v \in Versions : Restart(v)
    BY <1>4 DEF Restart, Relist, Quiescent
  <1> QED BY <1>1, <1>2, <1>3, <1>4 DEF Next

\* What is reported is of the version of the operator that runs.
VersionShown ==
    Reported => cr.conditions[STATUS_SUCCESSFUL].version = operator

LEMMA VersionShownStep ==
    ASSUME TypeOK, Fresh, Effective, Current, VersionShown, [Next]_vars
    PROVE  VersionShown'
  <1> SUFFICES ASSUME Reported'
               PROVE  cr'.conditions[STATUS_SUCCESSFUL].version = operator'
    BY DEF VersionShown
  <1>1. /\ Quiescent' /\ cr' # Absent /\ ~cr'.paused
        /\ LastStatus(cr'.conditions) = STATUS_SUCCESSFUL
    BY DEF Reported, Last
  <1>2. CASE PatchStatus /\ ~queued' /\ ~lagging'
    <2>1. /\ cr' = base /\ pc = "status" /\ ~requeue /\ Ineffective
          /\ operator' = operator
      BY <1>2, QuietReturn DEF PatchStatus, Return
    <2> QED BY <1>1, <2>1 DEF Current
  <1>3. CASE Quiescent /\ cr' = cr
    <2>1. Reported /\ operator' = operator
      BY <1>1, <1>3, NothingStirs DEF Reported, Last
    <2> QED BY <1>3, <2>1 DEF VersionShown
  <1> QED BY <1>1, <1>2, <1>3, ComesToRest

LEMMA VersionStep ==
    ASSUME TypeOK, Fresh, Effective, Current, Truthful', VersionInSync, [Next]_vars
    PROVE  VersionInSync'
  <1>1. VersionShown'
    BY VersionShownStep DEF VersionShown, VersionInSync
  <1>2. Reported' => cr' # Absent /\ LastStatus(cr'.conditions) = STATUS_SUCCESSFUL
    BY DEF Reported, Last
  <1> QED BY <1>1, <1>2 DEF VersionShown, VersionInSync, Truthful, Told

\* An object that is reported as deployed was deployed by the version of the
\* operator that runs, and says so, unless a call may read what an earlier call
\* has overwritten.
THEOREM VersionIsTrue ==
    ASSUME "lag" \notin Environment, "handover" \notin Environment
    PROVE  Spec => []VersionInSync
  <1>1. Init => Inv /\ Truthful /\ Current /\ VersionInSync
    BY InitInv DEF Init, Truthful, Current, VersionInSync, Reported
  <1>2. TypeOK /\ Inv /\ [Next]_vars => Inv'
    BY FreshStep, TimelyStep, EffectiveStep, SettledStep DEF Inv
  <1>3. TypeOK /\ Inv /\ Truthful /\ Current /\ VersionInSync /\ [Next]_vars
          => Truthful' /\ Current' /\ VersionInSync'
    BY TruthfulStep, CurrentStep, VersionStep DEF Inv
  <1> QED BY <1>1, <1>2, <1>3, TypeCorrect, PTL DEF Spec

-----------------------------------------------------------------------------
(* The operator keeps the promise of Lifecycle, if the cache does not lag   *)
(* and no object is created again under a call that has read the old one:  *)
(* such a call writes the old status to the new object, which the state    *)
(* machine has no transition for.                                          *)

\* There is one object only, and nobody but the call in flight writes its
\* conditions: not to be proved of an object that is created again.
Unrepeated ==
    /\ pc # "idle" \/ cr # Absent \/ cache # Absent => asked # <<>>
    /\ pc # "idle" /\ cr # Absent => cr.conditions = base.conditions

\* A transition of Lifecycle, or none.
Legal(from, to) ==
    \/ to = from
    \/ to = STATUS_PAUSED
    \/ /\ to = STATUS_UPDATING
       /\ from \in {STATUS_UNKNOWN, STATUS_SUCCESSFUL, STATUS_FAILED}
    \/ from = STATUS_UPDATING /\ to \in {STATUS_SUCCESSFUL, STATUS_FAILED}

\* What the call in flight is about to store is a transition from what it read.
Announced ==
    pc \in {"patch", "status"} =>
        Legal(LastStatus(base.conditions), LastStatus(Stored(obj.conditions)))

\* What the users and the API server write to the spec and the metadata leaves
\* the conditions alone.
LEMMA WritesKeepConditions ==
    ASSUME TypeOK, cr # Absent, NEW s, NEW a
    PROVE  /\ [cr EXCEPT !.setup = s].conditions = cr.conditions
           /\ [cr EXCEPT !.setup = s, !.ann = a].conditions = cr.conditions
           /\ [cr EXCEPT !.paused = a].conditions = cr.conditions
           /\ [cr EXCEPT !.terminating = a].conditions = cr.conditions
           /\ Patched.conditions = cr.conditions
  BY DEF TypeOK, Patched, Toolkits

\* Without recreate, the user creates the object once.
LEMMA UserActsUnrepeated ==
    ASSUME "recreate" \notin Environment, TypeOK, Unrepeated, UserActs
    PROVE  /\ UNCHANGED <<pc, base, obj, cache, deployed>>
           /\ asked' # <<>>
           /\ \/ /\ cr = Absent /\ cr' # Absent /\ pc = "idle"
                 /\ cr'.conditions = NoConditions
              \/ cr # Absent /\ cr' # Absent /\ cr'.conditions = cr.conditions
              \/ cr # Absent /\ cr' = Absent
  <1>1. \A s \in Inputs : Append(asked, s) # <<>>
    BY DEF TypeOK
  <1>2. ASSUME NEW s \in Inputs, NEW p \in BOOLEAN,
               NEW a \in {NoAnnotations, NoHash}, Create(s, p, a)
        PROVE  /\ UNCHANGED <<pc, base, obj, cache, deployed>>
               /\ asked' # <<>> /\ cr = Absent /\ pc = "idle"
               /\ cr' # Absent /\ cr'.conditions = NoConditions
    <2>1. asked = <<>> /\ pc = "idle"
      BY <1>2 DEF Create, Unrepeated
    <2>2. cr' # Absent
      <3>1. TypeOK'
        BY UserActsType
      <3>2. cr'.paused = p
        BY <1>2 DEF Create, UserWrites
      <3>3. cr' = [setup |-> s, paused |-> p, ann |-> a, terminating |-> FALSE,
                   conditions |-> NoConditions, phase |-> STATUS_UNKNOWN,
                   version |-> Empty]
        BY <1>2 DEF Create, UserWrites
      <3>4. cr' \in Toolkits
        BY <3>3, ReconcilerAssumption, NoConditionsType DEF Toolkits
      <3> QED BY <3>4, ReconcilerAssumption
    <2> QED BY <1>1, <1>2, <2>1, <2>2 DEF Create, UserWrites, call
  <1>3. ASSUME cr # Absent
        PROVE  asked # <<>>
    BY <1>3 DEF Unrepeated
  <1>4. ASSUME cr # Absent, NEW o \in Toolkits, UserWrites(o),
               o.conditions = cr.conditions, asked' # <<>>
        PROVE  /\ UNCHANGED <<pc, base, obj, cache, deployed>>
               /\ cr' # Absent /\ cr'.conditions = cr.conditions
    BY <1>4, ReconcilerAssumption DEF UserWrites, call
  <1>5. ASSUME NEW s \in Inputs, Edit(s) \/ Replace(s)
        PROVE  /\ UNCHANGED <<pc, base, obj, cache, deployed>>
               /\ asked' # <<>> /\ cr # Absent
               /\ cr' # Absent /\ cr'.conditions = cr.conditions
    <2>1. cr \in Toolkits /\ cr # Absent /\ asked' # <<>> /\ s \in Setups
      BY <1>1, <1>5, ReconcilerAssumption DEF Edit, Replace, Ask, TypeOK
    <2>2. /\ [cr EXCEPT !.setup = s] \in Toolkits
          /\ [cr EXCEPT !.setup = s, !.ann = NoAnnotations] \in Toolkits
      BY <2>1 DEF Toolkits
    <2> QED BY <1>4, <1>5, <2>1, <2>2, WritesKeepConditions DEF Edit, Replace
  <1>6. ASSUME NEW p \in BOOLEAN, SetPaused(p) \/ DeleteForeground
        PROVE  /\ UNCHANGED <<pc, base, obj, cache, deployed>>
               /\ asked' # <<>> /\ cr # Absent
               /\ cr' # Absent /\ cr'.conditions = cr.conditions
    <2>1. cr \in Toolkits /\ cr # Absent /\ asked' # <<>>
      BY <1>3, <1>6 DEF SetPaused, DeleteForeground, TypeOK
    <2>2. /\ [cr EXCEPT !.paused = p] \in Toolkits
          /\ [cr EXCEPT !.terminating = TRUE] \in Toolkits
      BY <2>1 DEF Toolkits
    <2> QED BY <1>4, <1>6, <2>1, <2>2, WritesKeepConditions
            DEF SetPaused, DeleteForeground
  <1>7. CASE Delete
    BY <1>3, <1>7 DEF Delete, UserWrites, call
  <1> QED BY <1>2, <1>5, <1>6, <1>7 DEF UserActs

LEMMA UnrepeatedStep ==
    ASSUME "lag" \notin Environment, "recreate" \notin Environment,
           TypeOK, Fresh, Unrepeated, [Next]_vars
    PROVE  Unrepeated'
  <1>1. CASE Decide
    <2>1. CASE IgnoreMissing
      BY <2>1 DEF IgnoreMissing, object, call, bounds, Unrepeated
    <2>2. CASE ~IgnoreMissing
      <3>1. /\ cache = cr /\ cache # Absent /\ UNCHANGED <<cr, asked>>
            /\ base' = cache
        BY <1>1, <2>2 DEF Decide, ReconcilePaused, StartUpdating, StayPut,
             WaitToRetry, PatchDefinition, RefuseToDeploy, StartHelm, MustUpdate,
             Active, Reading, Fresh, Proceed, bounds
      <3> QED BY <3>1 DEF Unrepeated
    <2> QED BY <2>1, <2>2
  <1>2. CASE HelmSucceeds \/ HelmRefuses \/ HelmFails
    BY <1>2 DEF HelmSucceeds, HelmRefuses, HelmFails, HelmEnds, object, Unrepeated
  <1>3. CASE PatchObject
    <2>1. /\ pc' = "status" /\ cr # Absent /\ cr' = Patched /\ base' = base
          /\ asked' = asked /\ pc = "patch"
      BY <1>3 DEF PatchObject, bounds
    <2> QED BY <2>1, WritesKeepConditions DEF Unrepeated
  <1>4. CASE PatchStatus \/ PatchRejected \/ PatchFault
    <2>1. pc' = "idle" /\ asked' = asked /\ cache' = cache /\ pc # "idle"
      BY <1>4 DEF PatchStatus, PatchRejected, PatchFault, Return
    <2> QED BY <2>1 DEF Unrepeated
  <1>5. CASE UserActs
    BY <1>5, UserActsUnrepeated DEF Unrepeated
  <1>6. CASE Sync \/ Tick \/ UNCHANGED vars
    BY <1>6 DEF Sync, Tick, vars, object, call, bounds, Unrepeated
  <1>7. CASE Finalize
    BY <1>7 DEF Finalize, call, bounds, Unrepeated
  <1>8. ASSUME NEW v \in Versions, Restart(v)
        PROVE  Unrepeated'
    BY <1>8 DEF Restart, Relist, Unrepeated
  <1> QED BY <1>1, <1>2, <1>3, <1>4, <1>5, <1>6, <1>7, <1>8 DEF Next, Continue

\* Every branch of Reconcile prepares a transition, or none.
LEMMA ProceedAnnounces ==
    ASSUME TypeOK, Timely, Decide, ~IgnoreMissing
    PROVE  Announced'
  <1> DEFINE c == cache.conditions
             last == LastStatus(c)
  <1>1. cache # Absent /\ base' = cache
    BY DEF Decide, ReconcilePaused, StartUpdating, StayPut, WaitToRetry,
           PatchDefinition, RefuseToDeploy, StartHelm, Proceed, MustUpdate, Active
  <1>2. /\ cache \in Toolkits /\ c \in ConditionMaps /\ Dated(cache)
        /\ \A s \in Present(c) : c[s].frac = 0 /\ c[s].sec <= clock
        /\ clock \in Nat /\ operator \in Versions
    BY <1>1, ReconcilerAssumption DEF TypeOK, Timely, Toolkits, Dated
  <1>3. ASSUME NEW s \in Statuses, NEW v \in Versions,
               obj'.conditions = Put(c, s, Stamp(clock, v)),
               Legal(last, s)
        PROVE  Announced'
    <2>1. LastStatus(Stored(obj'.conditions)) \in {last, s}
      BY <1>2, <1>3, LastOfPut
    <2> QED BY <1>1, <1>3, <2>1 DEF Announced, Legal
  <1>4. /\ Annotated(cache) \in Toolkits
        /\ Annotated(cache).conditions = c /\ Dated(Annotated(cache))
    BY <1>2, AnnotatedType DEF Dated
  <1>5. CASE ReconcilePaused
    <2>1. obj' = ToPaused(Annotated(cache))
      BY <1>5 DEF ReconcilePaused, Proceed
    <2> QED BY <1>2, <1>3, <1>4, <2>1, StatusNames, ToPausedDated DEF Legal
  <1>6. CASE StartUpdating
    <2>1. obj' = ToUpdating(cache, Hash(cache.setup))
      BY <1>6 DEF StartUpdating, Proceed
    <2>2. Legal(last, STATUS_UPDATING)
      BY <1>6 DEF StartUpdating, MustUpdate, Active, Legal
    <2> QED BY <1>2, <1>3, <2>1, <2>2, StatusNames, ToUpdatingDated
  <1>7. CASE PatchDefinition
    <2>1. PICK r : obj' = [ToUpdating(cache, Hash(cache.setup)) EXCEPT !.setup = r]
      BY <1>7 DEF PatchDefinition, Proceed
    <2>2. ToUpdating(cache, Hash(cache.setup)) \in Toolkits
      BY <1>2, ToUpdatingType DEF Hashes, Toolkits
    <2>3. obj'.conditions = ToUpdating(cache, Hash(cache.setup)).conditions
      BY <2>1, <2>2 DEF Toolkits
    <2>4. Legal(last, STATUS_UPDATING)
      BY <1>7 DEF PatchDefinition, Active, Legal
    <2> QED BY <1>2, <1>3, <2>3, <2>4, StatusNames, ToUpdatingDated
  <1>8. CASE RefuseToDeploy
    <2>1. obj' = Marked(Annotated(cache), STATUS_FAILED)
      BY <1>8 DEF RefuseToDeploy, Proceed
    <2>2. obj'.conditions = Put(c, STATUS_FAILED, Stamp(clock, operator))
      BY <1>4, <2>1 DEF Marked, Toolkits
    <2>3. Legal(last, STATUS_FAILED)
      BY <1>8 DEF RefuseToDeploy, Active, Legal
    <2> QED BY <1>2, <1>3, <2>2, <2>3, StatusNames
  <1>9. CASE StayPut \/ WaitToRetry
    <2>1. obj' = Annotated(cache)
      BY <1>9 DEF StayPut, WaitToRetry, Proceed
    <2>2. Stored(obj'.conditions) = c
      BY <1>2, <1>4, <2>1, StoredAgain
    <2> QED BY <1>1, <2>2 DEF Announced, Legal
  <1>10. CASE StartHelm
    <2>1. pc' = "deploy"
      BY <1>10 DEF StartHelm, Proceed
    <2> QED BY <2>1 DEF Announced
  <1> QED BY <1>5, <1>6, <1>7, <1>8, <1>9, <1>10 DEF Decide

LEMMA AnnouncedStep ==
    ASSUME TypeOK, Timely, Effective, Announced, [Next]_vars
    PROVE  Announced'
  <1>1. CASE Decide /\ ~IgnoreMissing
    BY <1>1, ProceedAnnounces
  <1>2. CASE HelmSucceeds \/ HelmRefuses \/ HelmFails
    <2> DEFINE b == base.conditions
    <2>1. PICK s \in {STATUS_SUCCESSFUL, STATUS_FAILED} : obj' = Marked(obj, s)
      BY <1>2 DEF HelmSucceeds, HelmRefuses, HelmFails, HelmEnds
    <2>2. /\ base' = base /\ obj.conditions = b
          /\ LastStatus(b) = STATUS_UPDATING
          /\ base \in Toolkits /\ b \in ConditionMaps /\ obj \in Toolkits
          /\ clock \in Nat /\ operator \in Versions
      BY <1>2 DEF HelmSucceeds, HelmRefuses, HelmFails, HelmEnds, Effective,
                  TypeOK, Toolkits
    <2>3. obj'.conditions = Put(b, s, Stamp(clock, operator))
      BY <2>1, <2>2 DEF Marked, Toolkits
    <2>4. \A t \in Present(b) : b[t].frac = 0 /\ b[t].sec <= clock
      BY <2>2, ReconcilerAssumption DEF Timely, Dated
    <2>5. LastStatus(Stored(obj'.conditions)) \in {LastStatus(b), s}
      BY <2>2, <2>3, <2>4, StatusNames, LastOfPut
    <2> QED BY <2>1, <2>2, <2>5 DEF Announced, Legal
  <1>3. CASE PatchObject
    BY <1>3 DEF PatchObject, Announced
  <1>4. CASE \/ PatchStatus \/ PatchRejected \/ PatchFault
             \/ \E v \in Versions : Restart(v)
    <2>1. pc' = "idle"
      BY <1>4 DEF PatchStatus, PatchRejected, PatchFault, Return, Restart, Relist
    <2> QED BY <2>1 DEF Announced
  <1>5. CASE \/ IgnoreMissing \/ Sync \/ Tick \/ UserActs \/ Finalize
             \/ UNCHANGED vars
    <2>1. UNCHANGED call
      BY <1>5 DEF IgnoreMissing, Sync, Tick, UserActs, Create, Edit, Replace,
                  SetPaused, Delete, DeleteForeground, UserWrites, Finalize, vars
    <2> QED BY <2>1 DEF call, Announced
  <1> QED BY <1>1, <1>2, <1>3, <1>4, <1>5 DEF Next, Decide, Continue

\* A step of the operator, of Helm, of the API server or of a user is a step of
\* Lifecycle, or changes neither the status nor what is installed.
LEMMA LifecycleStep ==
    ASSUME "recreate" \notin Environment, TypeOK, Effective, Truthful,
           Unrepeated, Announced, [Next]_vars
    PROVE  [Promise!Next]_(Promise!vars)
  <1>0. /\ Status = IF cr = Absent THEN "Absent" ELSE LastStatus(cr.conditions)
        /\ Status' = IF cr' = Absent THEN "Absent" ELSE LastStatus(cr'.conditions)
    BY DEF Status
  <1>1. ASSUME deployed' = deployed,
               cr' # cr => /\ cr # Absent /\ cr' # Absent
                           /\ cr'.conditions = cr.conditions
        PROVE  [Promise!Next]_(Promise!vars)
    BY <1>0, <1>1 DEF Promise!vars
  <1>2. "Absent" \notin {STATUS_UNKNOWN} \cup Statuses
    BY DEF Statuses, STATUS_UNKNOWN, STATUS_PAUSED, STATUS_FAILED,
           STATUS_SUCCESSFUL, STATUS_UPDATING
  <1>3. cr # Absent => Status # "Absent"
    BY <1>0, <1>2, LastStatusType DEF TypeOK, Toolkits
  <1>4. ASSUME pc = "deploy"
        PROVE  Status \in {"Updating", "Absent"}
    BY <1>0, <1>4 DEF Unrepeated, Effective, STATUS_UPDATING
  <1>5. ASSUME pc = "deploy", cr' = cr, deployed' \in Deployments \cup {Partial}
        PROVE  [Promise!Next]_(Promise!vars)
    BY <1>0, <1>4, <1>5 DEF Promise!Next, Promise!Install, Promise!Gone
  <1>6. CASE Decide \/ Sync \/ Tick \/ UNCHANGED vars
    <2>1. deployed' = deployed /\ cr' = cr
      BY <1>6 DEF Decide, IgnoreMissing, ReconcilePaused, StartUpdating, StayPut,
            WaitToRetry, PatchDefinition, RefuseToDeploy, StartHelm, Proceed, Sync,
            Tick, vars, object
    <2> QED BY <1>1, <2>1
  <1>7. CASE HelmSucceeds \/ HelmRefuses \/ HelmFails
    <2>1. pc = "deploy" /\ cr' = cr /\ obj.setup \in Setups /\ operator \in Versions
      BY <1>7 DEF HelmSucceeds, HelmRefuses, HelmFails, HelmEnds, object, TypeOK,
                  Toolkits
    <2>2. \/ deployed' = deployed
          \/ deployed' = Partial
          \/ deployed' = [setup |-> obj.setup, version |-> operator]
      BY <1>7 DEF HelmSucceeds, HelmRefuses, HelmFails
    <2>3. deployed' = deployed \/ deployed' \in Deployments \cup {Partial}
      BY <2>1, <2>2 DEF Deployments
    <2> QED BY <1>1, <1>5, <2>1, <2>3
  <1>8. CASE \/ PatchObject \/ PatchRejected
             \/ /\ PatchFault
                /\ ~(pc = "status" /\ cr' = StatusPatched)
    <2>1. /\ deployed' = deployed
          /\ cr' # cr => cr # Absent /\ cr' = Patched /\ pc = "patch"
      BY <1>8 DEF PatchObject, PatchRejected, PatchFault, Return
    <2>2. cr # Absent /\ pc = "patch" => Patched # Absent
      BY PatchedType, ReconcilerAssumption DEF TypeOK
    <2> QED BY <1>1, <2>1, <2>2, WritesKeepConditions
  <1>9. CASE \/ PatchStatus
             \/ /\ PatchFault
                /\ pc = "status" /\ cr' = StatusPatched
    <2>1. /\ pc = "status" /\ cr # Absent /\ cr' = StatusPatched
          /\ deployed' = deployed
          /\ cr.conditions = base.conditions
          /\ StatusPatched \in Toolkits
      BY <1>9, StatusPatchedType
         DEF PatchStatus, PatchFault, Return, Unrepeated, TypeOK
    <2>2. cr'.conditions = Stored(obj.conditions)
      BY <2>1 DEF TypeOK, StatusPatched, Merged, Toolkits
    <2> DEFINE from == LastStatus(cr.conditions)
               to == LastStatus(cr'.conditions)
    <2>3. Status = from /\ Status' = to /\ Legal(from, to) /\ from # "Absent"
      BY <1>0, <1>3, <2>1, <2>2, ReconcilerAssumption DEF Announced
    <2>4. to = STATUS_SUCCESSFUL => deployed \in Deployments
      BY <2>1, <2>2 DEF Truthful, Told
    <2> HIDE DEF from, to
    <2>5. CASE to = from
      BY <2>1, <2>3, <2>5 DEF Promise!vars
    <2>6. CASE to = STATUS_PAUSED
      BY <2>1, <2>3, <2>6 DEF Promise!Next, Promise!Pause, Promise!Gone,
                              STATUS_PAUSED
    <2>7. CASE /\ to = STATUS_UPDATING
               /\ from \in {STATUS_UNKNOWN, STATUS_SUCCESSFUL, STATUS_FAILED}
      BY <2>1, <2>3, <2>7 DEF Promise!Next, Promise!Announce, Promise!Unknown,
                STATUS_UPDATING, STATUS_UNKNOWN, STATUS_SUCCESSFUL, STATUS_FAILED
    <2>8. CASE from = STATUS_UPDATING /\ to = STATUS_SUCCESSFUL
      BY <2>1, <2>3, <2>4, <2>8 DEF Promise!Next, Promise!Succeed,
                STATUS_UPDATING, STATUS_SUCCESSFUL
    <2>9. CASE from = STATUS_UPDATING /\ to = STATUS_FAILED
      BY <2>1, <2>3, <2>9 DEF Promise!Next, Promise!Fail, STATUS_UPDATING,
                STATUS_FAILED
    <2> QED BY <2>3, <2>5, <2>6, <2>7, <2>8, <2>9 DEF Legal
  <1>10. ASSUME NEW v \in Versions, Restart(v)
         PROVE  [Promise!Next]_(Promise!vars)
    <2>1. /\ cr' = cr
          /\ deployed' # deployed => pc = "deploy" /\ deployed' = Partial
      BY <1>10 DEF Restart, Relist
    <2> QED BY <1>1, <1>5, <2>1
  <1>11. CASE UserActs
    <2>1. /\ deployed' = deployed
          /\ \/ cr = Absent /\ cr' # Absent /\ cr'.conditions = NoConditions
             \/ cr # Absent /\ cr' # Absent /\ cr'.conditions = cr.conditions
             \/ cr # Absent /\ cr' = Absent
      BY <1>11, UserActsUnrepeated
    <2>2. LastStatus(NoConditions) = STATUS_UNKNOWN
      BY NoConditionsType DEF LastStatus
    <2>3. CASE cr = Absent /\ cr' # Absent /\ cr'.conditions = NoConditions
      BY <1>0, <2>1, <2>2, <2>3 DEF Promise!Next, Promise!Appear, Promise!Gone,
                              Promise!Unknown, STATUS_UNKNOWN
    <2>4. CASE cr # Absent /\ cr' = Absent
      BY <1>0, <1>3, <2>1, <2>4 DEF Promise!Next, Promise!Vanish, Promise!Gone
    <2> QED BY <1>1, <2>1, <2>3, <2>4
  <1>12. CASE Finalize
    <2>1. cr # Absent /\ cr' = Absent /\ deployed' = deployed
      BY <1>12 DEF Finalize
    <2> QED BY <1>0, <1>3, <2>1 DEF Promise!Next, Promise!Vanish, Promise!Gone
  <1> QED BY <1>6, <1>7, <1>8, <1>9, <1>10, <1>11, <1>12 DEF Next, Continue

\* The reconciler implements the state machine of its comment, whatever fails,
\* crashes or is edited meanwhile: every change of the status it reports is a
\* transition of Lifecycle, Successful is only reported over a complete
\* installation, and Helm only works on an object that says Updating.
THEOREM PromiseKept ==
    ASSUME "lag" \notin Environment, "recreate" \notin Environment,
           "handover" \notin Environment
    PROVE  Spec => KeepsPromise
  <1>1. Init => Inv /\ Truthful /\ Unrepeated /\ Announced
    BY InitInv DEF Init, Truthful, Unrepeated, Announced
  <1>2. TypeOK /\ Inv /\ [Next]_vars => Inv'
    BY FreshStep, TimelyStep, EffectiveStep, SettledStep DEF Inv
  <1>3. TypeOK /\ Inv /\ Truthful /\ Unrepeated /\ Announced /\ [Next]_vars
          => Truthful' /\ Unrepeated' /\ Announced'
    BY TruthfulStep, UnrepeatedStep, AnnouncedStep DEF Inv
  <1>4. Init => Promise!Init
    BY DEF Init, Promise!Init, Promise!Gone, Status
  <1>5. TypeOK /\ Inv /\ Truthful /\ Unrepeated /\ Announced /\ [Next]_vars
          => [Promise!Next]_(Promise!vars)
    BY LifecycleStep DEF Inv
  <1> QED BY <1>1, <1>2, <1>3, <1>4, <1>5, TypeCorrect, PTL
          DEF Spec, KeepsPromise, Promise!Spec

-----------------------------------------------------------------------------
(* No edit is lost: what is reported as deployed is what the object asks    *)
(* for.  An edit is found by comparing the hash of the setup with the one   *)
(* in the annotation, which the first patch of a call writes; the status    *)
(* that goes with it comes with the second.  So this needs surroundings in  *)
(* which the second patch only fails over another edit or a deletion, and   *)
(* users who do not return to a setup they had asked for before.            *)

\* What the surroundings may do.
Calm == Environment \subseteq
    {"edit", "delete", "helmfail", "ingressfail", "patchfault", "crash", "upgrade"}

\* A setup with everything filled in.
Resolved(s) == Resolve(s, TRUE)

\* The setups an object may have.
Written == Inputs \cup {Resolved(s) : s \in Inputs}

\* t once a merge patch has brought over what changed between from and to.
Overwritten(t, from, to) == [f \in DOMAIN t |-> Merged(t[f], from[f], to[f])]

\* What is filled in is settled, and fits a setup that was edited meanwhile:
\* filling in does not overwrite what another setup of the users says.
FillsAlike ==
    /\ \A s \in Inputs : Resolved(Resolved(s)) = Resolved(s)
    /\ \A s, t \in Written :
         Overwritten(t, s, Resolved(s)) \in {t, Resolved(t)}

\* The i-th setup of those asked for, as it was written and filled in.
Forms(q, i) == {q[i], Resolved(q[i])}

\* What the annotation of an object can be that was asked for the first m.
Recorded(q, m) ==
    {NoAnnotations, NoHash} \cup {Hash(s) : s \in UNION {Forms(q, i) : i \in 1..m}}

\* The user never returns to a setup.
Distinct(q) ==
    \A i, j \in 1..Len(q) : i # j => Resolved(q[i]) # Resolved(q[j])

\* Setups with nothing to fill in satisfy FillsAlike.
LEMMA NothingToFill ==
    ASSUME \A s \in Inputs : Resolved(s) = s
    PROVE  FillsAlike
  <1>1. Written = Inputs
    BY DEF Written
  <1>2. ASSUME NEW s \in Inputs, NEW t \in Inputs
        PROVE  Overwritten(t, s, s) = t
    <2>1. t \in Setups
      BY ReconcilerAssumption
    <2> QED BY <2>1 DEF Overwritten, Merged, Setups
  <1> QED BY <1>1, <1>2 DEF FillsAlike

LEMMA FormsAre ==
    ASSUME FillsAlike, NEW q \in Seq(Inputs), NEW i \in 1..Len(q),
           NEW s \in Forms(q, i)
    PROVE  /\ s \in Written /\ s \in Setups /\ Hash(s) \in Hashes
           /\ Resolved(s) = Resolved(q[i])
  <1>1. q[i] \in Inputs /\ q[i] \in Setups
    BY ReconcilerAssumption
  <1>2. Resolved(q[i]) \in Setups
    BY <1>1, ResolveType DEF Resolved
  <1> QED BY <1>1, <1>2 DEF Forms, Written, FillsAlike, Hashes

\* A setup tells when it was asked for, and so does its hash.
LEMMA FormsApart ==
    ASSUME FillsAlike, NEW q \in Seq(Inputs), Distinct(q),
           NEW m \in Nat, NEW n \in 1..Len(q), m < n, NEW s \in Forms(q, n)
    PROVE  Hash(s) \notin Recorded(q, m)
  <1> SUFFICES ASSUME Hash(s) \in Recorded(q, m) PROVE FALSE
    OBVIOUS
  <1>1. s \in Setups /\ Hash(s) \in Hashes /\ Resolved(s) = Resolved(q[n])
    BY FormsAre
  <1>2. PICK i \in 1..m : \E t \in Forms(q, i) : Hash(s) = Hash(t)
    BY <1>1, ReconcilerAssumption DEF Recorded
  <1>3. i \in 1..Len(q) /\ i # n
    OBVIOUS
  <1>4. PICK t \in Forms(q, i) : Hash(s) = Hash(t)
    BY <1>2
  <1>5. t \in Setups /\ Resolved(t) = Resolved(q[i])
    BY <1>3, FormsAre
  <1>6. s = t
    BY <1>1, <1>4, <1>5, HashAssumption
  <1> QED BY <1>1, <1>3, <1>5, <1>6 DEF Distinct

\* Another setup asked for leaves the earlier ones where they are.
LEMMA AnotherAsked ==
    ASSUME NEW q \in Seq(Inputs), NEW s \in Inputs
    PROVE  LET r == Append(q, s)
           IN  /\ r \in Seq(Inputs) /\ Len(r) = Len(q) + 1 /\ Len(q) \in Nat
               /\ \A i \in 1..Len(q) : Forms(r, i) = Forms(q, i)
               /\ Forms(r, Len(r)) = {s, Resolved(s)}
               /\ \A m \in 0..Len(q) : Recorded(r, m) = Recorded(q, m)
  <1> DEFINE r == Append(q, s)
  <1>1. /\ r \in Seq(Inputs) /\ Len(r) = Len(q) + 1 /\ Len(q) \in Nat
        /\ \A i \in 1..Len(q) : r[i] = q[i]
        /\ r[Len(r)] = s
    OBVIOUS
  <1> HIDE DEF r
  <1>2. \A i \in 1..Len(q) : Forms(r, i) = Forms(q, i)
    BY <1>1 DEF Forms
  <1>3. \A m \in 0..Len(q) : Recorded(r, m) = Recorded(q, m)
    <2> SUFFICES ASSUME NEW m \in 0..Len(q)
                 PROVE  Recorded(r, m) = Recorded(q, m)
      OBVIOUS
    <2>1. \A i \in 1..m : i \in 1..Len(q)
      BY <1>1
    <2>2. UNION {Forms(r, i) : i \in 1..m} = UNION {Forms(q, i) : i \in 1..m}
      BY <1>2, <2>1
    <2> QED BY <2>2 DEF Recorded
  <1>4. Forms(r, Len(r)) = {s, Resolved(s)}
    BY <1>1 DEF Forms
  <1> QED BY <1>1, <1>2, <1>3, <1>4 DEF r

LEMMA RecordedGrows ==
    ASSUME NEW q, NEW m \in Nat, NEW n \in Nat, m <= n
    PROVE  Recorded(q, m) \subseteq Recorded(q, n)
  <1>1. \A i \in 1..m : i \in 1..n
    OBVIOUS
  <1> QED BY <1>1 DEF Recorded

\* A stamp later than all others is the last word.
LEMMA FreshStampWins ==
    ASSUME NEW c \in ConditionMaps, NEW s \in Statuses,
           NEW now \in Nat, NEW version \in Versions,
           \A t \in Present(c) : c[t].sec < now
    PROVE  LastStatus(Stored(Put(c, s, Stamp(now, version)))) = s
  <1> DEFINE stamp == Stamp(now, version)
             o == Put(c, s, stamp)
             d == Stored(o)
  <1>1. stamp \in Condition /\ stamp.sec = now
    BY StampType DEF Stamp
  <1> HIDE DEF stamp
  <1>2. /\ o \in ConditionMaps /\ o[s] = stamp
        /\ \A t \in Statuses \ {s} : o[t] = c[t]
        /\ Present(o) = Present(c) \cup {s}
    BY <1>1, PutType
  <1> HIDE DEF o
  <1>3. /\ d \in ConditionMaps /\ Present(d) = Present(o)
        /\ \A t \in Present(o) : d[t].sec = o[t].sec
    BY <1>2, StoredType
  <1> HIDE DEF d
  <1>4. ASSUME NEW t \in Present(d) \ {s}
        PROVE  Later(d[s], d[t])
    <2>1. t \in Present(c) /\ t \in Statuses
      BY <1>2, <1>3 DEF Present
    <2>2. d[t].sec = c[t].sec /\ c[t].sec \in Nat /\ d[s].sec = now
      BY <1>1, <1>2, <1>3, <2>1, PresentHasStamp
    <2> QED BY <2>1, <2>2 DEF Later
  <1>5. LastStatus(d) = s
    BY <1>2, <1>3, <1>4, LatestIsLast
  <1> QED BY <1>5 DEF d, o, stamp

\* The object asks for the last setup that was asked for, as it was written or
\* filled in, and its annotation is the hash of that or of an earlier one.
Asking ==
    /\ Distinct(asked)
    /\ cr # Absent => /\ asked # <<>>
                      /\ cr.setup \in Forms(asked, Len(asked))
                      /\ cr.ann \in Recorded(asked, Len(asked))
    /\ cr # Absent /\ cr.ann = NoAnnotations
         => LastStatus(cr.conditions) = STATUS_UNKNOWN

\* The call in flight has read the m-th setup; while nobody edits it, it is on
\* the server, and what the call fills in once that is patched.
Whence(m) ==
    /\ base.setup \in Forms(asked, m) /\ base.ann \in Recorded(asked, m)
    /\ cr # Absent /\ m = Len(asked)
         => cr.setup = IF pc = "status" THEN obj.setup ELSE base.setup

\* What the call in flight has read, and what it writes to the annotation, which
\* nobody else does.  No stamp it has read is of the present second.
Underway ==
    pc # "idle" =>
        /\ \E m \in 1..Len(asked) : Whence(m)
        /\ obj.setup \in {base.setup, Resolved(base.setup)}
        /\ obj.ann \in {base.ann, Hash(base.setup)} \ {NoAnnotations}
        /\ cr # Absent => cr.ann = IF pc = "status" THEN obj.ann ELSE base.ann
        /\ \A s \in Present(base.conditions) : base.conditions[s].sec < clock
        /\ pc = "deploy" => obj.setup = base.setup /\ obj.ann = base.ann

\* A call reports a success if Helm had it, or if it has read it and leaves the
\* object alone.
Deserved ==
    pc \in {"patch", "status"}
    /\ LastStatus(Stored(obj.conditions)) = STATUS_SUCCESSFUL =>
        /\ obj.setup = base.setup /\ obj.ann = base.ann
        /\ \/ /\ LastStatus(base.conditions) = STATUS_UPDATING
              /\ deployed \in Deployments /\ deployed.setup = obj.setup
           \/ LastStatus(base.conditions) = STATUS_SUCCESSFUL

\* An object that says Successful and carries the hash of its setup has been
\* given that setup, or the status patch that says otherwise is on its way and
\* will not be refused.
HashTells ==
    /\ cr # Absent /\ LastStatus(cr.conditions) = STATUS_SUCCESSFUL
    /\ cr.ann = Hash(cr.setup)
    => \/ deployed \in Deployments /\ deployed.setup = cr.setup
       \/ /\ pc = "status" /\ ~moved
          /\ LastStatus(Stored(obj.conditions)) # STATUS_SUCCESSFUL

\* A call that leaves a success alone has compared the hashes.
Compared ==
    /\ pc \in {"patch", "status"} /\ ~requeue /\ Ineffective
    /\ ~base.paused /\ LastStatus(base.conditions) = STATUS_SUCCESSFUL
    => ~ConfigurationChanged(base)

LEMMA CalmFacts ==
    ASSUME Calm
    PROVE  Environment \cap {"lag", "tie", "revisit", "replace", "pause",
                             "foreground", "recreate", "lostreply",
                             "statusfault", "statuscrash", "handover"} = {}
  BY DEF Calm

\* What Reconcile makes of an object with no stamp of the present second: it
\* records a hash or fills in only over a status other than Successful.
LEMMA DecideReads ==
    ASSUME Calm, TypeOK, Timely, Fresh, Decide, ~IgnoreMissing
    PROVE  /\ cr # Absent /\ cr \in Toolkits /\ base' = cr
           /\ UNCHANGED <<cr, asked, deployed, clock>>
           /\ pc' \in {"deploy", "patch"}
           /\ \A s \in Present(cr.conditions) : cr.conditions[s].sec < clock
           /\ obj'.setup \in {cr.setup, Resolved(cr.setup)}
           /\ obj'.ann \in {LastHash(cr), Hash(cr.setup)}
           /\ pc' = "deploy" => /\ obj'.setup = cr.setup
                                /\ obj'.ann = LastHash(cr)
                                /\ LastStatus(cr.conditions) = STATUS_UPDATING
           /\ pc' = "patch"
              /\ LastStatus(Stored(obj'.conditions)) = STATUS_SUCCESSFUL =>
                 /\ obj'.setup = cr.setup /\ obj'.ann = LastHash(cr)
                 /\ LastStatus(cr.conditions) = STATUS_SUCCESSFUL
  <1> DEFINE c == cr.conditions
  <1>1. cache = cr /\ cache # Absent /\ Reading /\ base' = cache
        /\ pc' \in {"deploy", "patch"} /\ UNCHANGED <<cr, asked, deployed, clock>>
    BY CalmFacts DEF Decide, ReconcilePaused, StartUpdating, StayPut,
           WaitToRetry, PatchDefinition, RefuseToDeploy, StartHelm, MustUpdate,
           Active, Reading, Fresh, Proceed, bounds
  <1>2. /\ cr \in Toolkits /\ c \in ConditionMaps /\ Dated(cr)
        /\ cr.setup \in Setups
        /\ \A s \in Present(c) : c[s].frac = 0
        /\ \A s \in Present(c) : c[s].sec < clock
        /\ clock \in Nat /\ operator \in Versions
    BY <1>1, CalmFacts, ReconcilerAssumption
       DEF TypeOK, Timely, Toolkits, Dated, Reading
  <1>3. ASSUME NEW s \in Statuses \ {STATUS_SUCCESSFUL}, NEW v \in Versions,
               obj'.conditions = Put(c, s, Stamp(clock, v))
        PROVE  LastStatus(Stored(obj'.conditions)) # STATUS_SUCCESSFUL
    BY <1>2, <1>3, FreshStampWins
  <1>4. /\ Annotated(cr) \in Toolkits
        /\ Annotated(cr).conditions = c /\ Dated(Annotated(cr))
        /\ Annotated(cr).setup = cr.setup /\ Annotated(cr).ann = LastHash(cr)
    BY <1>2, AnnotatedType DEF Dated, Annotated, Toolkits
  <1>5. /\ STATUS_PAUSED \in Statuses \ {STATUS_SUCCESSFUL}
        /\ STATUS_UPDATING \in Statuses \ {STATUS_SUCCESSFUL}
        /\ STATUS_FAILED \in Statuses \ {STATUS_SUCCESSFUL}
    BY StatusNames
  <1>6. CASE ReconcilePaused
    <2>1. obj' = ToPaused(Annotated(cr)) /\ pc' = "patch"
      BY <1>1, <1>6 DEF ReconcilePaused, Proceed
    <2>2. obj'.setup = cr.setup /\ obj'.ann = LastHash(cr)
      BY <1>4, <2>1 DEF ToPaused, Toolkits
    <2> QED BY <1>1, <1>2, <1>3, <1>4, <1>5, <2>1, <2>2, ToPausedDated
  <1>7. CASE StartUpdating
    <2>1. obj' = ToUpdating(cr, Hash(cr.setup)) /\ pc' = "patch"
      BY <1>1, <1>7 DEF StartUpdating, Proceed
    <2>2. obj'.setup = cr.setup /\ obj'.ann = Hash(cr.setup)
      BY <1>2, <2>1 DEF ToUpdating, Marked, Toolkits
    <2> QED BY <1>1, <1>2, <1>3, <1>5, <2>1, <2>2, ToUpdatingDated
  <1>8. CASE PatchDefinition
    <2>1. PICK known \in BOOLEAN :
            obj' = [ToUpdating(cr, Hash(cr.setup))
                      EXCEPT !.setup = Resolve(cr.setup, known)]
      BY <1>1, <1>8 DEF PatchDefinition, Proceed, IngressOutcomes
    <2>2. pc' = "patch"
      BY <1>8 DEF PatchDefinition, Proceed
    <2>3. ToUpdating(cr, Hash(cr.setup)) \in Toolkits
      BY <1>2, ToUpdatingType DEF Hashes
    <2>4. /\ obj'.setup = Resolve(cr.setup, known)
          /\ obj'.conditions = ToUpdating(cr, Hash(cr.setup)).conditions
          /\ obj'.ann = ToUpdating(cr, Hash(cr.setup)).ann
      BY <2>1, <2>3 DEF Toolkits
    <2>5. obj'.ann = Hash(cr.setup)
      BY <1>2, <2>4, ToUpdatingDated
    <2>6. Resolve(cr.setup, known) \in {cr.setup, Resolved(cr.setup)}
      BY DEF Resolve, Resolved, BlockedEarly
    <2> QED BY <1>1, <1>2, <1>3, <1>5, <2>2, <2>4, <2>5, <2>6, ToUpdatingDated
  <1>9. CASE RefuseToDeploy
    <2>1. obj' = Marked(Annotated(cr), STATUS_FAILED) /\ pc' = "patch"
      BY <1>1, <1>9 DEF RefuseToDeploy, Proceed
    <2>2. /\ obj'.conditions = Put(c, STATUS_FAILED, Stamp(clock, operator))
          /\ obj'.setup = cr.setup /\ obj'.ann = LastHash(cr)
      BY <1>4, <2>1 DEF Marked, Toolkits
    <2> QED BY <1>1, <1>2, <1>3, <1>5, <2>1, <2>2
  <1>10. CASE StayPut \/ WaitToRetry
    <2>1. obj' = Annotated(cr) /\ pc' = "patch"
      BY <1>1, <1>10 DEF StayPut, WaitToRetry, Proceed
    <2>2. Stored(obj'.conditions) = c
      BY <1>2, <1>4, <2>1, StoredAgain
    <2> QED BY <1>1, <1>2, <1>4, <2>1, <2>2
  <1>11. CASE StartHelm
    <2>1. obj' = Annotated(cr) /\ pc' = "deploy"
          /\ LastStatus(cr.conditions) = STATUS_UPDATING
      BY <1>1, <1>11 DEF StartHelm, Proceed, Active
    <2> QED BY <1>1, <1>2, <1>4, <2>1
  <1> QED BY <1>6, <1>7, <1>8, <1>9, <1>10, <1>11 DEF Decide

\* What r.Patch makes of an object: the annotation is the call's, and the setup
\* too unless it was edited; then it is the edited one, filled in or not.
LEMMA PatchWrites ==
    ASSUME FillsAlike, TypeOK, Asking, Underway, pc = "patch", cr # Absent
    PROVE  /\ Patched \in Toolkits /\ Patched # Absent
           /\ Patched.conditions = cr.conditions
           /\ Patched.ann = obj.ann
           /\ obj.ann \in Recorded(asked, Len(asked))
           /\ Patched.setup \in Forms(asked, Len(asked))
           /\ \A m \in 1..Len(asked) :
                Whence(m) /\ m = Len(asked) => Patched.setup = obj.setup
  <1>1. /\ cr \in Toolkits /\ base \in Toolkits /\ obj \in Toolkits
        /\ asked \in Seq(Inputs) /\ Len(asked) \in Nat
    BY DEF TypeOK
  <1>2. PICK m \in 1..Len(asked) : Whence(m)
    BY DEF Underway
  <1>3. /\ Patched \in Toolkits /\ Patched # Absent
        /\ Patched.setup = MergedSetup
        /\ Patched.ann = Merged(cr.ann, base.ann, obj.ann)
        /\ Patched.conditions = cr.conditions
    BY <1>1, PatchedType, ReconcilerAssumption DEF Patched, Toolkits
  <1>4. Patched.ann = obj.ann
    BY <1>3 DEF Underway, Merged
  <1>5. MergedSetup = Overwritten(cr.setup, base.setup, obj.setup)
    BY DEF MergedSetup, Overwritten
  <1>6. cr.setup \in Setups /\ base.setup \in Setups /\ obj.setup \in Setups
    BY <1>1 DEF Toolkits
  <1>7. Len(asked) \in 1..Len(asked) /\ cr.setup \in Forms(asked, Len(asked))
    BY <1>1, <1>2 DEF Asking
  <1>8. Patched.setup \in Forms(asked, Len(asked))
    <2>1. /\ cr.setup \in Written /\ base.setup \in Written
          /\ Resolved(cr.setup) = Resolved(asked[Len(asked)])
      BY <1>1, <1>2, <1>7, FormsAre DEF Whence
    <2>2. MergedSetup \in {cr.setup, Resolved(cr.setup)}
      <3>1. CASE obj.setup = base.setup
        <4>1. Overwritten(cr.setup, base.setup, base.setup) = cr.setup
          BY <1>6 DEF Overwritten, Merged, Setups
        <4> QED BY <1>5, <3>1, <4>1
      <3>2. CASE obj.setup = Resolved(base.setup)
        BY <1>5, <2>1, <3>2 DEF FillsAlike
      <3> QED BY <3>1, <3>2 DEF Underway
    <2> QED BY <1>3, <1>7, <2>1, <2>2 DEF Forms
  <1>9. obj.ann \in Recorded(asked, Len(asked))
    <2>1. base.ann \in Recorded(asked, Len(asked))
      BY <1>1, <1>2, RecordedGrows DEF Whence
    <2>2. Hash(base.setup) \in Recorded(asked, Len(asked))
      BY <1>2 DEF Whence, Recorded
    <2> QED BY <2>1, <2>2 DEF Underway
  <1>10. ASSUME NEW i \in 1..Len(asked), Whence(i), i = Len(asked)
         PROVE  Patched.setup = obj.setup
    <2>1. cr.setup = base.setup
      BY <1>10 DEF Whence
    <2>2. Overwritten(base.setup, base.setup, obj.setup) = obj.setup
      BY <1>6 DEF Overwritten, Merged, Setups
    <2> QED BY <1>3, <1>5, <2>1, <2>2
  <1> QED BY <1>3, <1>4, <1>8, <1>9, <1>10

\* The users' writes: a new setup, or an object that is deleted.
LEMMA UsersAsk ==
    ASSUME Calm, TypeOK, Unrepeated, UserActs \/ Finalize
    PROVE  /\ UNCHANGED <<call, cache, deployed, clock, operator>>
           /\ moved' = (pc # "idle")
           /\ \/ cr' = Absent /\ asked' = asked
              \/ /\ \E s \in Inputs :
                      /\ asked' = Append(asked, s)
                      /\ \A i \in 1..Len(asked) : Resolved(asked[i]) # Resolved(s)
                      /\ cr'.setup = s
                 /\ cr' # Absent
                 /\ \/ cr # Absent /\ cr'.ann = cr.ann
                       /\ cr'.conditions = cr.conditions
                    \/ /\ cr = Absent /\ pc = "idle"
                       /\ cr'.ann \in {NoAnnotations, NoHash}
                       /\ cr'.conditions = NoConditions
  <1>1. \A s : Resolve(s, TRUE) = Resolved(s)
    BY DEF Resolved
  <1>2. asked \in Seq(Inputs) /\ Len(asked) \in Nat
        /\ \A s \in Inputs : s \in Setups
    BY ReconcilerAssumption DEF TypeOK
  <1>3. ASSUME NEW s \in Inputs, NEW p \in BOOLEAN,
               NEW a \in {NoAnnotations, NoHash}, Create(s, p, a)
        PROVE  /\ UNCHANGED <<call, cache, deployed, clock, operator>>
               /\ moved' = (pc # "idle")
               /\ asked = <<>> /\ asked' = Append(asked, s) /\ cr'.setup = s
               /\ cr' # Absent /\ cr = Absent /\ pc = "idle"
               /\ cr'.ann \in {NoAnnotations, NoHash}
               /\ cr'.conditions = NoConditions
    <2>1. asked = <<>> /\ pc = "idle"
      BY <1>3, CalmFacts DEF Create, Unrepeated
    <2>2. cr' = [setup |-> s, paused |-> p, ann |-> a, terminating |-> FALSE,
                 conditions |-> NoConditions, phase |-> STATUS_UNKNOWN,
                 version |-> Empty]
      BY <1>3 DEF Create, UserWrites
    <2>3. cr' \in Toolkits
      BY <1>2, <2>2, NoConditionsType DEF Toolkits
    <2>4. /\ cr'.setup = s /\ cr'.ann = a /\ cr'.conditions = NoConditions
      BY <2>2
    <2>5. /\ UNCHANGED <<call, cache, deployed, clock, operator>>
          /\ moved' = (pc # "idle")
          /\ asked' = Append(asked, s) /\ cr = Absent
      BY <1>3 DEF Create, UserWrites
    <2> QED BY <2>1, <2>3, <2>4, <2>5, ReconcilerAssumption
  <1>4. ASSUME NEW s \in Inputs, Edit(s)
        PROVE  /\ UNCHANGED <<call, cache, deployed, clock, operator>>
               /\ moved' = (pc # "idle")
               /\ asked' = Append(asked, s) /\ cr'.setup = s
               /\ \A i \in 1..Len(asked) : Resolved(asked[i]) # Resolved(s)
               /\ cr # Absent /\ cr' # Absent /\ cr'.ann = cr.ann
               /\ cr'.conditions = cr.conditions
    <2>1. cr \in Toolkits /\ cr # Absent /\ cr' = [cr EXCEPT !.setup = s]
      BY <1>4 DEF Edit, UserWrites, TypeOK
    <2>2. /\ cr'.setup = s /\ cr'.ann = cr.ann /\ cr'.conditions = cr.conditions
          /\ cr' \in Toolkits
      BY <1>2, <2>1 DEF Toolkits
    <2>3. \A i \in 1..Len(asked) : Resolved(asked[i]) # Resolved(s)
      <3>1. "revisit" \notin Environment
        BY CalmFacts
      <3>2. \A i \in DOMAIN asked : Resolve(asked[i], TRUE) # Resolve(s, TRUE)
        BY <1>4, <3>1 DEF Edit, Ask
      <3>3. DOMAIN asked = 1..Len(asked)
        BY <1>2
      <3> QED BY <1>1, <3>2, <3>3
    <2> QED BY <1>4, <2>1, <2>2, <2>3, ReconcilerAssumption
            DEF Edit, Ask, UserWrites
  <1>5. CASE Delete \/ Finalize
    BY <1>5 DEF Delete, Finalize, UserWrites, bounds, call
  <1>6. /\ \A s : ~Replace(s)
        /\ \A p : ~SetPaused(p)
        /\ ~DeleteForeground
    BY CalmFacts DEF Replace, SetPaused, DeleteForeground
  <1>7. asked = <<>> => \A s : \A i \in 1..Len(asked) : Resolved(asked[i]) # Resolved(s)
    BY <1>2
  <1>8. CASE \E s \in Inputs, p \in BOOLEAN, a \in {NoAnnotations, NoHash} :
               Create(s, p, a)
    BY <1>3, <1>7, <1>8
  <1>9. CASE \E s \in Inputs : Edit(s)
    BY <1>4, <1>9
  <1> QED BY <1>5, <1>6, <1>8, <1>9 DEF UserActs

\* A step of the operator other than a patch leaves the object alone, and so
\* does a patch that fails.
LEMMA LeftAlone ==
    ASSUME Calm, [Next]_vars
    PROVE  \/ UNCHANGED <<cr, asked>>
           \/ PatchObject \/ PatchStatus \/ UserActs \/ Finalize
  <1>1. CASE Decide
    BY <1>1 DEF Decide, IgnoreMissing, ReconcilePaused, StartUpdating, StayPut,
            WaitToRetry, PatchDefinition, RefuseToDeploy, StartHelm, Proceed,
            object, bounds
  <1>2. CASE HelmSucceeds \/ HelmRefuses \/ HelmFails
    BY <1>2 DEF HelmSucceeds, HelmRefuses, HelmFails, HelmEnds, object
  <1>3. CASE PatchRejected \/ PatchFault
    BY <1>3, CalmFacts DEF PatchRejected, PatchFault, Return
  <1>4. CASE Sync \/ Tick \/ UNCHANGED vars
    BY <1>4 DEF Sync, Tick, vars, object, bounds
  <1>5. CASE \E v \in Versions : Restart(v)
    BY <1>5 DEF Restart, Relist
  <1> QED BY <1>1, <1>2, <1>3, <1>4, <1>5 DEF Next, Continue

LEMMA AskingStep ==
    ASSUME Calm, FillsAlike, TypeOK, Unrepeated, Asking, Underway, [Next]_vars
    PROVE  Asking'
  <1>1. CASE UNCHANGED <<cr, asked>>
    BY <1>1 DEF Asking
  <1>2. CASE PatchObject
    <2>1. /\ pc = "patch" /\ cr # Absent /\ cr' = Patched /\ asked' = asked
      BY <1>2 DEF PatchObject, bounds
    <2> QED BY <2>1, PatchWrites DEF Asking, Underway
  <1>3. CASE PatchStatus
    <2>1. /\ pc = "status" /\ cr # Absent /\ cr' = StatusPatched /\ asked' = asked
      BY <1>3 DEF PatchStatus, Return
    <2>2. cr'.setup = cr.setup /\ cr'.ann = cr.ann
      BY <2>1 DEF StatusPatched, TypeOK, Toolkits
    <2>3. cr.ann # NoAnnotations
      BY <2>1 DEF Underway
    <2> QED BY <2>1, <2>2, <2>3 DEF Asking
  <1>4. CASE UserActs \/ Finalize
    <2>1. CASE cr' = Absent /\ asked' = asked
      BY <2>1 DEF Asking
    <2>2. CASE cr' # Absent
      <3>1. PICK s \in Inputs :
              /\ asked' = Append(asked, s)
              /\ \A i \in 1..Len(asked) : Resolved(asked[i]) # Resolved(s)
              /\ cr'.setup = s
        BY <1>4, <2>2, UsersAsk
      <3>2. asked \in Seq(Inputs) /\ Len(asked) \in Nat
        BY DEF TypeOK
      <3>3. Distinct(asked')
        <4>1. /\ Len(asked') = Len(asked) + 1
              /\ \A i \in 1..Len(asked) : asked'[i] = asked[i]
              /\ asked'[Len(asked')] = s
          BY <3>1, <3>2
        <4>2. \A i \in 1..Len(asked') : i \in 1..Len(asked) \/ i = Len(asked')
          BY <3>2, <4>1
        <4> QED BY <3>1, <4>1, <4>2 DEF Asking, Distinct
      <3>4. asked' # <<>> /\ cr'.setup \in Forms(asked', Len(asked'))
        BY <3>1, <3>2, AnotherAsked
      <3>5. cr'.ann \in Recorded(asked', Len(asked'))
        <4>1. Len(asked) \in 0..Len(asked) /\ Len(asked') = Len(asked) + 1
          BY <3>1, <3>2
        <4>2. Recorded(asked, Len(asked)) = Recorded(asked', Len(asked))
          BY <3>1, <3>2, <4>1, AnotherAsked
        <4>3. Recorded(asked', Len(asked)) \subseteq Recorded(asked', Len(asked'))
          BY <3>2, <4>1, RecordedGrows
        <4>4. cr'.ann \in Recorded(asked, Len(asked))
          BY <1>4, <2>2, UsersAsk DEF Asking, Recorded
        <4> QED BY <4>2, <4>3, <4>4
      <3>6. cr'.ann = NoAnnotations => LastStatus(cr'.conditions) = STATUS_UNKNOWN
        <4>1. LastStatus(NoConditions) = STATUS_UNKNOWN
          BY NoConditionsType DEF LastStatus
        <4> QED BY <1>4, <2>2, <4>1, UsersAsk DEF Asking
      <3> QED BY <3>3, <3>4, <3>5, <3>6 DEF Asking
    <2> QED BY <1>4, <2>1, <2>2, UsersAsk
  <1> QED BY <1>1, <1>2, <1>3, <1>4, LeftAlone

LEMMA UnderwayStep ==
    ASSUME Calm, FillsAlike, TypeOK, Timely, Fresh, Effective, Unrepeated,
           Asking, Underway, [Next]_vars
    PROVE  Underway'
  <1>0. clock \in Nat /\ asked \in Seq(Inputs) /\ Len(asked) \in Nat
    BY DEF TypeOK
  <1>1. CASE Decide /\ ~IgnoreMissing
    <2>1. /\ cr # Absent /\ cr \in Toolkits /\ base' = cr
          /\ UNCHANGED <<cr, asked, deployed, clock>>
          /\ pc' \in {"deploy", "patch"}
          /\ \A s \in Present(cr.conditions) : cr.conditions[s].sec < clock
          /\ obj'.setup \in {cr.setup, Resolved(cr.setup)}
          /\ obj'.ann \in {LastHash(cr), Hash(cr.setup)}
          /\ pc' = "deploy" => /\ obj'.setup = cr.setup
                               /\ obj'.ann = LastHash(cr)
                               /\ LastStatus(cr.conditions) = STATUS_UPDATING
      BY <1>1, DecideReads
    <2>2. Len(asked) \in 1..Len(asked) /\ Whence(Len(asked))'
      <3>1. asked # <<>> => Len(asked) > 0
        BY <1>0
      <3> QED BY <1>0, <2>1, <3>1 DEF Asking, Whence
    <2>3. obj'.ann # NoAnnotations /\ obj'.ann \in {cr.ann, Hash(cr.setup)}
      <3>1. Hash(cr.setup) \in Hashes
        BY <2>1 DEF Hashes, Toolkits
      <3> QED BY <2>1, <3>1, AnnotatedType, ReconcilerAssumption DEF LastHash
    <2>4. pc' = "deploy" => obj'.ann = cr.ann
      <3>1. STATUS_UPDATING # STATUS_UNKNOWN
        BY StatusNames
      <3> QED BY <2>1, <3>1 DEF Asking, LastHash
    <2> QED BY <2>1, <2>2, <2>3, <2>4 DEF Underway
  <1>2. CASE HelmSucceeds \/ HelmRefuses \/ HelmFails
    <2>1. /\ pc = "deploy" /\ pc' = "patch"
          /\ UNCHANGED <<base, cr, asked, clock>>
          /\ \E s : obj' = Marked(obj, s)
      BY <1>2 DEF HelmSucceeds, HelmRefuses, HelmFails, HelmEnds, object
    <2>2. obj'.setup = obj.setup /\ obj'.ann = obj.ann
      BY <2>1 DEF Marked, TypeOK, Toolkits
    <2>3. ASSUME NEW m \in 1..Len(asked), Whence(m)
          PROVE  Whence(m)'
      BY <2>1, <2>3 DEF Whence
    <2> QED BY <2>1, <2>2, <2>3 DEF Underway
  <1>3. CASE PatchObject
    <2>1. /\ pc = "patch" /\ pc' = "status" /\ cr # Absent /\ cr' = Patched
          /\ UNCHANGED <<base, obj, asked, clock>>
      BY <1>3 DEF PatchObject, bounds
    <2>2. ASSUME NEW m \in 1..Len(asked), Whence(m)
          PROVE  Whence(m)'
      BY <2>1, <2>2, PatchWrites DEF Whence
    <2> QED BY <2>1, <2>2, PatchWrites DEF Underway
  <1>4. CASE \/ PatchStatus \/ PatchRejected \/ PatchFault
             \/ \E v \in Versions : Restart(v)
    <2>1. pc' = "idle"
      BY <1>4 DEF PatchStatus, PatchRejected, PatchFault, Return, Restart, Relist
    <2> QED BY <2>1 DEF Underway
  <1>5. CASE UserActs \/ Finalize
    <2> SUFFICES ASSUME pc' # "idle" PROVE Underway'
      BY DEF Underway
    <2>1. UNCHANGED <<pc, base, obj, clock>>
      BY <1>5, UsersAsk DEF call
    <2>2. PICK m \in 1..Len(asked) : Whence(m)
      BY <2>1 DEF Underway
    <2>3. CASE cr' = Absent /\ asked' = asked
      <3>1. Whence(m)'
        BY <2>1, <2>2, <2>3 DEF Whence
      <3> QED BY <2>1, <2>3, <3>1 DEF Underway
    <2>4. CASE cr' # Absent
      <3>1. PICK s \in Inputs : asked' = Append(asked, s)
        BY <1>5, <2>4, UsersAsk
      <3>2. /\ Len(asked') = Len(asked) + 1 /\ m \in 1..Len(asked')
            /\ m # Len(asked') /\ m \in 0..Len(asked)
        BY <1>0, <3>1
      <3>3. Whence(m)'
        BY <1>0, <2>1, <2>2, <3>1, <3>2, AnotherAsked DEF Whence
      <3>4. cr # Absent /\ cr'.ann = cr.ann
        BY <1>5, <2>1, <2>4, UsersAsk
      <3> QED BY <2>1, <3>2, <3>3, <3>4 DEF Underway
    <2> QED BY <1>5, <2>3, <2>4, UsersAsk
  <1>6. CASE IgnoreMissing \/ Sync \/ Tick \/ UNCHANGED vars
    <2>1. /\ UNCHANGED <<pc, base, obj, cr, asked>>
          /\ clock' \in {clock, clock + 1}
      BY <1>6 DEF IgnoreMissing, Sync, Tick, vars, object, call, bounds
    <2>2. ASSUME NEW m \in 1..Len(asked), Whence(m)
          PROVE  Whence(m)'
      BY <2>1, <2>2 DEF Whence
    <2>3. pc # "idle" => base.conditions \in ConditionMaps
      BY DEF TypeOK, Toolkits
    <2>4. pc # "idle" => \A s \in Present(base.conditions) :
                           base.conditions[s].sec < clock'
      BY <1>0, <2>1, <2>3, PresentHasStamp DEF Underway
    <2> QED BY <2>1, <2>2, <2>4 DEF Underway
  <1> QED BY <1>1, <1>2, <1>3, <1>4, <1>5, <1>6 DEF Next, Decide, Continue

\* What Helm makes of obj: with a verdict stamped now, the rest as it was.
LEMMA HelmWrites ==
    ASSUME TypeOK, Effective, Underway,
           HelmSucceeds \/ HelmRefuses \/ HelmFails
    PROVE  /\ pc = "deploy" /\ pc' = "patch"
           /\ UNCHANGED <<base, cr, asked, clock, moved>>
           /\ obj'.setup = base.setup /\ obj'.ann = base.ann
           /\ LastStatus(base.conditions) = STATUS_UPDATING
           /\ HelmSucceeds => /\ deployed' \in Deployments
                              /\ deployed'.setup = obj'.setup
           /\ ~HelmSucceeds =>
                LastStatus(Stored(obj'.conditions)) # STATUS_SUCCESSFUL
  <1>1. /\ pc = "deploy" /\ pc' = "patch"
        /\ UNCHANGED <<base, cr, asked, clock, moved>>
    BY DEF HelmSucceeds, HelmRefuses, HelmFails, HelmEnds, object
  <1>2. /\ obj \in Toolkits /\ obj.setup = base.setup /\ obj.ann = base.ann
        /\ obj.conditions = base.conditions /\ obj.conditions \in ConditionMaps
        /\ LastStatus(base.conditions) = STATUS_UPDATING
        /\ \A s \in Present(obj.conditions) : obj.conditions[s].sec < clock
        /\ clock \in Nat /\ operator \in Versions /\ obj.setup \in Setups
    BY <1>1 DEF TypeOK, Effective, Underway, Toolkits
  <1>3. ASSUME NEW s, obj' = Marked(obj, s)
        PROVE  /\ obj'.setup = obj.setup /\ obj'.ann = obj.ann
               /\ obj'.conditions = Put(obj.conditions, s, Stamp(clock, operator))
    BY <1>2, <1>3 DEF Marked, Toolkits
  <1>4. CASE HelmSucceeds
    <2>1. /\ obj' = Marked(obj, STATUS_SUCCESSFUL)
          /\ deployed' = [setup |-> obj.setup, version |-> operator]
      BY <1>4 DEF HelmSucceeds, HelmEnds
    <2>2. deployed' \in Deployments /\ deployed'.setup = obj.setup
      BY <1>2, <2>1 DEF Deployments
    <2> QED BY <1>1, <1>2, <1>3, <1>4, <2>1, <2>2
  <1>5. CASE HelmRefuses \/ HelmFails
    <2>1. obj' = Marked(obj, STATUS_FAILED)
      BY <1>5 DEF HelmRefuses, HelmFails, HelmEnds
    <2>2. STATUS_FAILED \in Statuses /\ STATUS_FAILED # STATUS_SUCCESSFUL
      BY StatusNames
    <2>3. LastStatus(Stored(obj'.conditions)) = STATUS_FAILED
      BY <1>2, <1>3, <2>1, <2>2, FreshStampWins
    <2>4. ~HelmSucceeds
      <3>1. HelmSucceeds => obj' = Marked(obj, STATUS_SUCCESSFUL)
        BY DEF HelmSucceeds, HelmEnds
      <3>2. STATUS_SUCCESSFUL \in Statuses
        BY StatusNames
      <3>3. HelmSucceeds => LastStatus(Stored(obj'.conditions)) = STATUS_SUCCESSFUL
        BY <1>2, <1>3, <3>1, <3>2, FreshStampWins
      <3> QED BY <2>2, <2>3, <3>3
    <2> QED BY <1>1, <1>2, <1>3, <2>1, <2>2, <2>3, <2>4
  <1> QED BY <1>4, <1>5

LEMMA DeservedStep ==
    ASSUME Calm, TypeOK, Timely, Fresh, Effective, Asking, Underway, Deserved,
           [Next]_vars
    PROVE  Deserved'
  <1>1. CASE Decide /\ ~IgnoreMissing
    <2>1. /\ base' = cr
          /\ pc' \in {"deploy", "patch"}
          /\ pc' = "patch"
             /\ LastStatus(Stored(obj'.conditions)) = STATUS_SUCCESSFUL =>
                /\ obj'.setup = cr.setup /\ obj'.ann = LastHash(cr)
                /\ LastStatus(cr.conditions) = STATUS_SUCCESSFUL
          /\ cr # Absent
      BY <1>1, DecideReads
    <2>2. LastStatus(cr.conditions) = STATUS_SUCCESSFUL => LastHash(cr) = cr.ann
      <3>1. STATUS_SUCCESSFUL # STATUS_UNKNOWN
        BY StatusNames
      <3> QED BY <2>1, <3>1 DEF Asking, LastHash
    <2> QED BY <2>1, <2>2 DEF Deserved
  <1>2. CASE HelmSucceeds \/ HelmRefuses \/ HelmFails
    BY <1>2, HelmWrites DEF Deserved
  <1>3. CASE PatchObject
    <2>1. pc = "patch" /\ UNCHANGED <<base, obj, deployed>>
      BY <1>3 DEF PatchObject
    <2> QED BY <2>1 DEF Deserved
  <1>4. CASE \/ PatchStatus \/ PatchRejected \/ PatchFault
             \/ \E v \in Versions : Restart(v)
    <2>1. pc' = "idle"
      BY <1>4 DEF PatchStatus, PatchRejected, PatchFault, Return, Restart, Relist
    <2> QED BY <2>1 DEF Deserved
  <1>5. CASE UserActs \/ Finalize
    <2>1. UNCHANGED <<pc, base, obj, deployed>>
      BY <1>5 DEF UserActs, Create, Edit, Replace, SetPaused, Delete,
              DeleteForeground, UserWrites, Finalize, call
    <2> QED BY <2>1 DEF Deserved
  <1>6. CASE IgnoreMissing \/ Sync \/ Tick \/ UNCHANGED vars
    <2>1. UNCHANGED <<pc, base, obj, deployed>>
      BY <1>6 DEF IgnoreMissing, Sync, Tick, vars, call
    <2> QED BY <2>1 DEF Deserved
  <1> QED BY <1>1, <1>2, <1>3, <1>4, <1>5, <1>6 DEF Next, Decide, Continue

\* A hash that is on record before the last setup was asked for is not the last
\* setup's.
LEMMA OldHash ==
    ASSUME FillsAlike, TypeOK, Asking, cr # Absent,
           NEW m \in 1..Len(asked), m # Len(asked), cr.ann \in Recorded(asked, m)
    PROVE  cr.ann # Hash(cr.setup)
  <1>1. /\ asked \in Seq(Inputs) /\ Len(asked) \in Nat
        /\ Distinct(asked) /\ cr.setup \in Forms(asked, Len(asked))
    BY DEF TypeOK, Asking
  <1>2. m \in Nat /\ Len(asked) \in 1..Len(asked) /\ m < Len(asked)
    BY <1>1
  <1> QED BY <1>1, <1>2, FormsApart

\* A new setup is not the one the annotation has the hash of.
LEMMA NewHash ==
    ASSUME Calm, FillsAlike, TypeOK, Unrepeated, Asking, Asking',
           UserActs \/ Finalize, cr' # Absent,
           LastStatus(cr'.conditions) = STATUS_SUCCESSFUL
    PROVE  cr'.ann # Hash(cr'.setup)
  <1>1. PICK s \in Inputs : asked' = Append(asked, s) /\ cr'.setup = s
    BY UsersAsk
  <1>2. /\ asked \in Seq(Inputs) /\ Len(asked) \in Nat
        /\ Len(asked) \in 0..Len(asked)
    BY DEF TypeOK
  <1>3. /\ asked' \in Seq(Inputs) /\ Len(asked') = Len(asked) + 1
        /\ Forms(asked', Len(asked')) = {s, Resolved(s)}
        /\ Recorded(asked', Len(asked)) = Recorded(asked, Len(asked))
    BY <1>1, <1>2, AnotherAsked
  <1>4. Distinct(asked')
    BY DEF Asking
  <1>5. cr # Absent /\ cr'.ann = cr.ann
    <2>1. LastStatus(NoConditions) = STATUS_UNKNOWN
          /\ STATUS_UNKNOWN # STATUS_SUCCESSFUL
      BY NoConditionsType, StatusNames DEF LastStatus
    <2> QED BY <2>1, UsersAsk
  <1>6. cr'.ann \in Recorded(asked', Len(asked))
    BY <1>3, <1>5 DEF Asking
  <1>7. Len(asked) \in Nat /\ Len(asked') \in 1..Len(asked')
        /\ Len(asked) < Len(asked')
    BY <1>2, <1>3
  <1>8. s \in Forms(asked', Len(asked'))
    BY <1>3
  <1>9. Hash(s) \notin Recorded(asked', Len(asked))
    BY <1>3, <1>4, <1>7, <1>8, FormsApart
  <1> QED BY <1>1, <1>6, <1>9

LEMMA HashTellsStep ==
    ASSUME Calm, FillsAlike, TypeOK, Effective, Unrepeated, Asking, Asking',
           Underway, Deserved, HashTells, [Next]_vars
    PROVE  HashTells'
  <1> SUFFICES ASSUME cr' # Absent,
                      LastStatus(cr'.conditions) = STATUS_SUCCESSFUL,
                      cr'.ann = Hash(cr'.setup)
               PROVE  \/ deployed' \in Deployments /\ deployed'.setup = cr'.setup
                      \/ /\ pc' = "status" /\ ~moved'
                         /\ LastStatus(Stored(obj'.conditions)) # STATUS_SUCCESSFUL
    BY DEF HashTells
  <1>0. STATUS_SUCCESSFUL # STATUS_UPDATING
    BY StatusNames
  <1>1. CASE Decide /\ ~IgnoreMissing
    <2>1. pc = "idle" /\ UNCHANGED <<cr, deployed>>
      BY <1>1 DEF Decide, ReconcilePaused, StartUpdating, StayPut, WaitToRetry,
             PatchDefinition, RefuseToDeploy, StartHelm, MustUpdate, Active,
             Reading, Proceed
    <2> QED BY <2>1 DEF HashTells
  <1>2. CASE HelmSucceeds \/ HelmRefuses \/ HelmFails
    BY <1>0, <1>2, HelmWrites DEF Unrepeated
  <1>3. CASE PatchObject
    <2>1. /\ pc = "patch" /\ pc' = "status" /\ ~moved' /\ cr # Absent
          /\ cr' = Patched /\ UNCHANGED <<obj, deployed>>
      BY <1>3 DEF PatchObject
    <2>2. /\ cr'.conditions = cr.conditions /\ cr'.ann = obj.ann
          /\ cr'.setup = MergedSetup
      BY <2>1, PatchWrites DEF Patched, TypeOK, Toolkits
    <2>3. LastStatus(base.conditions) = STATUS_SUCCESSFUL
          /\ LastStatus(cr.conditions) = STATUS_SUCCESSFUL
      BY <2>1, <2>2 DEF Unrepeated
    <2>4. CASE LastStatus(Stored(obj.conditions)) = STATUS_SUCCESSFUL
      <3>1. obj.setup = base.setup /\ obj.ann = base.ann /\ cr.ann = base.ann
        BY <2>1, <2>4 DEF Deserved, Underway
      <3>2. MergedSetup = cr.setup
        <4>1. cr.setup \in Setups
          BY <2>1 DEF TypeOK, Toolkits
        <4> QED BY <3>1, <4>1 DEF MergedSetup, Merged, Setups
      <3>3. deployed \in Deployments /\ deployed.setup = cr.setup
        BY <2>1, <2>2, <2>3, <3>1, <3>2 DEF HashTells
      <3> QED BY <2>1, <2>2, <3>2, <3>3
    <2> QED BY <2>1, <2>4
  <1>4. CASE PatchStatus
    <2>1. /\ pc = "status" /\ cr # Absent /\ cr' = StatusPatched
          /\ deployed' = deployed
      BY <1>4 DEF PatchStatus, Return
    <2>2. /\ cr'.setup = cr.setup /\ cr'.ann = cr.ann
          /\ cr'.conditions
               = Merged(cr.conditions, base.conditions, Stored(obj.conditions))
      BY <2>1 DEF StatusPatched, TypeOK, Toolkits
    <2>3. cr'.conditions = Stored(obj.conditions)
      BY <2>1, <2>2 DEF Unrepeated, Merged
    <2>4. obj.setup = base.setup /\ obj.ann = base.ann /\ cr.ann = base.ann
      BY <2>1, <2>3 DEF Deserved, Underway
    <2>5. CASE deployed \in Deployments /\ deployed.setup = obj.setup
      <3>1. PICK m \in 1..Len(asked) : Whence(m)
        BY <2>1 DEF Underway
      <3>2. CASE m = Len(asked)
        BY <2>1, <2>2, <2>5, <3>1, <3>2 DEF Whence
      <3>3. CASE m # Len(asked)
        <4>1. cr.ann # Hash(cr.setup)
          BY <2>1, <2>4, <3>1, <3>3, OldHash DEF Whence
        <4> QED BY <2>2, <4>1
      <3> QED BY <3>2, <3>3
    <2>6. CASE LastStatus(base.conditions) = STATUS_SUCCESSFUL
      <3>1. LastStatus(cr.conditions) = STATUS_SUCCESSFUL
        BY <2>1, <2>6 DEF Unrepeated
      <3> QED BY <2>1, <2>2, <2>3, <3>1 DEF HashTells
    <2> QED BY <2>1, <2>3, <2>5, <2>6 DEF Deserved
  <1>5. CASE PatchRejected
    <2>1. cr' = cr /\ moved /\ deployed' = deployed
      BY <1>5 DEF PatchRejected, Return
    <2> QED BY <2>1 DEF HashTells
  <1>6. CASE PatchFault
    <2>1. cr' = cr /\ pc = "patch" /\ deployed' = deployed
      BY <1>6, CalmFacts DEF PatchFault, Return
    <2> QED BY <2>1 DEF HashTells
  <1>7. CASE \E v \in Versions : Restart(v)
    <2>1. /\ cr' = cr /\ pc # "status"
          /\ pc # "deploy" => deployed' = deployed
      BY <1>7, CalmFacts DEF Restart, Relist
    <2>2. pc # "deploy"
      BY <1>0, <2>1 DEF Unrepeated, Effective
    <2> QED BY <2>1, <2>2 DEF HashTells
  <1>8. CASE IgnoreMissing \/ Sync \/ Tick \/ UNCHANGED vars
    <2>1. UNCHANGED <<pc, moved, cr, obj, deployed>>
      BY <1>8 DEF IgnoreMissing, Sync, Tick, vars, object, call
    <2> QED BY <2>1 DEF HashTells
  <1>9. CASE UserActs \/ Finalize
    BY <1>9, NewHash
  <1> QED BY <1>1, <1>2, <1>3, <1>4, <1>5, <1>6, <1>7, <1>8, <1>9
          DEF Next, Decide, Continue

LEMMA ComparedStep ==
    ASSUME TypeOK, Timely, Effective, Compared, [Next]_vars
    PROVE  Compared'
  <1>1. CASE IgnoreMissing
    BY <1>1 DEF IgnoreMissing, Reading, call, Compared
  <1>2. CASE ReconcilePaused
    BY <1>2 DEF ReconcilePaused, Proceed, Compared
  <1>3. CASE StartUpdating
    BY <1>3, AnnouncementShows DEF Compared
  <1>4. CASE StayPut
    <2>1. /\ base' = cache
          /\ LastStatus(cache.conditions) = STATUS_SUCCESSFUL
               => ~ConfigurationChanged(cache)
      BY <1>4, StatusNames DEF StayPut, Proceed, MustUpdate, Active
    <2> QED BY <2>1 DEF Compared, ConfigurationChanged, LastHash
  <1>5. CASE WaitToRetry \/ PatchDefinition \/ RefuseToDeploy
    BY <1>5 DEF WaitToRetry, PatchDefinition, RefuseToDeploy, Proceed, Compared
  <1>6. CASE StartHelm
    <2>1. pc' = "deploy"
      BY <1>6 DEF StartHelm, Proceed
    <2> QED BY <2>1 DEF Compared
  <1>7. CASE HelmSucceeds
    BY <1>7, SuccessShows DEF Compared
  <1>8. CASE HelmRefuses \/ HelmFails
    BY <1>8 DEF HelmRefuses, HelmFails, HelmEnds, Compared
  <1>9. CASE PatchObject
    BY <1>9 DEF PatchObject, Compared, Ineffective, ConfigurationChanged, LastHash
  <1>10. CASE \/ PatchStatus \/ PatchRejected \/ PatchFault
              \/ \E v \in Versions : Restart(v)
    <2>1. pc' = "idle"
      BY <1>10 DEF PatchStatus, PatchRejected, PatchFault, Return, Restart, Relist
    <2> QED BY <2>1 DEF Compared
  <1>11. CASE Sync \/ Tick \/ UserActs \/ Finalize \/ UNCHANGED vars
    <2>1. UNCHANGED call
      BY <1>11 DEF Sync, Tick, UserActs, Create, Edit, Replace, SetPaused, Delete,
                   DeleteForeground, UserWrites, Finalize, vars
    <2> QED BY <2>1 DEF call, Compared, Ineffective, ConfigurationChanged, LastHash
  <1> QED BY <1>1, <1>2, <1>3, <1>4, <1>5, <1>6, <1>7, <1>8, <1>9, <1>10, <1>11
          DEF Next, Decide, Continue

LEMMA InSyncStep ==
    ASSUME TypeOK, TypeOK', Fresh, Effective, Underway, HashTells, Compared,
           VersionInSync', InSync, [Next]_vars
    PROVE  InSync'
  <1> SUFFICES ASSUME Reported'
               PROVE  deployed' = [setup |-> cr'.setup, version |-> operator']
    BY DEF InSync
  <1>1. /\ Quiescent' /\ cr' # Absent /\ ~cr'.paused
        /\ LastStatus(cr'.conditions) = STATUS_SUCCESSFUL
    BY DEF Reported, Last
  <1>2. CASE PatchStatus /\ ~queued' /\ ~lagging'
    <2>1. /\ cr' = base /\ cr = base /\ pc = "status" /\ ~requeue /\ Ineffective
          /\ deployed' = deployed
      BY <1>2, QuietReturn DEF PatchStatus, Return
    <2>2. base.ann = Hash(base.setup)
      <3>1. base.ann # NoAnnotations
        BY <2>1 DEF Ineffective, Underway
      <3> QED BY <1>1, <2>1, <3>1 DEF Compared, ConfigurationChanged, LastHash
    <2>3. deployed'.setup = cr'.setup
      BY <1>1, <2>1, <2>2 DEF HashTells, Ineffective
    <2>4. deployed' \in Deployments /\ deployed'.version = operator'
      BY DEF VersionInSync
    <2> QED BY <2>3, <2>4 DEF Deployments
  <1>3. CASE Quiescent /\ cr' = cr
    <2>1. Reported /\ UNCHANGED <<deployed, operator>>
      BY <1>1, <1>3, NothingStirs DEF Reported, Last
    <2> QED BY <1>3, <2>1 DEF InSync
  <1> QED BY <1>1, <1>2, <1>3, ComesToRest

\* What is reported as deployed is what the object asks for, whichever edits,
\* failures, upgrades and crashes fall between the steps of a call: an edit is
\* never mistaken for what Helm was given before it.
THEOREM NoEditIsLost ==
    ASSUME Calm, FillsAlike
    PROVE  Spec => []InSync
  <1> DEFINE I == /\ Truthful /\ Current /\ VersionInSync /\ Unrepeated
                  /\ Asking /\ Underway /\ Deserved /\ HashTells /\ Compared
  <1>0. /\ "lag" \notin Environment /\ "recreate" \notin Environment
        /\ "handover" \notin Environment
    BY CalmFacts
  <1>1. Init => Inv /\ I /\ InSync
    <2>1. ASSUME Init PROVE asked = <<>> /\ Len(asked) = 0
      BY <2>1 DEF Init
    <2>2. Init => Inv
      BY <1>0, InitInv
    <2> QED BY <2>1, <2>2 DEF Init, Truthful, Current, VersionInSync,
               Unrepeated, Asking, Distinct, Underway, Deserved, HashTells,
               Compared, InSync, Reported
  <1>2. TypeOK /\ Inv /\ [Next]_vars => Inv'
    BY FreshStep, TimelyStep, EffectiveStep, SettledStep DEF Inv
  <1>3. TypeOK /\ Inv /\ I /\ [Next]_vars => I'
    <2> SUFFICES ASSUME TypeOK, Inv, I, [Next]_vars PROVE I'
      OBVIOUS
    <2>1. Truthful' /\ Current' /\ VersionInSync' /\ Unrepeated'
      BY <1>0, TruthfulStep, CurrentStep, VersionStep, UnrepeatedStep DEF Inv
    <2>2. Asking' /\ Underway' /\ Deserved' /\ Compared'
      BY AskingStep, UnderwayStep, DeservedStep, ComparedStep DEF Inv
    <2>3. HashTells'
      BY <2>2, HashTellsStep DEF Inv
    <2> QED BY <2>1, <2>2, <2>3
  <1>4. TypeOK /\ TypeOK' /\ Inv /\ I /\ I' /\ InSync /\ [Next]_vars => InSync'
    BY InSyncStep DEF Inv
  <1> HIDE DEF I
  <1> QED BY <1>1, <1>2, <1>3, <1>4, TypeCorrect, PTL DEF Spec

-----------------------------------------------------------------------------
(* What an object keeps of its own when it shares the operator and what     *)
(* Helm installs with another one: nothing here says what is deployed.      *)

\* The operator restarts, whatever becomes of the Helm run under way.
LEMMA RelistKeeps ==
    ASSUME TypeOK, Inv, NEW v \in Versions, Relist(v)
    PROVE  Inv'
  <1>1. /\ cr' = cr /\ cache' = cr /\ queued' = (cr # Absent) /\ ~lagging'
        /\ pc' = "idle" /\ base' = Absent /\ obj' = Absent
        /\ clock' = clock + 1 /\ clock \in Nat
    BY DEF Relist, TypeOK, Inv, Timely
  <1>2. Fresh' /\ Effective'
    BY <1>1 DEF Fresh, Effective
  <1>3. Timely'
    <2>1. ASSUME cr # Absent PROVE Dated(cr)'
      <3>1. Dated(cr) /\ cr \in Toolkits
        BY <2>1 DEF Timely, Inv, TypeOK
      <3> QED BY <1>1, <3>1, LaterDated DEF Dated
    <2> QED BY <1>1, <2>1 DEF Timely, Inv
  <1>4. Settled'
    BY <1>1 DEF Settled, Quiescent
  <1> QED BY <1>2, <1>3, <1>4 DEF Inv

LEMMA RelistType ==
    ASSUME TypeOK, NEW v \in Versions, Relist(v),
           deployed' \in Deployments \cup {Nothing, Partial}
    PROVE  TypeOK'
  <1>1. queued' \in BOOLEAN /\ clock' \in Nat /\ faults' \in Nat
    BY DEF Relist, TypeOK
  <1> QED BY <1>1 DEF Relist, TypeOK

LEMMA InvStep ==
    ASSUME TypeOK, Inv, [Next]_vars
    PROVE  TypeOK' /\ Inv'
  BY NextType, FreshStep, TimelyStep, EffectiveStep, SettledStep DEF Inv

\* Which steps a call takes, and when the operator and the time change.
LEMMA StepsOfCalls ==
    /\ Decide => pc = "idle" /\ UNCHANGED <<clock, operator>>
    /\ Continue => /\ pc # "idle" /\ pc' # "deploy"
                   /\ UNCHANGED <<clock, operator>>
    /\ Sync \/ UserActs \/ Finalize => UNCHANGED <<pc, clock, operator>>
    /\ Tick => UNCHANGED <<pc, deployed, operator>>
  <1>1. Decide => pc = "idle" /\ UNCHANGED <<clock, operator>>
    BY DEF Decide, IgnoreMissing, ReconcilePaused, StartUpdating, StayPut,
           WaitToRetry, PatchDefinition, RefuseToDeploy, StartHelm, MustUpdate,
           Active, Reading, Proceed
  <1>2. Continue => /\ pc # "idle" /\ pc' # "deploy"
                    /\ UNCHANGED <<clock, operator>>
    BY DEF Continue, HelmSucceeds, HelmRefuses, HelmFails, HelmEnds, PatchObject,
           PatchStatus, PatchRejected, PatchFault, Return
  <1>3. Sync \/ UserActs \/ Finalize => UNCHANGED <<pc, clock, operator>>
    BY DEF Sync, UserActs, Create, Edit, Replace, SetPaused, Delete,
           DeleteForeground, UserWrites, Finalize, call
  <1>4. Tick => UNCHANGED <<pc, deployed, operator>>
    BY DEF Tick, call
  <1> QED BY <1>1, <1>2, <1>3, <1>4

\* What is reported, and that one object is all there is.
Own == Current /\ VersionShown /\ Unrepeated

LEMMA InitOwn ==
    ASSUME "handover" \notin Environment
    PROVE  Init => TypeOK /\ Inv /\ Own
  BY InitType, InitInv DEF Init, Own, Current, VersionShown, Unrepeated, Reported

LEMMA OwnStep ==
    ASSUME "lag" \notin Environment, "recreate" \notin Environment,
           TypeOK, Inv, Own, [Next]_vars
    PROVE  Own'
  BY CurrentStep, VersionShownStep, UnrepeatedStep DEF Own, Inv

LEMMA OwnRelist ==
    ASSUME Own, NEW v \in Versions, Relist(v)
    PROVE  Own'
  <1>1. /\ cr' = cr /\ cache' = cr /\ queued' = (cr # Absent)
        /\ pc' = "idle" /\ asked' = asked
    BY DEF Relist
  <1> QED BY <1>1 DEF Own, Current, VersionShown, Unrepeated, Reported, Quiescent

-----------------------------------------------------------------------------
(* The successes an object tells of, stored ones and one that is on its way *)
(* to be stored, when users leave the setup they have written alone.        *)

WrittenOnce == Environment \cap {"lag", "edit", "replace", "recreate"} = {}

\* A success of these conditions, with what was installed and when.
Success(setup, conds) ==
    [what |-> [setup |-> setup, version |-> conds[STATUS_SUCCESSFUL].version],
     sec |-> conds[STATUS_SUCCESSFUL].sec]

Claims == cr # Absent /\ LastStatus(cr.conditions) = STATUS_SUCCESSFUL
Claimed == Success(cr.setup, cr.conditions)

Pending ==
    /\ pc \in {"patch", "status"}
    /\ LastStatus(Stored(obj.conditions)) = STATUS_SUCCESSFUL
    /\ LastStatus(base.conditions) # STATUS_SUCCESSFUL
Promised == Success(obj.setup, Stored(obj.conditions))

\* The call in flight only changes the setup of an object that is Updating, and
\* a success it has read and reports again is the same success.
Constant ==
    pc # "idle" =>
        /\ cr # Absent =>
             cr.setup = IF pc = "status" THEN obj.setup ELSE base.setup
        /\ obj.setup # base.setup =>
             /\ pc # "deploy"
             /\ LastStatus(base.conditions) = STATUS_UPDATING
        /\ pc # "deploy" /\ LastStatus(Stored(obj.conditions)) = STATUS_SUCCESSFUL =>
             /\ obj.setup = base.setup
             /\ LastStatus(base.conditions) = STATUS_SUCCESSFUL =>
                  Promised = Success(base.setup, base.conditions)

\* What Reconcile makes of the object it reads.
LEMMA DecideKeeps ==
    ASSUME "lag" \notin Environment, TypeOK, Timely, Fresh, Decide, ~IgnoreMissing
    PROVE  /\ pc = "idle" /\ cr # Absent /\ cr \in Toolkits /\ base' = cr
           /\ UNCHANGED <<cr, deployed, operator, clock, edits, faults>>
           /\ pc' \in {"deploy", "patch"}
           /\ pc' = "deploy" => /\ obj' = Annotated(cr)
                                /\ LastStatus(cr.conditions) = STATUS_UPDATING
           /\ obj'.setup # cr.setup => LastStatus(cr.conditions) = STATUS_UPDATING
           /\ pc' = "patch"
              /\ LastStatus(Stored(obj'.conditions)) = STATUS_SUCCESSFUL =>
                 /\ obj'.setup = cr.setup
                 /\ LastStatus(cr.conditions) = STATUS_SUCCESSFUL
                 /\ Promised' = Success(cr.setup, cr.conditions)
  <1> DEFINE c == cr.conditions
             same == /\ obj'.setup = cr.setup
                     /\ LastStatus(cr.conditions) = STATUS_SUCCESSFUL
                     /\ Promised' = Success(cr.setup, cr.conditions)
  <1>1. pc = "idle" /\ cache = cr /\ cache # Absent /\ Reading /\ base' = cache
        /\ pc' \in {"deploy", "patch"}
        /\ UNCHANGED <<cr, deployed, operator, clock, edits, faults>>
    BY DEF Decide, ReconcilePaused, StartUpdating, StayPut,
           WaitToRetry, PatchDefinition, RefuseToDeploy, StartHelm, MustUpdate,
           Active, Reading, Fresh, Proceed, bounds
  <1>2. /\ cr \in Toolkits /\ c \in ConditionMaps /\ Dated(cr)
        /\ cr.setup \in Setups
        /\ \A s \in Present(c) : c[s].frac = 0 /\ c[s].sec <= clock
        /\ clock \in Nat /\ operator \in Versions
    BY <1>1, ReconcilerAssumption DEF TypeOK, Timely, Toolkits, Dated
  <1>3. ASSUME NEW s \in Statuses \ {STATUS_SUCCESSFUL}, NEW v \in Versions,
               obj'.conditions = Put(c, s, Stamp(clock, v)),
               obj'.setup = cr.setup,
               LastStatus(Stored(obj'.conditions)) = STATUS_SUCCESSFUL
        PROVE  same
    BY <1>2, <1>3, NoNewSuccess DEF Promised, Success
  <1>4. /\ Annotated(cr) \in Toolkits
        /\ Annotated(cr).conditions = c /\ Dated(Annotated(cr))
        /\ Annotated(cr).setup = cr.setup
    BY <1>2, AnnotatedType DEF Dated
  <1>5. /\ STATUS_PAUSED \in Statuses \ {STATUS_SUCCESSFUL}
        /\ STATUS_UPDATING \in Statuses \ {STATUS_SUCCESSFUL}
        /\ STATUS_FAILED \in Statuses \ {STATUS_SUCCESSFUL}
    BY StatusNames
  <1>6. CASE ReconcilePaused
    <2>1. obj' = ToPaused(Annotated(cr)) /\ pc' = "patch"
      BY <1>1, <1>6 DEF ReconcilePaused, Proceed
    <2>2. obj'.setup = cr.setup
      BY <1>4, <2>1 DEF ToPaused, Toolkits
    <2> QED BY <1>1, <1>2, <1>3, <1>4, <1>5, <2>1, <2>2, ToPausedDated
  <1>7. CASE StartUpdating
    <2>1. obj' = ToUpdating(cr, Hash(cr.setup)) /\ pc' = "patch"
      BY <1>1, <1>7 DEF StartUpdating, Proceed
    <2>2. obj'.setup = cr.setup
      BY <1>2, <2>1 DEF ToUpdating, Marked, Toolkits
    <2> QED BY <1>1, <1>2, <1>3, <1>5, <2>1, <2>2, ToUpdatingDated
  <1>8. CASE PatchDefinition
    <2>1. PICK r : obj' = [ToUpdating(cr, Hash(cr.setup)) EXCEPT !.setup = r]
      BY <1>1, <1>8 DEF PatchDefinition, Proceed
    <2>2. pc' = "patch" /\ LastStatus(c) = STATUS_UPDATING
      BY <1>1, <1>8 DEF PatchDefinition, Proceed, Active
    <2>3. ToUpdating(cr, Hash(cr.setup)) \in Toolkits
      BY <1>2, ToUpdatingType DEF Hashes
    <2>4. obj'.conditions = Put(c, STATUS_UPDATING, Stamp(clock, operator))
      <3>1. obj'.conditions = ToUpdating(cr, Hash(cr.setup)).conditions
        BY <2>1, <2>3 DEF Toolkits
      <3> QED BY <1>2, <3>1, ToUpdatingDated
    <2>5. LastStatus(Stored(obj'.conditions)) # STATUS_SUCCESSFUL
      BY <1>2, <1>5, <2>2, <2>4, StatusNames, NoNewSuccess
    <2> QED BY <1>1, <1>2, <2>2, <2>5
  <1>9. CASE RefuseToDeploy
    <2>1. obj' = Marked(Annotated(cr), STATUS_FAILED) /\ pc' = "patch"
      BY <1>1, <1>9 DEF RefuseToDeploy, Proceed
    <2>2. /\ obj'.conditions = Put(c, STATUS_FAILED, Stamp(clock, operator))
          /\ obj'.setup = cr.setup
      BY <1>4, <2>1 DEF Marked, Toolkits
    <2> QED BY <1>1, <1>2, <1>3, <1>5, <2>1, <2>2
  <1>10. CASE StayPut \/ WaitToRetry
    <2>1. obj' = Annotated(cr) /\ pc' = "patch"
      BY <1>1, <1>10 DEF StayPut, WaitToRetry, Proceed
    <2>2. Stored(obj'.conditions) = c
      BY <1>2, <1>4, <2>1, StoredAgain
    <2>3. obj'.setup = cr.setup /\ Promised' = Success(cr.setup, c)
      BY <1>4, <2>1, <2>2 DEF Promised
    <2> QED BY <1>1, <1>2, <2>1, <2>2, <2>3
  <1>11. CASE StartHelm
    <2>1. obj' = Annotated(cr) /\ pc' = "deploy"
          /\ LastStatus(cr.conditions) = STATUS_UPDATING
      BY <1>1, <1>11 DEF StartHelm, Proceed, Active
    <2> QED BY <1>1, <1>2, <1>4, <2>1
  <1> QED BY <1>6, <1>7, <1>8, <1>9, <1>10, <1>11 DEF Decide

\* The users leave what they have written alone, or delete it.
LEMMA UsersKeep ==
    ASSUME WrittenOnce, TypeOK, Unrepeated, UserActs \/ Finalize
    PROVE  /\ UNCHANGED <<pc, base, obj, deployed, clock, operator, faults>>
           /\ UserActs => edits' = edits + 1
           /\ Finalize => edits' = edits
           /\ \/ cr' = Absent
              \/ /\ cr # Absent /\ cr' # Absent /\ UserActs
                 /\ cr'.setup = cr.setup /\ cr'.ann = cr.ann
                 /\ cr'.conditions = cr.conditions
              \/ /\ cr = Absent /\ cr' # Absent /\ UserActs /\ pc = "idle"
                 /\ cr'.setup \in Inputs /\ cr'.conditions = NoConditions
  <1>1. /\ \A s : ~Edit(s) /\ ~Replace(s)
        /\ "recreate" \notin Environment
    BY DEF Edit, Replace, WrittenOnce
  <1>2. UNCHANGED <<pc, base, obj, deployed, clock, operator, faults>>
        /\ (UserActs => edits' = edits + 1)
        /\ (Finalize => edits' = edits)
    BY DEF UserActs, Create, Edit, Replace, SetPaused, Delete,
           DeleteForeground, UserWrites, Finalize, call, bounds
  <1>3. ASSUME NEW s \in Inputs, NEW p \in BOOLEAN,
               NEW a \in {NoAnnotations, NoHash}, Create(s, p, a)
        PROVE  /\ cr = Absent /\ cr' # Absent /\ pc = "idle"
               /\ cr'.setup \in Inputs /\ cr'.conditions = NoConditions
    <2>1. asked = <<>> /\ pc = "idle" /\ cr = Absent
      BY <1>1, <1>3 DEF Create, Unrepeated
    <2>2. cr' = [setup |-> s, paused |-> p, ann |-> a, terminating |-> FALSE,
                 conditions |-> NoConditions, phase |-> STATUS_UNKNOWN,
                 version |-> Empty]
      BY <1>3 DEF Create, UserWrites
    <2>3. s \in Setups
      BY ReconcilerAssumption
    <2>4. cr' \in Toolkits
      BY <2>2, <2>3, NoConditionsType DEF Toolkits
    <2>5. cr'.setup = s /\ cr'.conditions = NoConditions
      BY <2>2
    <2> QED BY <2>1, <2>4, <2>5, ReconcilerAssumption
  <1>4. CASE (\E p \in BOOLEAN : SetPaused(p)) \/ DeleteForeground
    <2>1. /\ cr \in Toolkits /\ cr # Absent /\ UserActs
          /\ \/ \E p \in BOOLEAN : cr' = [cr EXCEPT !.paused = p]
             \/ cr' = [cr EXCEPT !.terminating = TRUE]
      BY <1>4 DEF SetPaused, DeleteForeground, UserWrites, TypeOK, UserActs
    <2>2. cr' \in Toolkits
      BY <2>1 DEF Toolkits
    <2>3. /\ cr'.setup = cr.setup /\ cr'.ann = cr.ann
          /\ cr'.conditions = cr.conditions
      BY <2>1 DEF Toolkits
    <2> QED BY <1>2, <2>1, <2>2, <2>3, ReconcilerAssumption
  <1>5. CASE Delete \/ Finalize
    BY <1>2, <1>5 DEF Delete, Finalize, UserWrites
  <1>6. CASE \E s \in Inputs, p \in BOOLEAN, a \in {NoAnnotations, NoHash} :
               Create(s, p, a)
    BY <1>2, <1>3, <1>6 DEF UserActs
  <1> QED BY <1>1, <1>2, <1>4, <1>5, <1>6 DEF UserActs

\* Helm leaves its verdict, and a success is one that it has had just now.
LEMMA HelmReports ==
    ASSUME TypeOK, Timely, Effective, HelmSucceeds \/ HelmRefuses \/ HelmFails
    PROVE  /\ pc = "deploy" /\ pc' = "patch"
           /\ LastStatus(base.conditions) = STATUS_UPDATING
           /\ UNCHANGED <<base, cr, clock, operator, edits>>
           /\ obj'.setup = obj.setup /\ obj'.ann = obj.ann
           /\ HelmSucceeds =>
                /\ LastStatus(Stored(obj'.conditions)) = STATUS_SUCCESSFUL
                /\ Promised' = [what |-> deployed', sec |-> clock]
                /\ deployed'.version = operator
                /\ faults' = faults
           /\ ~HelmSucceeds =>
                LastStatus(Stored(obj'.conditions)) # STATUS_SUCCESSFUL
  <1> DEFINE b == base.conditions
             stamp == Stamp(clock, operator)
             o(s) == Put(b, s, stamp)
  <1>1. /\ pc = "deploy" /\ pc' = "patch" /\ UNCHANGED <<base, cr, clock, operator, edits>>
        /\ obj.conditions = b /\ LastStatus(b) = STATUS_UPDATING
        /\ base \in Toolkits /\ b \in ConditionMaps /\ obj \in Toolkits
        /\ obj.setup \in Setups
        /\ clock \in Nat /\ operator \in Versions
    BY DEF HelmSucceeds, HelmRefuses, HelmFails, HelmEnds, Effective, TypeOK,
           Toolkits, object
  <1>2. \A t \in Present(b) : b[t].frac = 0 /\ b[t].sec <= clock
    BY <1>1, ReconcilerAssumption DEF Timely, Dated
  <1>3. stamp \in Condition /\ stamp.sec = clock /\ stamp.version = operator
    BY <1>1, StampType DEF Stamp
  <1>4. ASSUME NEW s, obj' = Marked(obj, s)
        PROVE  obj'.conditions = o(s) /\ obj'.setup = obj.setup /\ obj'.ann = obj.ann
    BY <1>1, <1>4 DEF Marked, Toolkits
  <1> HIDE DEF stamp
  <1>5. LastStatus(Stored(o(STATUS_FAILED))) # STATUS_SUCCESSFUL
    BY <1>1, <1>2, StatusNames, NoNewSuccess DEF stamp
  <1>6. /\ LastStatus(Stored(o(STATUS_SUCCESSFUL))) = STATUS_SUCCESSFUL
        /\ Stored(o(STATUS_SUCCESSFUL))[STATUS_SUCCESSFUL].version = operator
        /\ Stored(o(STATUS_SUCCESSFUL))[STATUS_SUCCESSFUL].sec = clock
    <2> DEFINE p == o(STATUS_SUCCESSFUL)
               d == Stored(p)
    <2>0. STATUS_SUCCESSFUL \in Statuses
      BY StatusNames
    <2>1. /\ p \in ConditionMaps /\ p[STATUS_SUCCESSFUL] = stamp
          /\ \A t \in Statuses \ {STATUS_SUCCESSFUL} : p[t] = b[t]
          /\ Present(p) = Present(b) \cup {STATUS_SUCCESSFUL}
      BY <1>1, <1>3, <2>0, PutType
    <2> HIDE DEF p
    <2>2. /\ d \in ConditionMaps /\ Present(d) = Present(p)
          /\ \A t \in Present(p) : /\ d[t].sec = p[t].sec /\ d[t].frac = 0
                                   /\ d[t].version = p[t].version
      BY <2>1, StoredType
    <2> HIDE DEF d
    <2>3. d[STATUS_SUCCESSFUL].version = operator /\ d[STATUS_SUCCESSFUL].sec = clock
      BY <1>3, <2>1, <2>2
    <2>4. STATUS_UPDATING \in Present(b)
          /\ \A t \in Present(b) : Beats(b, STATUS_UPDATING, t)
      <3>1. Present(b) # {}
        BY <1>1, StatusNames DEF LastStatus
      <3> QED BY <1>1, <3>1, LastStatusIsBest
    <2>5. ASSUME NEW t \in Present(d) \ {STATUS_SUCCESSFUL}
          PROVE  \/ Later(d[STATUS_SUCCESSFUL], d[t])
                 \/ /\ ~Later(d[t], d[STATUS_SUCCESSFUL])
                    /\ Position[STATUS_SUCCESSFUL] < Position[t]
      <3>1. /\ t \in Present(b) /\ t \in Statuses /\ d[t].sec = b[t].sec
            /\ d[t].frac = 0 /\ d[STATUS_SUCCESSFUL].frac = 0
            /\ b[t].frac = 0 /\ b[STATUS_UPDATING].frac = 0
        BY <1>2, <2>1, <2>2, <2>4 DEF Present
      <3>2. b[t].sec \in Nat /\ b[t].sec <= clock /\ b[STATUS_UPDATING].sec \in Nat
            /\ b[STATUS_UPDATING].sec <= clock
        BY <1>1, <1>2, <2>4, <3>1, PresentHasStamp
      <3>3. CASE t = STATUS_UPDATING
        <4>1. Position[STATUS_SUCCESSFUL] < Position[STATUS_UPDATING]
          BY Positions
        <4> QED BY <1>1, <2>3, <3>1, <3>2, <3>3, <4>1 DEF Later
      <3>4. CASE t # STATUS_UPDATING
        <4>1. Position[t] < Position[STATUS_UPDATING]
          BY <3>1, <3>4, Positions DEF Statuses
        <4>2. Position[t] \in Nat /\ Position[STATUS_UPDATING] \in Nat
          BY <3>1, Positions DEF Statuses
        <4>3. ~(Position[STATUS_UPDATING] <= Position[t])
          BY <4>1, <4>2
        <4>4. b[t].sec < b[STATUS_UPDATING].sec
          BY <2>4, <3>1, <3>2, <4>3 DEF Beats, Later
        <4> QED BY <1>1, <2>3, <3>1, <3>2, <4>4 DEF Later
      <3> QED BY <3>3, <3>4
    <2>6. LastStatus(d) = STATUS_SUCCESSFUL
      BY <2>0, <2>1, <2>2, <2>5, LatestIsLast
    <2> QED BY <2>3, <2>6 DEF d, p
  <1> HIDE DEF o
  <1>7. CASE HelmSucceeds
    <2>1. /\ obj' = Marked(obj, STATUS_SUCCESSFUL) /\ faults' = faults
          /\ deployed' = [setup |-> obj.setup, version |-> operator]
      BY <1>7 DEF HelmSucceeds, HelmEnds
    <2>2. deployed'.version = operator
      BY <2>1
    <2> QED BY <1>1, <1>4, <1>6, <1>7, <2>1, <2>2 DEF Promised, Success
  <1>8. CASE (HelmRefuses \/ HelmFails) /\ ~HelmSucceeds
    <2>1. obj' = Marked(obj, STATUS_FAILED)
      BY <1>8 DEF HelmRefuses, HelmFails, HelmEnds
    <2> QED BY <1>1, <1>4, <1>5, <1>8, <2>1
  <1> QED BY <1>7, <1>8

\* r.Patch writes the setup of an object that nobody edits as the call has it,
\* and changes it only if the object is Updating.
LEMMA PatchKeeps ==
    ASSUME TypeOK, Unrepeated, Constant, pc = "patch", cr # Absent
    PROVE  /\ Patched # Absent /\ Patched.setup = obj.setup
           /\ Patched.conditions = cr.conditions
           /\ LastStatus(cr.conditions) # STATUS_UPDATING
                => Patched.setup = cr.setup
  <1>1. /\ cr \in Toolkits /\ base \in Toolkits /\ obj \in Toolkits
        /\ cr.setup \in Setups /\ base.setup \in Setups /\ obj.setup \in Setups
    BY DEF TypeOK, Toolkits
  <1>2. /\ Patched # Absent /\ Patched.setup = MergedSetup
        /\ Patched.conditions = cr.conditions
    BY <1>1, PatchedType, ReconcilerAssumption DEF Patched, Toolkits
  <1>3. cr.setup = base.setup /\ cr.conditions = base.conditions
    BY DEF Constant, Unrepeated
  <1>4. MergedSetup = obj.setup
    BY <1>1, <1>3 DEF MergedSetup, Merged, Setups
  <1> QED BY <1>2, <1>3, <1>4 DEF Constant

LEMMA ConstantStep ==
    ASSUME WrittenOnce, TypeOK, Timely, Fresh, Effective, Unrepeated, Constant,
           [Next]_vars
    PROVE  Constant'
  <1>1. CASE Decide /\ ~IgnoreMissing
    <2>1. "lag" \notin Environment
      BY DEF WrittenOnce
    <2>2. /\ cr \in Toolkits /\ base' = cr /\ cr' = cr
          /\ pc' \in {"deploy", "patch"}
          /\ pc' = "deploy" => obj' = Annotated(cr)
          /\ obj'.setup # cr.setup => LastStatus(cr.conditions) = STATUS_UPDATING
          /\ pc' = "patch"
             /\ LastStatus(Stored(obj'.conditions)) = STATUS_SUCCESSFUL =>
                /\ obj'.setup = cr.setup
                /\ Promised' = Success(cr.setup, cr.conditions)
      BY <1>1, <2>1, DecideKeeps
    <2>3. Annotated(cr).setup = cr.setup
      BY <2>2, AnnotatedType
    <2> QED BY <2>2, <2>3 DEF Constant, Success
  <1>2. CASE HelmSucceeds \/ HelmRefuses \/ HelmFails
    <2>1. STATUS_UPDATING # STATUS_SUCCESSFUL
      BY StatusNames
    <2> QED BY <1>2, <2>1, HelmReports DEF Constant
  <1>3. CASE PatchObject
    <2>1. /\ pc = "patch" /\ pc' = "status" /\ cr # Absent /\ cr' = Patched
          /\ UNCHANGED <<base, obj>>
      BY <1>3 DEF PatchObject
    <2> QED BY <2>1, PatchKeeps DEF Constant, Promised, Success
  <1>4. CASE \/ PatchStatus \/ PatchRejected \/ PatchFault
             \/ \E v \in Versions : Restart(v)
    <2>1. pc' = "idle"
      BY <1>4 DEF PatchStatus, PatchRejected, PatchFault, Return, Restart, Relist
    <2> QED BY <2>1 DEF Constant
  <1>5. CASE UserActs \/ Finalize
    BY <1>5, UsersKeep DEF Constant, Promised, Success
  <1>6. CASE IgnoreMissing \/ Sync \/ Tick \/ UNCHANGED vars
    <2>1. UNCHANGED <<pc, base, obj, cr>>
      BY <1>6 DEF IgnoreMissing, Sync, Tick, vars, object, call
    <2> QED BY <2>1 DEF Constant, Promised, Success
  <1> QED BY <1>1, <1>2, <1>3, <1>4, <1>5, <1>6 DEF Next, Decide, Continue

\* Where successes come from: the stored one is the one that was stored, or the
\* one on its way; that one is Helm's, of the present second.  While Helm works
\* on an object, the object claims no success.
LEMMA SuccessStep ==
    ASSUME WrittenOnce, TypeOK, Timely, Fresh, Effective, Unrepeated, Constant,
           [Next]_vars
    PROVE  /\ Claims' => \/ Claims /\ Claimed' = Claimed
                         \/ /\ Pending /\ Claimed' = Promised
                            /\ deployed' = deployed
           /\ Pending' => \/ Pending /\ UNCHANGED <<Promised, deployed>>
                          \/ /\ pc = "deploy" /\ clock' = clock
                             /\ Promised' = [what |-> deployed', sec |-> clock]
           /\ deployed' # deployed => pc = "deploy" /\ ~Claims'
  <1>0. STATUS_UPDATING # STATUS_SUCCESSFUL
    BY StatusNames
  <1>1. CASE Decide /\ ~IgnoreMissing
    <2>1. "lag" \notin Environment
      BY DEF WrittenOnce
    <2>2. /\ base' = cr /\ cr' = cr /\ deployed' = deployed
          /\ pc' \in {"deploy", "patch"}
          /\ pc' = "patch"
             /\ LastStatus(Stored(obj'.conditions)) = STATUS_SUCCESSFUL =>
                LastStatus(cr.conditions) = STATUS_SUCCESSFUL
      BY <1>1, <2>1, DecideKeeps
    <2> QED BY <2>2 DEF Claims, Claimed, Pending
  <1>2. CASE HelmSucceeds \/ HelmRefuses \/ HelmFails
    <2>1. /\ pc = "deploy" /\ pc' = "patch" /\ cr' = cr /\ clock' = clock
          /\ LastStatus(base.conditions) = STATUS_UPDATING
          /\ LastStatus(Stored(obj'.conditions)) = STATUS_SUCCESSFUL =>
               Promised' = [what |-> deployed', sec |-> clock]
      BY <1>2, HelmReports
    <2>2. ~Claims'
      BY <1>0, <2>1 DEF Claims, Unrepeated
    <2> QED BY <2>1, <2>2 DEF Pending
  <1>3. CASE PatchObject
    <2>1. /\ pc = "patch" /\ pc' = "status" /\ cr # Absent /\ cr' = Patched
          /\ UNCHANGED <<base, obj, deployed>>
      BY <1>3 DEF PatchObject
    <2> QED BY <1>0, <2>1, PatchKeeps DEF Claims, Claimed, Pending, Promised, Success
  <1>4. CASE /\ PatchStatus \/ PatchFault
             /\ pc = "status" /\ cr' = StatusPatched
    <2>1. /\ pc = "status" /\ pc' = "idle" /\ cr # Absent /\ cr' = StatusPatched
          /\ deployed' = deployed
      BY <1>4 DEF PatchStatus, PatchFault, Return
    <2>2. /\ cr'.setup = cr.setup
          /\ cr'.conditions
               = Merged(cr.conditions, base.conditions, Stored(obj.conditions))
      BY <2>1 DEF StatusPatched, TypeOK, Toolkits
    <2>3. /\ cr'.conditions = Stored(obj.conditions)
          /\ cr.conditions = base.conditions /\ cr.setup = obj.setup
      BY <2>1, <2>2 DEF Unrepeated, Merged, Constant
    <2> QED BY <2>1, <2>2, <2>3 DEF Claims, Claimed, Pending, Promised, Constant
  <1>5. CASE PatchRejected
    <2>1. pc' = "idle" /\ cr' = cr /\ deployed' = deployed
      BY <1>5 DEF PatchRejected, Return
    <2> QED BY <2>1 DEF Claims, Claimed, Pending
  <1>6. CASE PatchFault /\ ~(pc = "status" /\ cr' = StatusPatched)
    <2>1. /\ pc' = "idle" /\ cr # Absent /\ deployed' = deployed
          /\ \/ cr' = cr
             \/ pc = "patch" /\ cr' = Patched
      BY <1>6 DEF PatchFault, Return
    <2> QED BY <1>0, <2>1, PatchKeeps DEF Claims, Claimed, Pending, Success
  <1>7. CASE \E v \in Versions : Restart(v)
    <2>1. /\ pc' = "idle" /\ cr' = cr
          /\ deployed' # deployed => pc = "deploy"
      BY <1>7 DEF Restart, Relist
    <2>2. pc = "deploy" => ~Claims'
      BY <1>0, <2>1 DEF Claims, Unrepeated, Effective
    <2> QED BY <2>1, <2>2 DEF Claims, Claimed, Pending
  <1>8. CASE UserActs \/ Finalize
    <2>1. LastStatus(NoConditions) # STATUS_SUCCESSFUL
      BY NoConditionsType, StatusNames DEF LastStatus
    <2>2. UNCHANGED <<pc, base, obj, deployed>>
      BY <1>8, UsersKeep
    <2>3. Claims' => Claims /\ Claimed' = Claimed
      BY <1>8, <2>1, UsersKeep DEF Claims, Claimed, Success
    <2> QED BY <2>2, <2>3 DEF Pending, Promised
  <1>9. CASE IgnoreMissing \/ Sync \/ Tick \/ UNCHANGED vars
    <2>1. UNCHANGED <<pc, base, obj, cr, deployed>>
      BY <1>9 DEF IgnoreMissing, Sync, Tick, vars, object, call
    <2> QED BY <2>1 DEF Claims, Claimed, Pending, Promised, Success
  <1>10. PatchStatus => pc = "status" /\ cr' = StatusPatched
    BY DEF PatchStatus
  <1> QED BY <1>1, <1>2, <1>3, <1>4, <1>5, <1>6, <1>7, <1>8, <1>9, <1>10
          DEF Next, Decide, Continue

LEMMA SuccessRelist ==
    ASSUME Effective, Unrepeated, NEW v \in Versions, Relist(v)
    PROVE  /\ Constant' /\ ~Pending'
           /\ Claims' => pc # "deploy" /\ Claims /\ Claimed' = Claimed
  <1>1. pc' = "idle" /\ cr' = cr
    BY DEF Relist
  <1>2. STATUS_UPDATING # STATUS_SUCCESSFUL
    BY StatusNames
  <1> QED BY <1>1, <1>2
          DEF Constant, Pending, Claims, Claimed, Effective, Unrepeated

LEMMA ClaimedSec ==
    ASSUME TypeOK, Timely, Claims
    PROVE  Claimed.sec \in Nat /\ Claimed.sec <= clock
  <1>1. cr \in Toolkits /\ Dated(cr) /\ cr.conditions \in ConditionMaps
    BY ReconcilerAssumption DEF TypeOK, Timely, Claims, Toolkits
  <1>2. STATUS_SUCCESSFUL \in Present(cr.conditions)
    <2>1. Present(cr.conditions) # {}
      BY StatusNames DEF Claims, LastStatus
    <2> QED BY <1>1, <2>1, LastStatusIsBest DEF Claims
  <1> QED BY <1>1, <1>2, PresentHasStamp DEF Claimed, Success, Dated

-----------------------------------------------------------------------------
(* When an object may give Helm work without a further reason, if users     *)
(* leave what they have written alone and have left nothing to fill in.     *)

AllDeployable == \A s \in Inputs : Deployable(s)

LEMMA NothingOpen ==
    ASSUME NEW s \in Setups, Deployable(s), NEW known \in BOOLEAN
    PROVE  Resolve(s, known) = s /\ ~ResolveFails(s, known)
  <1>1. /\ s.routeDomain \in Domains /\ s.routeDomain \in Dotted
        /\ s.routeDomain # Empty /\ s.routeDomain \notin Templates
    BY StringsAssumption DEF Deployable, Filled, Accepted
  <1>2. ~BlockedEarly(s, known) /\ Routed(s) = s
    BY <1>1 DEF BlockedEarly, CannotGenerate, RequiresClusterIngress, Routed
  <1>3. Identified(s) = s
    <2>1. CASE s.datastoreIdentifier = Empty
      <3>1. FirstField[s.routeDomain] = Empty
        BY <2>1 DEF Deployable, Filled
      <3>2. [s EXCEPT !.datastoreIdentifier = Empty] = s
        BY <2>1 DEF Setups
      <3> QED BY <3>1, <3>2 DEF Identified
    <2>2. CASE s.datastoreIdentifier # Empty
      BY <2>2 DEF Identified
    <2> QED BY <2>1, <2>2
  <1> QED BY <1>1, <1>2, <1>3 DEF Resolve, ResolveFails

\* Verdicts, and what leads to them.
Begun == {STATUS_UPDATING, STATUS_FAILED, STATUS_SUCCESSFUL}

\* An object an update of which has begun carries the hash of its setup.
Noted ==
    /\ cr # Absent =>
         /\ cr.setup \in Inputs
         /\ LastStatus(cr.conditions) \in Begun => cr.ann = Hash(cr.setup)
    /\ pc # "idle" =>
         /\ base.setup \in Inputs /\ obj.setup = base.setup
         /\ \/ LastStatus(base.conditions) \in Begun
            \/ LastStatus(Stored(obj.conditions)) \in Begun
            => obj.ann = Hash(base.setup)
         /\ cr # Absent => cr.ann = IF pc = "status" THEN obj.ann ELSE base.ann

LEMMA DecideNotes ==
    ASSUME AllDeployable, "lag" \notin Environment,
           TypeOK, Timely, Fresh, Noted, Decide, ~IgnoreMissing
    PROVE  /\ cr # Absent /\ base' = cr /\ cr' = cr /\ pc' \in {"deploy", "patch"}
           /\ obj'.setup = cr.setup
           /\ \/ LastStatus(cr.conditions) \in Begun
              \/ LastStatus(Stored(obj'.conditions)) \in Begun
              => obj'.ann = Hash(cr.setup)
  <1> DEFINE c == cr.conditions
             d == Stored(obj'.conditions)
  <1>1. /\ cache = cr /\ cr # Absent /\ base' = cr /\ cr' = cr
        /\ pc' \in {"deploy", "patch"}
    BY DEF Decide, ReconcilePaused, StartUpdating, StayPut,
           WaitToRetry, PatchDefinition, RefuseToDeploy, StartHelm, MustUpdate,
           Active, Reading, Fresh, Proceed
  <1>2. /\ cr \in Toolkits /\ c \in ConditionMaps /\ Dated(cr)
        /\ cr.setup \in Setups /\ cr.setup \in Inputs
        /\ \A s \in Present(c) : c[s].frac = 0 /\ c[s].sec <= clock
        /\ clock \in Nat /\ operator \in Versions
        /\ IngressOutcomes \subseteq BOOLEAN
    BY <1>1, ReconcilerAssumption
       DEF TypeOK, Timely, Toolkits, Dated, Noted, IngressOutcomes
  <1>3. LastStatus(c) \in Begun => LastHash(cr) = Hash(cr.setup)
    BY <1>1 DEF Noted, LastHash
  <1>4. /\ Annotated(cr) \in Toolkits
        /\ Annotated(cr).conditions = c /\ Dated(Annotated(cr))
        /\ Annotated(cr).setup = cr.setup /\ Annotated(cr).ann = LastHash(cr)
    BY <1>2, AnnotatedType DEF Dated, Annotated, Toolkits
  <1>5. \A known \in IngressOutcomes :
          Resolve(cr.setup, known) = cr.setup /\ ~ResolveFails(cr.setup, known)
    BY <1>2, NothingOpen DEF AllDeployable
  <1>6. CASE ReconcilePaused
    <2>1. obj' = ToPaused(Annotated(cr))
      BY <1>1, <1>6 DEF ReconcilePaused, Proceed
    <2>2. obj'.setup = cr.setup /\ obj'.ann = LastHash(cr)
      BY <1>4, <2>1 DEF ToPaused, Toolkits
    <2>3. PICK v \in Versions : obj'.conditions = Put(c, STATUS_PAUSED, Stamp(clock, v))
      BY <1>2, <1>4, <2>1, ToPausedDated
    <2>4. LastStatus(d) \in Begun => LastStatus(c) = LastStatus(d)
      <3>1. STATUS_PAUSED \notin Begun /\ STATUS_PAUSED \in Statuses
        BY StatusNames DEF Begun
      <3> QED BY <1>2, <2>3, <3>1, LastOfPut
    <2> QED BY <1>1, <1>3, <2>2, <2>4
  <1>7. CASE StartUpdating
    <2>1. obj' = ToUpdating(cr, Hash(cr.setup))
      BY <1>1, <1>7 DEF StartUpdating, Proceed
    <2>2. obj'.setup = cr.setup /\ obj'.ann = Hash(cr.setup)
      BY <1>2, <2>1 DEF ToUpdating, Marked, Toolkits
    <2> QED BY <1>1, <2>2
  <1>8. CASE StayPut \/ WaitToRetry \/ StartHelm
    <2>1. obj' = Annotated(cr)
      BY <1>1, <1>8 DEF StayPut, WaitToRetry, StartHelm, Proceed
    <2>2. d = c
      BY <1>2, <1>4, <2>1, StoredAgain
    <2> QED BY <1>1, <1>3, <1>4, <2>1, <2>2
  <1>9. ~PatchDefinition /\ ~RefuseToDeploy
    BY <1>1, <1>5 DEF PatchDefinition, RefuseToDeploy
  <1> QED BY <1>6, <1>7, <1>8, <1>9 DEF Decide

LEMMA NotedStep ==
    ASSUME AllDeployable, WrittenOnce, TypeOK, Timely, Fresh, Effective,
           Unrepeated, Constant, Noted, [Next]_vars
    PROVE  Noted'
  <1>1. CASE Decide /\ ~IgnoreMissing
    <2>1. "lag" \notin Environment
      BY DEF WrittenOnce
    <2> QED BY <1>1, <2>1, DecideNotes DEF Noted
  <1>2. CASE HelmSucceeds \/ HelmRefuses \/ HelmFails
    <2>1. /\ pc = "deploy" /\ pc' = "patch" /\ cr' = cr /\ base' = base
          /\ obj'.setup = obj.setup /\ obj'.ann = obj.ann
          /\ LastStatus(base.conditions) = STATUS_UPDATING
      BY <1>2, HelmReports
    <2> QED BY <2>1 DEF Noted, Begun
  <1>3. CASE /\ PatchObject \/ PatchFault
             /\ ~(pc = "status" /\ cr' = StatusPatched)
    <2>1. /\ cr # Absent
          /\ \/ cr' = cr
             \/ pc = "patch" /\ cr' = Patched
          /\ \/ pc' = "idle"
             \/ /\ pc = "patch" /\ pc' = "status" /\ cr' = Patched
                /\ base' = base /\ obj' = obj
      BY <1>3 DEF PatchObject, PatchFault, Return
    <2>2. ASSUME pc = "patch", cr' = Patched
          PROVE  /\ cr'.setup = obj.setup /\ cr'.ann = obj.ann
                 /\ cr'.conditions = base.conditions
      <3>1. Patched.ann = Merged(cr.ann, base.ann, obj.ann)
        BY <2>1, <2>2 DEF Patched, TypeOK, Toolkits
      <3>2. Patched.ann = obj.ann
        BY <2>1, <2>2, <3>1 DEF Noted, Merged
      <3> QED BY <2>1, <2>2, <3>2, PatchKeeps DEF Unrepeated
    <2>3. cr' # Absent =>
            /\ cr'.setup \in Inputs
            /\ LastStatus(cr'.conditions) \in Begun => cr'.ann = Hash(cr'.setup)
      BY <2>1, <2>2 DEF Noted
    <2> QED BY <2>1, <2>2, <2>3 DEF Noted
  <1>4. CASE /\ PatchStatus \/ PatchFault
             /\ pc = "status" /\ cr' = StatusPatched
    <2>1. /\ pc = "status" /\ pc' = "idle" /\ cr # Absent /\ cr' = StatusPatched
      BY <1>4 DEF PatchStatus, PatchFault, Return
    <2>2. /\ cr'.setup = cr.setup /\ cr'.ann = cr.ann
          /\ cr'.conditions
               = Merged(cr.conditions, base.conditions, Stored(obj.conditions))
      BY <2>1 DEF StatusPatched, TypeOK, Toolkits
    <2>3. /\ cr'.conditions = Stored(obj.conditions)
          /\ cr.setup = obj.setup /\ cr.ann = obj.ann
      BY <2>1, <2>2 DEF Unrepeated, Merged, Constant, Noted
    <2> QED BY <2>1, <2>2, <2>3 DEF Noted
  <1>5. CASE PatchRejected \/ \E v \in Versions : Restart(v)
    <2>1. pc' = "idle" /\ cr' = cr
      BY <1>5 DEF PatchRejected, Return, Restart, Relist
    <2> QED BY <2>1 DEF Noted
  <1>6. CASE UserActs \/ Finalize
    <2>1. LastStatus(NoConditions) \notin Begun
      BY NoConditionsType, StatusNames DEF LastStatus, Begun
    <2> QED BY <1>6, <2>1, UsersKeep DEF Noted
  <1>7. CASE IgnoreMissing \/ Sync \/ Tick \/ UNCHANGED vars
    <2>1. UNCHANGED <<pc, base, obj, cr>>
      BY <1>7 DEF IgnoreMissing, Sync, Tick, vars, object, call
    <2> QED BY <2>1 DEF Noted
  <1>8. /\ PatchStatus => pc = "status" /\ cr' = StatusPatched
        /\ PatchObject => pc = "patch"
    BY DEF PatchStatus, PatchObject
  <1> QED BY <1>1, <1>2, <1>3, <1>4, <1>5, <1>6, <1>7, <1>8
          DEF Next, Decide, Continue

\* These conditions tell of a success by the operator that runs.
UpToDate(conds) ==
    /\ LastStatus(conds) = STATUS_SUCCESSFUL
    /\ conds[STATUS_SUCCESSFUL].version = operator

\* The object may give Helm work though nobody writes it, nothing fails and the
\* operator goes on.
Due ==
    /\ cr # Absent
    /\ \/ cr.paused
       \/ pc = "idle" /\ ~UpToDate(cr.conditions)
       \/ pc \in {"patch", "status"} /\ ~UpToDate(Stored(obj.conditions))
       \/ pc = "status" /\ locked /\ moved

\* A call that has read an object that is up to date leaves it alone.
LEMMA DecideDue ==
    ASSUME "lag" \notin Environment, TypeOK, Timely, Fresh, Noted, Decide,
           ~IgnoreMissing
    PROVE  /\ pc = "idle" /\ cr # Absent /\ cr' = cr
           /\ UNCHANGED <<edits, faults>> /\ pc' \in {"deploy", "patch"}
           /\ pc' = "deploy" => Due /\ ~cr.paused
           /\ Due' => Due
  <1>1. /\ cache = cr /\ cr # Absent /\ cr' = cr /\ pc = "idle"
        /\ UNCHANGED <<operator, edits, faults>> /\ pc' \in {"deploy", "patch"}
    BY DEF Decide, ReconcilePaused, StartUpdating, StayPut,
           WaitToRetry, PatchDefinition, RefuseToDeploy, StartHelm, MustUpdate,
           Active, Reading, Fresh, Proceed, bounds
  <1>2. pc' = "deploy" => Due /\ ~cr.paused
    <2>1. pc' = "deploy" => StartHelm
      BY DEF Decide, ReconcilePaused, StartUpdating, StayPut,
             WaitToRetry, PatchDefinition, RefuseToDeploy, Proceed
    <2>2. StartHelm => ~cr.paused /\ LastStatus(cr.conditions) = STATUS_UPDATING
      BY <1>1 DEF StartHelm, Active
    <2> QED BY <1>1, <2>1, <2>2, StatusNames DEF Due, UpToDate
  <1>3. ASSUME ~Due PROVE ~Due'
    <2>1. ~cr.paused /\ UpToDate(cr.conditions)
      BY <1>1, <1>3 DEF Due
    <2>2. /\ ~ConfigurationChanged(cr) /\ ~DeploymentStale(cr)
          /\ LastStatus(cr.conditions) = STATUS_SUCCESSFUL
      BY <1>1, <2>1 DEF UpToDate, Noted, Begun, ConfigurationChanged, LastHash,
                        DeploymentStale
    <2>3. StayPut
      BY <1>1, <2>1, <2>2, StatusNames
         DEF Decide, ReconcilePaused, StartUpdating, WaitToRetry,
             PatchDefinition, RefuseToDeploy, StartHelm, MustUpdate, Active
    <2>4. pc' = "patch" /\ obj' = Annotated(cr)
      BY <1>1, <2>3 DEF StayPut, Proceed
    <2>5. /\ cr \in Toolkits /\ cr.conditions \in ConditionMaps
          /\ \A s \in Present(cr.conditions) : cr.conditions[s].frac = 0
      BY <1>1, ReconcilerAssumption DEF TypeOK, Timely, Toolkits
    <2>6. Stored(obj'.conditions) = cr.conditions
      BY <2>4, <2>5, AnnotatedType, StoredAgain
    <2> QED BY <1>1, <2>1, <2>4, <2>6 DEF Due, UpToDate
  <1> QED BY <1>1, <1>2, <1>3

\* A Helm run is begun over what is due, which it settles; something becomes due
\* because a user has written or something has failed.
LEMMA DueStep ==
    ASSUME AllDeployable, WrittenOnce, TypeOK, Timely, Fresh, Effective,
           Unrepeated, Constant, Noted, [Next]_vars
    PROVE  /\ edits' \in {edits, edits + 1} /\ faults' \in {faults, faults + 1}
           /\ pc # "deploy" /\ pc' = "deploy" => Due /\ ~Due'
           /\ Due' => Due \/ edits' = edits + 1 \/ faults' = faults + 1
  <1>0. "lag" \notin Environment
    BY DEF WrittenOnce
  <1>1. CASE Decide /\ ~IgnoreMissing
    <2>1. pc' = "deploy" /\ ~cr.paused /\ cr' = cr => ~Due'
      BY DEF Due
    <2> QED BY <1>0, <1>1, <2>1, DecideDue
  <1>2. CASE HelmSucceeds
    <2>1. /\ pc = "deploy" /\ pc' = "patch"
          /\ UNCHANGED <<cr, operator, edits, faults>>
          /\ LastStatus(Stored(obj'.conditions)) = STATUS_SUCCESSFUL
          /\ Promised' = [what |-> deployed', sec |-> clock]
          /\ deployed'.version = operator
      BY <1>2, HelmReports
    <2>2. Stored(obj'.conditions)[STATUS_SUCCESSFUL].version = operator
      <3>1. Promised'.what.version
              = Stored(obj'.conditions)[STATUS_SUCCESSFUL].version
        BY DEF Promised, Success
      <3> QED BY <2>1, <3>1
    <2> QED BY <2>1, <2>2 DEF Due, UpToDate
  <1>3. ~HelmRefuses
    BY DEF HelmRefuses, Noted, AllDeployable, Deployable
  <1>4. CASE HelmFails \/ PatchFault \/ \E v \in Versions : Restart(v)
    <2>1. edits' = edits /\ faults' = faults + 1 /\ pc' # "deploy"
      BY <1>4 DEF HelmFails, HelmEnds, PatchFault, Return, Restart, Relist
    <2> QED BY <2>1
  <1>5. CASE PatchObject
    <2>1. /\ pc = "patch" /\ pc' = "status" /\ cr # Absent /\ cr' = Patched
          /\ UNCHANGED <<obj, operator, edits, faults>> /\ ~moved'
      BY <1>5 DEF PatchObject, bounds
    <2>2. cr'.paused = cr.paused
      BY <2>1 DEF Patched, TypeOK, Toolkits
    <2> QED BY <2>1, <2>2 DEF Due, UpToDate
  <1>6. CASE PatchStatus
    <2>1. /\ pc = "status" /\ pc' = "idle" /\ cr # Absent /\ cr' = StatusPatched
          /\ UNCHANGED <<operator, edits, faults>>
      BY <1>6 DEF PatchStatus, Return
    <2>2. /\ cr'.paused = cr.paused
          /\ cr'.conditions
               = Merged(cr.conditions, base.conditions, Stored(obj.conditions))
      BY <2>1 DEF StatusPatched, TypeOK, Toolkits
    <2>3. cr'.conditions = Stored(obj.conditions)
      BY <2>1, <2>2 DEF Unrepeated, Merged
    <2> QED BY <2>1, <2>2, <2>3 DEF Due, UpToDate
  <1>7. CASE PatchRejected
    <2>1. /\ cr' = cr /\ pc' = "idle" /\ UNCHANGED <<edits, faults>>
          /\ cr = Absent \/ (pc = "status" /\ locked /\ moved)
      BY <1>7 DEF PatchRejected, Return
    <2> QED BY <2>1 DEF Due
  <1>8. CASE UserActs
    <2>1. edits' = edits + 1 /\ faults' = faults /\ pc' = pc
      BY <1>8, UsersKeep
    <2> QED BY <2>1
  <1>9. CASE Finalize
    <2>1. cr' = Absent /\ pc' = pc /\ UNCHANGED <<edits, faults>>
      BY <1>9 DEF Finalize, call, bounds
    <2> QED BY <2>1 DEF Due
  <1>10. CASE IgnoreMissing \/ Sync \/ Tick \/ UNCHANGED vars
    <2>1. /\ UNCHANGED <<pc, obj, cr, moved, locked, operator, edits, faults>>
      BY <1>10 DEF IgnoreMissing, Sync, Tick, vars, object, call, bounds
    <2> QED BY <2>1 DEF Due, UpToDate
  <1> QED BY <1>1, <1>2, <1>3, <1>4, <1>5, <1>6, <1>7, <1>8, <1>9, <1>10
          DEF Next, Decide, Continue

LEMMA NotedRelist ==
    ASSUME Noted, NEW v \in Versions, Relist(v)
    PROVE  /\ Noted' /\ pc' = "idle"
           /\ edits' = edits /\ faults' = faults + 1
  BY DEF Noted, Relist

=============================================================================
