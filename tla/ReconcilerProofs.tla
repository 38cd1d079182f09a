-------------------------- MODULE ReconcilerProofs --------------------------
(***************************************************************************)
(* Theorems about Reconciler, for every set of setups and versions, every  *)
(* environment and every bound.                                            *)
(***************************************************************************)
EXTENDS Reconciler, ConditionsProofs

-----------------------------------------------------------------------------
(* The setup. *)

\* What the operator makes of a setup is a setup.
LEMMA ResolveType ==
    ASSUME NEW s \in Setups, NEW known \in BOOLEAN
    PROVE  Resolve(s, known) \in Setups
  <1>1. ASSUME ~BlockedEarly(s, known)
        PROVE  Routed(s) \in Setups
    BY <1>1, StringsAssumption
       DEF Routed, RequiresClusterIngress, BlockedEarly, CannotGenerate, Setups
  <1>2. ASSUME NEW r \in Setups
        PROVE  Identified(r) \in Setups
    BY StringsAssumption DEF Identified, Setups
  <1> QED BY <1>1, <1>2 DEF Resolve

\* In a setup that the operator leaves as it is and has no complaint about,
\* nothing is still open.
LEMMA ResolvedIsFilled ==
    ASSUME NEW s \in Setups, NEW known \in BOOLEAN,
           Resolve(s, known) = s, ~ResolveFails(s, known)
    PROVE  Filled(s)
  <1>1. ~BlockedEarly(s, known) /\ Identified(Routed(s)) = s
    BY DEF ResolveFails, Resolve
  <1>2. Identified(Routed(s)).routeDomain = Routed(s).routeDomain
    <2>1. Routed(s) \in Setups
      BY <1>1, StringsAssumption
         DEF Routed, RequiresClusterIngress, BlockedEarly, CannotGenerate, Setups
    <2> QED BY <2>1 DEF Identified, Setups
  <1>3. ~RequiresClusterIngress(s)
    <2> SUFFICES ASSUME RequiresClusterIngress(s) PROVE FALSE
      OBVIOUS
    <2>1. Routed(s).routeDomain = IF s.routeDomain = Empty
                                  THEN Generated[s.datastoreIdentifier]
                                  ELSE Expand[s.routeDomain]
      BY DEF Routed, Setups
    <2>2. CASE s.routeDomain = Empty
      <3>1. s.datastoreIdentifier \in Identifiers
        BY <1>1, <2>2 DEF BlockedEarly, CannotGenerate, Setups
      <3>2. Routed(s).routeDomain \in Domains
        BY <2>1, <2>2, <3>1, StringsAssumption
      <3> QED BY <1>1, <1>2, <2>2, <3>2, StringsAssumption
    <2>3. CASE s.routeDomain # Empty
      <3>1. s.routeDomain \in Templates
        BY <2>3 DEF RequiresClusterIngress
      <3>2. Routed(s).routeDomain \in Domains \cup {Empty}
        BY <2>1, <2>3, <3>1, StringsAssumption
      <3> QED BY <1>1, <1>2, <3>1, <3>2, StringsAssumption
    <2> QED BY <2>2, <2>3
  <1>4. Routed(s) = s
    BY <1>3 DEF Routed
  <1>5. s.routeDomain \in Domains
    BY <1>1, <1>3 DEF BlockedEarly, CannotGenerate, RequiresClusterIngress, Setups
  <1>6. CASE s.datastoreIdentifier = Empty
    <2>1. s.routeDomain \in Dotted
      BY <1>4, <1>6 DEF ResolveFails
    <2>2. Identified(s).datastoreIdentifier = FirstField[s.routeDomain]
      BY <1>6, <2>1 DEF Identified, Setups
    <2> QED BY <1>1, <1>4, <1>5, <1>6, <2>1, <2>2 DEF Filled
  <1>7. CASE s.datastoreIdentifier # Empty
    BY <1>5, <1>7 DEF Filled
  <1> QED BY <1>6, <1>7

-----------------------------------------------------------------------------
(* Type correctness. *)

\* A toolkit with another condition, annotation or setup is a toolkit.
LEMMA MarkedType ==
    ASSUME NEW t \in Toolkits, NEW status \in Statuses,
           clock \in Nat, operator \in Versions
    PROVE  /\ Marked(t, status) \in Toolkits
           /\ Present(Marked(t, status).conditions) # {}
  <1>1. t.conditions \in ConditionMaps
    BY DEF Toolkits
  <1> DEFINE c == Stamp(clock, operator)
  <1>2. c \in Condition
    BY StampType
  <1>3. Marked(t, status) = [t EXCEPT !.conditions = Put(@, status, c)]
    BY DEF Marked
  <1> HIDE DEF c
  <1>4. /\ Put(t.conditions, status, c) \in ConditionMaps
        /\ Present(Put(t.conditions, status, c)) = Present(t.conditions) \cup {status}
    BY <1>1, <1>2, PutType
  <1> QED BY <1>3, <1>4 DEF Toolkits

LEMMA AnnotatedType ==
    ASSUME NEW t \in Toolkits
    PROVE  /\ LastHash(t) \in {NoHash} \cup Hashes
           /\ Annotated(t) \in Toolkits
           /\ Annotated(t).conditions = t.conditions
           /\ Annotated(t).setup = t.setup
  <1>1. Hash(t.setup) \in Hashes /\ t.ann \in {NoAnnotations, NoHash} \cup Hashes
    BY DEF Toolkits, Hashes
  <1>2. LastHash(t) \in {NoHash} \cup Hashes
    BY <1>1 DEF LastHash
  <1> QED BY <1>2 DEF Annotated, Toolkits

LEMMA ToUpdatingType ==
    ASSUME NEW t \in Toolkits, NEW hash \in Hashes,
           clock \in Nat, operator \in Versions
    PROVE  /\ ToUpdating(t, hash) \in Toolkits
           /\ Present(ToUpdating(t, hash).conditions) # {}
  <1>1. STATUS_UPDATING \in Statuses
    BY DEF Statuses
  <1>2. /\ Marked(t, STATUS_UPDATING) \in Toolkits
        /\ Present(Marked(t, STATUS_UPDATING).conditions) # {}
    BY <1>1, MarkedType
  <1> HIDE DEF Statuses
  <1> QED BY <1>2 DEF ToUpdating, Toolkits

LEMMA ToPausedType ==
    ASSUME NEW t \in Toolkits, clock \in Nat, operator \in Versions
    PROVE  /\ ToPaused(t) \in Toolkits
           /\ Present(ToPaused(t).conditions) # {}
  <1> DEFINE version == IF STATUS_PAUSED \in Present(t.conditions)
                        THEN t.conditions[STATUS_PAUSED].version
                        ELSE operator
  <1>1. t.conditions \in ConditionMaps
    BY DEF Toolkits
  <1>2. version \in Versions
    BY <1>1, PresentHasStamp
  <1>3. Stamp(clock, version) \in Condition
    BY <1>2, StampType
  <1>4. STATUS_PAUSED \in Statuses
    BY DEF Statuses
  <1>5. /\ Put(t.conditions, STATUS_PAUSED, Stamp(clock, version)) \in ConditionMaps
        /\ Present(Put(t.conditions, STATUS_PAUSED, Stamp(clock, version))) # {}
    BY <1>1, <1>3, <1>4, PutType
  <1>6. ToPaused(t) =
          [t EXCEPT !.conditions = Put(@, STATUS_PAUSED, Stamp(clock, version))]
    BY DEF ToPaused
  <1> HIDE DEF version, Statuses
  <1> QED BY <1>5, <1>6 DEF Toolkits

\* The patches keep a toolkit a toolkit.
LEMMA PatchedType ==
    ASSUME cr \in Toolkits, base \in Toolkits, obj \in Toolkits
    PROVE  Patched \in Toolkits
  <1>1. MergedSetup \in Setups
    BY DEF MergedSetup, Merged, Toolkits, Setups
  <1>2. Merged(cr.ann, base.ann, obj.ann) \in {NoAnnotations, NoHash} \cup Hashes
    BY DEF Merged, Toolkits
  <1> QED BY <1>1, <1>2 DEF Patched, Toolkits

LEMMA StatusPatchedType ==
    ASSUME cr \in Toolkits, base \in Toolkits, obj \in Toolkits,
           Present(obj.conditions) # {}
    PROVE  StatusPatched \in Toolkits
  <1> DEFINE last == LastStatus(obj.conditions)
  <1>1. obj.conditions \in ConditionMaps
    BY DEF Toolkits
  <1>2. last \in Present(obj.conditions)
    BY <1>1, LastStatusIsBest
  <1>3. last \in Statuses /\ obj.conditions[last].version \in Versions
    BY <1>1, <1>2, PresentHasStamp
  <1>4. Stored(obj.conditions) \in ConditionMaps
    BY <1>1, StoredType
  <1>5. StatusPatched =
          [cr EXCEPT
            !.conditions = Merged(@, base.conditions, Stored(obj.conditions)),
            !.phase = Merged(@, base.phase, last),
            !.version = Merged(@, base.version, obj.conditions[last].version)]
    BY DEF StatusPatched
  <1> HIDE DEF last, Statuses
  <1> QED BY <1>3, <1>4, <1>5 DEF Merged, Toolkits

\* Reconcile goes on with a toolkit that has a condition.
LEMMA ProceedType ==
    ASSUME TypeOK, cache # Absent, NEW o \in Toolkits,
           Present(o.conditions) # {},
           NEW next \in {"deploy", "patch"}, NEW again \in BOOLEAN,
           Proceed(o, next, again)
    PROVE  TypeOK'
  BY DEF TypeOK, Proceed, bounds

\* What is active with a status other than Unknown has a condition.
LEMMA ActiveType ==
    ASSUME TypeOK, NEW status \in {STATUS_UNKNOWN} \cup Statuses, Active(status)
    PROVE  /\ cache # Absent /\ cache \in Toolkits
           /\ status # STATUS_UNKNOWN => Present(cache.conditions) # {}
           /\ Hash(cache.setup) \in Hashes
           /\ cache.setup \in Setups
  <1>1. cache # Absent /\ cache \in Toolkits
    BY DEF TypeOK, Active
  <1>2. cache.conditions \in ConditionMaps /\ cache.setup \in Setups
    BY <1>1 DEF Toolkits
  <1>3. status # STATUS_UNKNOWN => Present(cache.conditions) # {}
    BY <1>2, LastStatusType DEF Active
  <1> QED BY <1>1, <1>2, <1>3 DEF Hashes

LEMMA InitType == Init => TypeOK
  <1> SUFFICES ASSUME Init PROVE TypeOK
    OBVIOUS
  <1>1. asked \in Seq(Inputs)
    BY DEF Init
  <1>2. pc = "idle" /\ base = Absent /\ obj = Absent
    BY DEF Init
  <1>3. /\ lagging \in BOOLEAN /\ queued \in BOOLEAN /\ requeue \in BOOLEAN
        /\ moved \in BOOLEAN /\ locked \in BOOLEAN
    BY DEF Init
  <1>4. /\ cr \in Toolkits \cup {Absent} /\ cache \in Toolkits \cup {Absent}
        /\ deployed \in Deployments \cup {Nothing, Partial}
        /\ operator \in Versions
        /\ clock \in Nat /\ edits \in Nat /\ faults \in Nat
    BY DEF Init
  <1> QED BY <1>1, <1>2, <1>3, <1>4 DEF TypeOK

\* Every branch of Reconcile keeps the types.
LEMMA DecideType ==
    ASSUME TypeOK, Decide
    PROVE  TypeOK'
  <1> USE DEF TypeOK
  <1>0. /\ clock \in Nat /\ operator \in Versions
        /\ STATUS_UPDATING \in Statuses /\ STATUS_FAILED \in Statuses
        /\ STATUS_SUCCESSFUL \in Statuses /\ STATUS_PAUSED \in Statuses
        /\ STATUS_UNKNOWN \notin Statuses
        /\ IngressOutcomes \subseteq BOOLEAN
    BY DEF Statuses, STATUS_UNKNOWN, STATUS_PAUSED, STATUS_FAILED,
           STATUS_SUCCESSFUL, STATUS_UPDATING, IngressOutcomes
  <1>1. CASE IgnoreMissing
    BY <1>1 DEF IgnoreMissing, object, call, bounds
  <1>2. CASE ReconcilePaused
    <2>1. cache # Absent /\ cache \in Toolkits
      BY <1>2 DEF ReconcilePaused
    <2>2. Annotated(cache) \in Toolkits
      BY <2>1, AnnotatedType
    <2>3. /\ ToPaused(Annotated(cache)) \in Toolkits
          /\ Present(ToPaused(Annotated(cache)).conditions) # {}
      BY <1>0, <2>2, ToPausedType
    <2> QED BY <1>2, <2>1, <2>3, ProceedType DEF ReconcilePaused
  <1>3. CASE StartUpdating
    <2>1. cache # Absent /\ cache \in Toolkits /\ Hash(cache.setup) \in Hashes
      BY <1>0, <1>3, ActiveType DEF StartUpdating, MustUpdate
    <2>2. /\ ToUpdating(cache, Hash(cache.setup)) \in Toolkits
          /\ Present(ToUpdating(cache, Hash(cache.setup)).conditions) # {}
      BY <1>0, <2>1, ToUpdatingType
    <2> QED BY <1>3, <2>1, <2>2, ProceedType DEF StartUpdating
  <1>4. CASE StayPut
    <2>1. /\ cache # Absent /\ cache \in Toolkits
          /\ Present(cache.conditions) # {}
      BY <1>0, <1>4, ActiveType DEF StayPut
    <2> QED BY <1>4, <2>1, AnnotatedType, ProceedType DEF StayPut
  <1>5. CASE WaitToRetry
    <2>1. /\ cache # Absent /\ cache \in Toolkits
          /\ Present(cache.conditions) # {}
      BY <1>0, <1>5, ActiveType DEF WaitToRetry
    <2> QED BY <1>5, <2>1, AnnotatedType, ProceedType DEF WaitToRetry
  <1>6. CASE PatchDefinition
    <2>1. /\ cache # Absent /\ cache \in Toolkits
          /\ Hash(cache.setup) \in Hashes /\ cache.setup \in Setups
      BY <1>0, <1>6, ActiveType DEF PatchDefinition
    <2>2. /\ ToUpdating(cache, Hash(cache.setup)) \in Toolkits
          /\ Present(ToUpdating(cache, Hash(cache.setup)).conditions) # {}
      BY <1>0, <2>1, ToUpdatingType
    <2>3. PICK known \in BOOLEAN :
            Proceed([ToUpdating(cache, Hash(cache.setup))
                        EXCEPT !.setup = Resolve(cache.setup, known)],
                    "patch", TRUE)
      BY <1>0, <1>6 DEF PatchDefinition
    <2> DEFINE o == [ToUpdating(cache, Hash(cache.setup))
                        EXCEPT !.setup = Resolve(cache.setup, known)]
    <2>4. Resolve(cache.setup, known) \in Setups
      BY <2>1, ResolveType
    <2>5. o \in Toolkits
      BY <2>2, <2>4 DEF Toolkits
    <2>6. o.conditions = ToUpdating(cache, Hash(cache.setup)).conditions
      BY <2>2 DEF Toolkits
    <2> HIDE DEF o
    <2> QED BY <2>1, <2>2, <2>3, <2>5, <2>6, ProceedType DEF o
  <1>7. CASE RefuseToDeploy
    <2>1. cache # Absent /\ cache \in Toolkits
      BY <1>0, <1>7, ActiveType DEF RefuseToDeploy
    <2>2. /\ Marked(Annotated(cache), STATUS_FAILED) \in Toolkits
          /\ Present(Marked(Annotated(cache), STATUS_FAILED).conditions) # {}
      BY <1>0, <2>1, AnnotatedType, MarkedType
    <2> QED BY <1>7, <2>1, <2>2, ProceedType DEF RefuseToDeploy
  <1>8. CASE StartHelm
    <2>1. /\ cache # Absent /\ cache \in Toolkits
          /\ Present(cache.conditions) # {}
      BY <1>0, <1>8, ActiveType DEF StartHelm
    <2> QED BY <1>8, <2>1, AnnotatedType, ProceedType DEF StartHelm
  <1> QED BY <1>1, <1>2, <1>3, <1>4, <1>5, <1>6, <1>7, <1>8 DEF Decide

\* Every step of a call that has waited keeps the types.
LEMMA ContinueType ==
    ASSUME TypeOK, Continue
    PROVE  TypeOK'
  <1> USE DEF TypeOK
  <1>0. /\ STATUS_FAILED \in Statuses /\ STATUS_SUCCESSFUL \in Statuses
        /\ \A version \in Versions, s \in Setups :
             [setup |-> s, version |-> version] \in Deployments
    BY DEF Statuses, Deployments
  <1>1. ASSUME NEW status \in Statuses, NEW again \in BOOLEAN,
               pc = "deploy", HelmEnds(status, again),
               deployed' \in Deployments \cup {Nothing, Partial},
               faults' \in Nat
        PROVE  TypeOK'
    <2>1. obj \in Toolkits /\ base \in Toolkits
      BY <1>1
    <2>2. /\ Marked(obj, status) \in Toolkits
          /\ Present(Marked(obj, status).conditions) # {}
      BY <2>1, MarkedType
    <2> QED BY <1>1, <2>1, <2>2 DEF HelmEnds, object
  <1>2. ASSUME NEW again \in BOOLEAN, Return(again),
               cr' \in Toolkits \cup {Absent}, lagging' \in BOOLEAN,
               faults' \in Nat
        PROVE  TypeOK'
    BY <1>2 DEF Return
  <1>3. pc \in {"patch", "status"} /\ cr # Absent
          => /\ cr \in Toolkits /\ base \in Toolkits /\ obj \in Toolkits
             /\ Patched \in Toolkits /\ StatusPatched \in Toolkits
    BY PatchedType, StatusPatchedType
  <1>4. CASE HelmSucceeds
    <2>1. obj.setup \in Setups
      BY <1>4 DEF HelmSucceeds, Toolkits
    <2>2. deployed' \in Deployments /\ faults' \in Nat
      BY <1>0, <1>4, <2>1 DEF HelmSucceeds
    <2> QED BY <1>0, <1>1, <1>4, <2>2 DEF HelmSucceeds
  <1>5. CASE HelmRefuses \/ HelmFails
    <2>1. obj.setup \in Setups
      BY <1>5 DEF HelmRefuses, HelmFails, Toolkits
    <2>2. [setup |-> obj.setup, version |-> operator] \in Deployments
      BY <1>0, <2>1
    <2>3. CASE HelmRefuses
      BY <1>0, <1>1, <2>3 DEF HelmRefuses
    <2>4. CASE HelmFails
      <3>1. deployed' \in Deployments \cup {Nothing, Partial}
        <4> HIDE DEF TypeOK
        <4>1. deployed \in Deployments \cup {Nothing, Partial}
          BY DEF TypeOK
        <4> QED BY <2>2, <2>4, <4>1 DEF HelmFails
      <3>2. faults' \in Nat
        BY <2>4 DEF HelmFails
      <3> QED BY <1>0, <1>1, <2>4, <3>1, <3>2 DEF HelmFails
    <2> QED BY <1>5, <2>3, <2>4
  <1>6. CASE PatchObject
    <2>1. Patched \in Toolkits
      BY <1>3, <1>6 DEF PatchObject
    <2> QED BY <1>6, <2>1 DEF PatchObject, bounds
  <1>7. CASE PatchStatus
    <2>1. StatusPatched \in Toolkits
      BY <1>3, <1>7 DEF PatchStatus
    <2> QED BY <1>2, <1>7, <2>1 DEF PatchStatus
  <1>8. CASE PatchRejected
    BY <1>2, <1>8 DEF PatchRejected
  <1>9. CASE PatchFault
    <2>1. /\ \/ cr' = cr
             \/ pc = "patch" /\ cr' = Patched
             \/ pc = "status" /\ cr' = StatusPatched
          /\ lagging' = lagging \/ lagging' = (lagging \/ cr' # cr)
          /\ cr # Absent /\ faults' = faults + 1 /\ Return(TRUE)
      BY <1>9 DEF PatchFault
    <2>2. cr' \in Toolkits \cup {Absent}
      BY <1>3, <2>1
    <2>3. lagging' \in BOOLEAN
      BY <2>1
    <2>4. faults' \in Nat
      BY <1>9 DEF PatchFault
    <2> QED BY <1>2, <2>1, <2>2, <2>3, <2>4, Zenon
  <1> QED BY <1>4, <1>5, <1>6, <1>7, <1>8, <1>9 DEF Continue

\* A user's write of a toolkit, or of nothing, keeps the types.
LEMMA UserActsType ==
    ASSUME TypeOK, UserActs
    PROVE  TypeOK'
  <1> USE DEF TypeOK
  <1>0. /\ \A s \in Inputs : s \in Setups
        /\ \A s \in Inputs : Append(asked, s) \in Seq(Inputs)
    BY ReconcilerAssumption
  <1>1. ASSUME NEW o \in Toolkits \cup {Absent}, UserWrites(o),
               asked' \in Seq(Inputs)
        PROVE  TypeOK'
    BY <1>1 DEF UserWrites, call
  <1>2. ASSUME NEW s \in Inputs, NEW p \in BOOLEAN,
               NEW a \in {NoAnnotations, NoHash}, Create(s, p, a)
        PROVE  TypeOK'
    <2>1. [setup |-> s, paused |-> p, ann |-> a, terminating |-> FALSE,
           conditions |-> NoConditions, phase |-> STATUS_UNKNOWN,
           version |-> Empty] \in Toolkits
      BY <1>0, NoConditionsType DEF Toolkits
    <2> QED BY <1>0, <1>1, <1>2, <2>1 DEF Create
  <1>3. ASSUME NEW s \in Inputs, Edit(s) \/ Replace(s)
        PROVE  TypeOK'
    <2>1. cr \in Toolkits /\ asked' \in Seq(Inputs)
      BY <1>0, <1>3 DEF Edit, Replace, Ask
    <2>2. /\ [cr EXCEPT !.setup = s] \in Toolkits
          /\ [cr EXCEPT !.setup = s, !.ann = NoAnnotations] \in Toolkits
      BY <1>0, <2>1 DEF Toolkits
    <2> QED BY <1>1, <1>3, <2>1, <2>2 DEF Edit, Replace
  <1>4. ASSUME NEW p \in BOOLEAN, SetPaused(p)
        PROVE  TypeOK'
    <2>1. [cr EXCEPT !.paused = p] \in Toolkits
      BY <1>4 DEF SetPaused, Toolkits
    <2> QED BY <1>1, <1>4, <2>1 DEF SetPaused
  <1>5. CASE Delete
    BY <1>1, <1>5 DEF Delete
  <1>6. CASE DeleteForeground
    <2>1. [cr EXCEPT !.terminating = TRUE] \in Toolkits
      BY <1>6 DEF DeleteForeground, Toolkits
    <2> QED BY <1>1, <1>6, <2>1 DEF DeleteForeground
  <1> QED BY <1>2, <1>3, <1>4, <1>5, <1>6 DEF UserActs

\* Every step keeps the types.
LEMMA NextType ==
    ASSUME TypeOK, [Next]_vars
    PROVE  TypeOK'
  <1>1. CASE Decide
    BY <1>1, DecideType
  <1>2. CASE Continue
    BY <1>2, ContinueType
  <1>3. CASE Sync
    BY <1>3 DEF Sync, TypeOK, call, bounds
  <1>4. CASE Tick
    BY <1>4 DEF Tick, TypeOK, object, call, bounds
  <1>5. ASSUME NEW v \in Versions, Restart(v)
        PROVE  TypeOK'
    <2>1. deployed' \in Deployments \cup {Nothing, Partial}
      BY <1>5 DEF Restart, Relist, TypeOK
    <2>2. queued' \in BOOLEAN /\ clock' \in Nat /\ faults' \in Nat
      BY <1>5 DEF Restart, Relist, TypeOK
    <2> QED BY <1>5, <2>1, <2>2 DEF Restart, Relist, TypeOK
  <1>6. CASE UserActs
    BY <1>6, UserActsType
  <1>7. CASE Finalize
    BY <1>7 DEF Finalize, TypeOK, call, bounds
  <1>8. CASE UNCHANGED vars
    BY <1>8 DEF vars, TypeOK, object, call, bounds
  <1> QED BY <1>1, <1>2, <1>3, <1>4, <1>5, <1>6, <1>7, <1>8 DEF Next

\* The state of the operator, its cache and the object keeps its types, so no
\* patch, however late or stale, writes something that is not a toolkit.
THEOREM TypeCorrect == Spec => []TypeOK
  <1>1. Init => TypeOK
    BY InitType
  <1>2. TypeOK /\ [Next]_vars => TypeOK'
    BY NextType
  <1> QED BY <1>1, <1>2, PTL DEF Spec

-----------------------------------------------------------------------------
(* Only a settled setup is deployed. *)

\* Nothing is open in what Helm is working on, and what it has installed is
\* deployable.
Handed ==
    /\ pc = "deploy" => Filled(obj.setup)
    /\ DeployedIsDeployable

\* The branches of Reconcile leave what is installed alone, and only StartHelm
\* hands a setup to Helm.
LEMMA DecideHands ==
    ASSUME TypeOK, Handed, Decide
    PROVE  Handed'
  <1>1. deployed' = deployed
    BY DEF Decide, IgnoreMissing, ReconcilePaused, StartUpdating, StayPut,
           WaitToRetry, PatchDefinition, RefuseToDeploy, StartHelm, Proceed
  <1>2. CASE StartHelm
    <2>1. cache \in Toolkits /\ cache.setup \in Setups
      BY <1>2, ActiveType DEF StartHelm, Statuses
    <2>2. Filled(cache.setup)
      <3>1. PICK known \in BOOLEAN : /\ Resolve(cache.setup, known) = cache.setup
                                     /\ ~ResolveFails(cache.setup, known)
        BY <1>2 DEF StartHelm, IngressOutcomes
      <3> QED BY <2>1, <3>1, ResolvedIsFilled
    <2>3. obj'.setup = cache.setup
      BY <1>2, <2>1, AnnotatedType DEF StartHelm, Proceed
    <2> QED BY <1>1, <2>2, <2>3 DEF Handed, DeployedIsDeployable
  <1>3. CASE IgnoreMissing
    BY <1>1, <1>3 DEF IgnoreMissing, Handed, DeployedIsDeployable, call
  <1>4. CASE ~StartHelm /\ ~IgnoreMissing
    <2>1. pc' = "patch"
      BY <1>4 DEF Decide, ReconcilePaused, StartUpdating, StayPut, WaitToRetry,
                  PatchDefinition, RefuseToDeploy, Proceed
    <2> QED BY <1>1, <2>1 DEF Handed, DeployedIsDeployable
  <1> QED BY <1>2, <1>3, <1>4

\* The other steps install what was handed to Helm, break it, or leave it.
LEMMA NextHands ==
    ASSUME TypeOK, Handed, [Next]_vars
    PROVE  Handed'
  <1> USE DEF Handed, DeployedIsDeployable
  <1>1. CASE Decide
    BY <1>1, DecideHands
  <1>2. CASE HelmSucceeds
    <2>1. pc' = "patch" /\ deployed'.setup = obj.setup /\ Deployable(obj.setup)
      BY <1>2 DEF HelmSucceeds, HelmEnds, Deployable
    <2> QED BY <2>1
  <1>3. CASE HelmRefuses \/ HelmFails
    <2>1. /\ pc' = "patch" /\ Filled(obj.setup)
          /\ \/ deployed' \in {deployed, Partial}
             \/ deployed'.setup = obj.setup /\ Accepted(obj.setup)
      BY <1>3 DEF HelmRefuses, HelmFails, HelmEnds
    <2> QED BY <2>1, ReconcilerAssumption DEF Deployable
  <1>4. CASE PatchObject \/ PatchStatus \/ PatchRejected \/ PatchFault
    <2>1. pc' # "deploy" /\ deployed' = deployed
      BY <1>4 DEF PatchObject, PatchStatus, PatchRejected, PatchFault, Return
    <2> QED BY <2>1
  <1>5. ASSUME NEW v \in Versions, Restart(v)
        PROVE  Handed'
    <2>1. pc' = "idle" /\ deployed' \in {deployed, Partial}
      BY <1>5 DEF Restart, Relist
    <2> QED BY <2>1, ReconcilerAssumption
  <1>6. CASE UserActs
    <2>1. pc' = pc /\ obj' = obj /\ deployed' = deployed
      BY <1>6 DEF UserActs, Create, Edit, Replace, SetPaused, Delete,
                  DeleteForeground, UserWrites, call
    <2> QED BY <2>1
  <1>7. CASE Sync \/ Tick \/ Finalize \/ UNCHANGED vars
    <2>1. pc' = pc /\ obj' = obj /\ deployed' = deployed
      BY <1>7 DEF Sync, Tick, Finalize, vars, call
    <2> QED BY <2>1
  <1> QED BY <1>1, <1>2, <1>3, <1>4, <1>5, <1>6, <1>7 DEF Next, Continue

\* Helm never gets a setup with an open domain or identifier, whatever is
\* edited, lost or crashes while the operator fills them in.
THEOREM OnlyDeployable == Spec => []DeployedIsDeployable
  <1>1. Init => Handed
    BY ReconcilerAssumption DEF Init, Handed, DeployedIsDeployable
  <1>2. TypeOK /\ Handed /\ [Next]_vars => Handed'
    BY NextHands
  <1>3. Handed => DeployedIsDeployable
    BY DEF Handed
  <1> QED BY <1>1, <1>2, <1>3, TypeCorrect, PTL DEF Spec

-----------------------------------------------------------------------------
(* The operator never forgets an object. *)

LEMMA StatusNames ==
    /\ {STATUS_PAUSED, STATUS_FAILED, STATUS_SUCCESSFUL, STATUS_UPDATING}
         \subseteq Statuses
    /\ STATUS_UNKNOWN \notin Statuses
    /\ STATUS_PAUSED \notin {STATUS_FAILED, STATUS_SUCCESSFUL, STATUS_UPDATING}
    /\ STATUS_FAILED \notin {STATUS_SUCCESSFUL, STATUS_UPDATING}
    /\ STATUS_SUCCESSFUL # STATUS_UPDATING
  BY DEF Statuses, STATUS_UNKNOWN, STATUS_PAUSED, STATUS_FAILED,
         STATUS_SUCCESSFUL, STATUS_UPDATING

\* Conditions that storing a fresh stamp for s leaves as they are had it.
LEMMA StoredStamp ==
    ASSUME NEW conds \in ConditionMaps, NEW s \in Statuses,
           NEW now \in Nat, NEW version \in Versions,
           Stored(Put(conds, s, Stamp(now, version))) = conds
    PROVE  /\ s \in Present(conds)
           /\ conds[s].sec = now /\ conds[s].version = version
  <1> DEFINE c == Stamp(now, version)
             marked == Put(conds, s, c)
  <1>1. c \in Condition /\ c.sec = now /\ c.version = version
    BY StampType DEF Stamp
  <1> HIDE DEF c
  <1>2. marked \in ConditionMaps /\ marked[s] = c /\ s \in Present(marked)
    BY <1>1, PutType
  <1>3. Stored(marked) = conds
    BY DEF c
  <1> HIDE DEF marked
  <1> QED BY <1>1, <1>2, <1>3, StoredType

\* A Paused condition as late as any other is the last one.
LEMMA PausedIsLast ==
    ASSUME NEW conds \in ConditionMaps, STATUS_PAUSED \in Present(conds),
           \A s \in Present(conds) : /\ conds[s].frac = 0
                                     /\ conds[s].sec <= conds[STATUS_PAUSED].sec
    PROVE  LastStatus(conds) = STATUS_PAUSED
  <1> SUFFICES ASSUME NEW t \in Present(conds) \ {STATUS_PAUSED}
               PROVE  \/ Later(conds[STATUS_PAUSED], conds[t])
                      \/ /\ ~Later(conds[t], conds[STATUS_PAUSED])
                         /\ Position[STATUS_PAUSED] < Position[t]
    BY LatestIsLast
  <1>1. t \in Statuses \ {STATUS_PAUSED}
    BY DEF Present
  <1>2. Position[STATUS_PAUSED] < Position[t]
    BY <1>1, Positions DEF Statuses
  <1> QED BY <1>2, PresentHasStamp DEF Later

\* Stamps stay behind when one condition is stamped now.
LEMMA PutDated ==
    ASSUME NEW t \in Toolkits, NEW status \in Statuses, NEW version \in Versions,
           NEW o, o.conditions = Put(t.conditions, status, Stamp(clock, version)),
           status # STATUS_PAUSED => version = operator,
           clock \in Nat, operator \in Versions, Dated(t)
    PROVE  Dated(o)
  <1> DEFINE c == Stamp(clock, version)
  <1>1. c \in Condition /\ c.sec = clock /\ c.version = version
    BY StampType DEF Stamp
  <1>2. t.conditions \in ConditionMaps
    BY DEF Toolkits
  <1>3. o.conditions = Put(t.conditions, status, c)
    OBVIOUS
  <1> HIDE DEF c
  <1>4. /\ o.conditions[status] = c
        /\ Present(o.conditions) = Present(t.conditions) \cup {status}
        /\ \A s \in Statuses \ {status} : o.conditions[s] = t.conditions[s]
    BY <1>1, <1>2, <1>3, PutType
  <1>5. Present(t.conditions) \subseteq Statuses
    BY DEF Present
  <1> QED BY <1>1, <1>4, <1>5 DEF Dated

LEMMA MarkedDated ==
    ASSUME NEW t \in Toolkits, NEW status \in Statuses,
           clock \in Nat, operator \in Versions, Dated(t)
    PROVE  Dated(Marked(t, status))
  <1>1. Marked(t, status).conditions
          = Put(t.conditions, status, Stamp(clock, operator))
    BY DEF Marked, Toolkits
  <1> QED BY <1>1, PutDated

LEMMA ToUpdatingDated ==
    ASSUME NEW t \in Toolkits, NEW hash,
           clock \in Nat, operator \in Versions, Dated(t)
    PROVE  /\ Dated(ToUpdating(t, hash))
           /\ ToUpdating(t, hash).ann = hash
           /\ ToUpdating(t, hash).conditions
                = Put(t.conditions, STATUS_UPDATING, Stamp(clock, operator))
  <1>1. /\ ToUpdating(t, hash).ann = hash
        /\ ToUpdating(t, hash).conditions
             = Put(t.conditions, STATUS_UPDATING, Stamp(clock, operator))
    BY DEF ToUpdating, Marked, Toolkits
  <1> QED BY <1>1, StatusNames, PutDated

LEMMA ToPausedDated ==
    ASSUME NEW t \in Toolkits, clock \in Nat, operator \in Versions, Dated(t)
    PROVE  /\ Dated(ToPaused(t))
           /\ \E version \in Versions :
                ToPaused(t).conditions
                  = Put(t.conditions, STATUS_PAUSED, Stamp(clock, version))
  <1> DEFINE version == IF STATUS_PAUSED \in Present(t.conditions)
                        THEN t.conditions[STATUS_PAUSED].version
                        ELSE operator
  <1>1. t.conditions \in ConditionMaps
    BY DEF Toolkits
  <1>2. version \in Versions
    BY <1>1, PresentHasStamp
  <1>3. ToPaused(t).conditions
          = Put(t.conditions, STATUS_PAUSED, Stamp(clock, version))
    BY DEF ToPaused, Toolkits
  <1> HIDE DEF version
  <1> QED BY <1>2, <1>3, StatusNames, PutDated

\* The cache and the call in flight keep up with what they were read from.
LEMMA FreshStep ==
    ASSUME TypeOK, Fresh, [Next]_vars
    PROVE  Fresh'
  <1> USE DEF Fresh
  <1>1. ASSUME NEW o, NEW next, NEW again, Proceed(o, next, again)
        PROVE  Fresh'
    BY <1>1 DEF Proceed
  <1>2. CASE Decide
    <2>1. CASE IgnoreMissing
      BY <2>1 DEF IgnoreMissing, Reading, object, call
    <2> QED BY <1>1, <1>2, <2>1
            DEF Decide, ReconcilePaused, StartUpdating, StayPut, WaitToRetry,
                PatchDefinition, RefuseToDeploy, StartHelm
  <1>3. CASE HelmSucceeds \/ HelmRefuses \/ HelmFails
    BY <1>3 DEF HelmSucceeds, HelmRefuses, HelmFails, HelmEnds, object
  <1>4. CASE PatchObject
    BY <1>4 DEF PatchObject
  <1>5. CASE PatchStatus
    BY <1>5 DEF PatchStatus, Return
  <1>6. CASE PatchRejected
    BY <1>6 DEF PatchRejected, Return
  <1>7. CASE PatchFault
    <2>1. pc' = "idle" /\ cache' = cache
      BY <1>7 DEF PatchFault, Return
    <2>2. ~lagging' => ~lagging /\ cr' = cr
      BY <1>7 DEF PatchFault
    <2> QED BY <2>1, <2>2
  <1>8. CASE Sync \/ Tick \/ Finalize
    BY <1>8 DEF Sync, Tick, Finalize, object, call
  <1>9. ASSUME NEW v \in Versions, Restart(v)
        PROVE  Fresh'
    BY <1>9 DEF Restart, Relist
  <1>10. CASE UserActs
    <2>1. lagging' /\ pc' = pc /\ base' = base /\ cache' = cache /\ queued' = queued
      BY <1>10 DEF UserActs, Create, Edit, Replace, SetPaused, Delete,
                   DeleteForeground, UserWrites, call
    <2> QED BY <2>1
  <1>11. CASE UNCHANGED vars
    BY <1>11 DEF vars, object, call
  <1> QED BY <1>2, <1>3, <1>4, <1>5, <1>6, <1>7, <1>8, <1>9, <1>10, <1>11
          DEF Next, Continue

\* What the conditions of t must satisfy for the server, the cache and base.
Kept(t) ==
    t # Absent => /\ Dated(t)
                  /\ \A s \in Present(t.conditions) : t.conditions[s].frac = 0

\* A later second leaves no condition of the present one.
LEMMA LaterDated ==
    ASSUME NEW t \in Toolkits, Dated(t), clock \in Nat, clock' = clock + 1
    PROVE  \A s \in Present(t.conditions) :
             /\ t.conditions[s].sec <= clock'
             /\ t.conditions[s].sec # clock'
  <1>1. t.conditions \in ConditionMaps
    BY DEF Toolkits
  <1> QED BY <1>1, PresentHasStamp DEF Dated

\* A status patch writes conditions that were there or were made by the call.
LEMMA StatusPatchedKept ==
    ASSUME TypeOK, pc = "status", cr # Absent, Kept(cr), Dated(obj)
    PROVE  Kept(StatusPatched)
  <1>1. cr \in Toolkits /\ obj \in Toolkits /\ obj.conditions \in ConditionMaps
    BY DEF TypeOK, Toolkits
  <1>2. \/ StatusPatched.conditions = cr.conditions
        \/ StatusPatched.conditions = Stored(obj.conditions)
    BY <1>1 DEF StatusPatched, Merged, Toolkits
  <1>3. Present(Stored(obj.conditions)) = Present(obj.conditions)
    BY <1>1, StoredType
  <1> QED BY <1>1, <1>2, <1>3, StoredType DEF Kept, Dated

\* The stamps in every copy stay behind, and keep to the running version.
LEMMA TimelyStep ==
    ASSUME TypeOK, Timely, [Next]_vars
    PROVE  Timely'
  <1> DEFINE Made(t) == t # Absent => Dated(t)
  <1>0. Timely <=> Kept(cr) /\ Kept(cache) /\ Kept(base) /\ Made(obj)
    BY DEF Timely, Kept
  <1>1. Timely' <=> /\ Kept(cr)' /\ Kept(cache)' /\ Kept(base)' /\ Made(obj)'
    BY DEF Timely, Kept
  <1>2. clock' = clock /\ operator' = operator
          => \A t : /\ Dated(t) => Dated(t)'
                    /\ Kept(t) => Kept(t)'
    BY DEF Dated, Kept
  <1>3. ASSUME clock' = clock, operator' = operator,
               Kept(cr'), Kept(cache'), Kept(base'), Made(obj')
        PROVE  Timely'
    <2>1. Kept(cr)' /\ Kept(cache)' /\ Kept(base)'
      BY <1>2, <1>3 DEF Kept, Dated
    <2>2. Made(obj)'
      BY <1>2, <1>3 DEF Dated
    <2> QED BY <1>1, <2>1, <2>2
  <1>4. /\ Kept(cr) /\ Kept(cache) /\ Kept(base) /\ Made(obj)
        /\ clock \in Nat /\ operator \in Versions
    BY <1>0 DEF TypeOK
  <1>5. Kept(Absent) /\ Made(Absent)
    BY DEF Kept
  <1> HIDE DEF Made
  <1>6. CASE Decide
    <2>1. ASSUME NEW o \in Toolkits, Dated(o), NEW next, NEW again,
                 Proceed(o, next, again)
          PROVE  Timely'
      <3>1. Made(o)
        BY <2>1 DEF Made
      <3> QED BY <1>3, <1>4, <2>1, <3>1 DEF Proceed
    <2>2. CASE IgnoreMissing
      BY <1>3, <1>4, <2>2 DEF IgnoreMissing, object, call
    <2> SUFFICES ASSUME ~IgnoreMissing PROVE Timely'
      BY <2>2
    <2>3. cache \in Toolkits /\ Dated(cache)
      BY <1>4, <1>6, ReconcilerAssumption
         DEF Decide, ReconcilePaused, StartUpdating, StayPut, WaitToRetry,
             PatchDefinition, RefuseToDeploy, StartHelm, MustUpdate, Active,
             TypeOK, Kept
    <2>4. Annotated(cache) \in Toolkits /\ Dated(Annotated(cache))
      BY <2>3, AnnotatedType DEF Dated
    <2>5. CASE ReconcilePaused
      <3>1. /\ Dated(ToPaused(Annotated(cache)))
            /\ ToPaused(Annotated(cache)) \in Toolkits
        BY <1>4, <2>4, ToPausedDated, ToPausedType
      <3> QED BY <2>1, <2>5, <3>1 DEF ReconcilePaused
    <2>6. Hash(cache.setup) \in Hashes
      BY <2>3 DEF Toolkits, Hashes
    <2>7. /\ Dated(ToUpdating(cache, Hash(cache.setup)))
          /\ ToUpdating(cache, Hash(cache.setup)) \in Toolkits
      BY <1>4, <2>3, <2>6, ToUpdatingDated, ToUpdatingType
    <2>8. CASE StartUpdating
      BY <2>1, <2>7, <2>8 DEF StartUpdating
    <2>9. CASE StayPut \/ WaitToRetry \/ StartHelm
      BY <2>1, <2>4, <2>9 DEF StayPut, WaitToRetry, StartHelm
    <2>10. CASE PatchDefinition
      <3>1. PICK known \in BOOLEAN :
              Proceed([ToUpdating(cache, Hash(cache.setup))
                          EXCEPT !.setup = Resolve(cache.setup, known)],
                      "patch", TRUE)
        BY <2>10 DEF PatchDefinition, IngressOutcomes
      <3> DEFINE o == [ToUpdating(cache, Hash(cache.setup))
                          EXCEPT !.setup = Resolve(cache.setup, known)]
      <3>2. Resolve(cache.setup, known) \in Setups
        BY <2>3, ResolveType DEF Toolkits
      <3>3. /\ o \in Toolkits
            /\ o.conditions = ToUpdating(cache, Hash(cache.setup)).conditions
        BY <2>7, <3>2 DEF Toolkits
      <3> HIDE DEF o
      <3>4. Dated(o)
        BY <2>7, <3>3 DEF Dated
      <3> QED BY <2>1, <3>1, <3>3, <3>4 DEF o
    <2>11. CASE RefuseToDeploy
      <3>1. /\ Dated(Marked(Annotated(cache), STATUS_FAILED))
            /\ Marked(Annotated(cache), STATUS_FAILED) \in Toolkits
        BY <1>4, <2>4, StatusNames, MarkedDated, MarkedType
      <3> QED BY <2>1, <2>11, <3>1 DEF RefuseToDeploy
    <2> QED BY <1>6, <2>5, <2>8, <2>9, <2>10, <2>11 DEF Decide
  <1>7. CASE HelmSucceeds \/ HelmRefuses \/ HelmFails
    <2>1. PICK status \in Statuses : \E again : HelmEnds(status, again)
      BY <1>7, StatusNames DEF HelmSucceeds, HelmRefuses, HelmFails
    <2>2. obj \in Toolkits /\ obj # Absent
      BY <1>7, ReconcilerAssumption DEF HelmSucceeds, HelmRefuses, HelmFails, TypeOK
    <2>3. Dated(Marked(obj, status))
      BY <1>4, <2>2, MarkedDated DEF Made
    <2>4. Made(obj')
      BY <2>1, <2>3 DEF HelmEnds, Made
    <2> QED BY <1>3, <1>4, <2>1, <2>4 DEF HelmEnds, object
  <1>8. pc = "patch" /\ cr # Absent => Kept(Patched)
    <2> SUFFICES ASSUME pc = "patch", cr # Absent PROVE Kept(Patched)
      OBVIOUS
    <2>1. cr \in Toolkits /\ Patched.conditions = cr.conditions
      BY DEF TypeOK, Patched, Toolkits
    <2> QED BY <1>4, <2>1 DEF Kept, Dated
  <1>9. CASE PatchObject
    BY <1>3, <1>4, <1>8, <1>9 DEF PatchObject
  <1>10. ASSUME NEW again, Return(again), Kept(cr')
         PROVE  Timely'
    BY <1>3, <1>4, <1>5, <1>10 DEF Return
  <1>11. pc = "status" /\ cr # Absent => Kept(StatusPatched)
    <2> SUFFICES ASSUME pc = "status", cr # Absent PROVE Kept(StatusPatched)
      OBVIOUS
    <2>1. obj # Absent
      BY ReconcilerAssumption DEF TypeOK
    <2> QED BY <1>4, <2>1, StatusPatchedKept DEF Made
  <1>12. CASE PatchStatus \/ PatchRejected \/ PatchFault
    BY <1>4, <1>8, <1>10, <1>11, <1>12 DEF PatchStatus, PatchRejected, PatchFault
  <1>13. CASE Sync \/ Finalize \/ UNCHANGED vars
    BY <1>3, <1>4, <1>5, <1>13 DEF Sync, Finalize, vars, object, call
  <1>14. CASE UserActs
    <2>1. ASSUME NEW o, UserWrites(o), Kept(o)
          PROVE  Timely'
      BY <1>3, <1>4, <2>1 DEF UserWrites, call
    <2>2. ASSUME cr # Absent, NEW o, o.conditions = cr.conditions
          PROVE  Kept(o)
      BY <1>4, <2>2 DEF Kept, Dated
    <2>3. ASSUME NEW s \in Inputs, NEW p \in BOOLEAN,
                 NEW a \in {NoAnnotations, NoHash}, Create(s, p, a)
          PROVE  Timely'
      <3> DEFINE o == [setup |-> s, paused |-> p, ann |-> a, terminating |-> FALSE,
                       conditions |-> NoConditions, phase |-> STATUS_UNKNOWN,
                       version |-> Empty]
      <3>1. Present(o.conditions) = {}
        BY NoConditionsType
      <3>2. Kept(o)
        BY <3>1 DEF Kept, Dated
      <3> HIDE DEF o
      <3> QED BY <2>1, <2>3, <3>2 DEF Create, o
    <2>4. CASE Delete
      BY <1>5, <2>1, <2>4 DEF Delete
    <2>5. ASSUME cr \in Toolkits, NEW s, NEW p
          PROVE  /\ [cr EXCEPT !.setup = s].conditions = cr.conditions
                 /\ [cr EXCEPT !.setup = s, !.ann = p].conditions = cr.conditions
                 /\ [cr EXCEPT !.paused = p].conditions = cr.conditions
                 /\ [cr EXCEPT !.terminating = p].conditions = cr.conditions
      BY <2>5 DEF Toolkits
    <2>6. cr # Absent => cr \in Toolkits
      BY DEF TypeOK
    <2>7. ASSUME NEW s \in Inputs, Edit(s)
          PROVE  Timely'
      BY <2>1, <2>2, <2>5, <2>6, <2>7 DEF Edit
    <2>8. ASSUME NEW s \in Inputs, Replace(s)
          PROVE  Timely'
      BY <2>1, <2>2, <2>5, <2>6, <2>8 DEF Replace
    <2>9. ASSUME NEW p \in BOOLEAN, SetPaused(p)
          PROVE  Timely'
      BY <2>1, <2>2, <2>5, <2>6, <2>9 DEF SetPaused
    <2>10. CASE DeleteForeground
      BY <2>1, <2>2, <2>5, <2>6, <2>10 DEF DeleteForeground
    <2> QED BY <1>14, <2>3, <2>4, <2>7, <2>8, <2>9, <2>10 DEF UserActs
  <1>15. CASE Tick \/ \E v \in Versions : Restart(v)
    <2>1. /\ clock' = clock + 1
          /\ cr' = cr /\ cache' \in {cache, cr}
          /\ base' \in {base, Absent} /\ obj' \in {obj, Absent}
      BY <1>15 DEF Timely, Tick, Restart, Relist, object, call
    <2>2. ASSUME NEW t \in Toolkits \cup {Absent}, Made(t)
          PROVE  t # Absent => Dated(t)'
      BY <1>4, <2>1, <2>2, LaterDated DEF Dated, Made
    <2>3. \A t \in Toolkits \cup {Absent} : Kept(t) => Kept(t)'
      BY <2>2 DEF Kept, Made
    <2>4. /\ {cr, cache, base, obj} \subseteq Toolkits \cup {Absent}
      BY DEF TypeOK
    <2>5. Kept(cr)' /\ Kept(cache)' /\ Kept(base)'
      BY <1>4, <1>5, <2>1, <2>3, <2>4 DEF Kept, Dated
    <2>6. obj' # Absent => Dated(obj)'
      BY <1>4, <2>1, <2>2, <2>4 DEF Dated
    <2> QED BY <1>1, <2>5, <2>6 DEF Made
  <1> QED BY <1>6, <1>7, <1>9, <1>11, <1>12, <1>13, <1>14, <1>15
          DEF Next, Continue

\* A call that announces an update changes the annotation or a stamp: each of
\* the reasons to announce one shows in one of them.
LEMMA AnnouncementShows ==
    ASSUME TypeOK, Timely, StartUpdating
    PROVE  ~Ineffective'
  <1> SUFFICES ASSUME Ineffective' PROVE FALSE
    OBVIOUS
  <1> DEFINE c == cache.conditions
             last == LastStatus(c)
  <1>1. /\ cache \in Toolkits /\ c \in ConditionMaps
        /\ clock \in Nat /\ operator \in Versions
    <2>1. cache # Absent
      BY DEF StartUpdating, MustUpdate, Active
    <2> QED BY <2>1 DEF TypeOK, Toolkits
  <1>2. /\ Stored(Put(c, STATUS_UPDATING, Stamp(clock, operator))) = c
        /\ Hash(cache.setup) = cache.ann
    <2>1. Dated(cache)
      BY <1>1, ReconcilerAssumption DEF Timely
    <2>2. /\ obj'.ann = Hash(cache.setup)
          /\ obj'.conditions = Put(c, STATUS_UPDATING, Stamp(clock, operator))
          /\ base' = cache
      BY <1>1, <2>1, ToUpdatingDated DEF StartUpdating, Proceed
    <2> QED BY <2>2 DEF Ineffective
  <1>3. /\ STATUS_UPDATING \in Present(c)
        /\ c[STATUS_UPDATING].sec = clock
    BY <1>1, <1>2, StatusNames, StoredStamp
  <1>4. last \in {STATUS_SUCCESSFUL, STATUS_FAILED}
    <2>1. last # STATUS_UNKNOWN
      BY <1>1, <1>3, LastStatusType
    <2> QED BY <2>1 DEF StartUpdating, MustUpdate, Active
  <1>5. last \in Present(c) /\ c[last].sec = clock /\ c[last].version = operator
    <2>1. /\ last \in Present(c)
          /\ Beats(c, last, STATUS_UPDATING)
      BY <1>1, <1>3, LastStatusIsBest
    <2>2. \A s \in Present(c) : /\ c[s].frac = 0 /\ c[s].sec <= clock
                                /\ s # STATUS_PAUSED /\ c[s].sec = clock
                                     => c[s].version = operator
      BY <1>1, ReconcilerAssumption DEF Timely, Dated
    <2> HIDE DEF last
    <2> QED BY <1>1, <1>3, <1>4, <2>1, <2>2, StatusNames, PresentHasStamp
            DEF Beats, Later
  <1>6. ~DeploymentStale(cache)
    BY <1>5 DEF DeploymentStale
  <1>7. last = STATUS_FAILED => ~ConfigurationOld(cache)
    BY <1>1, <1>5, ReconcilerAssumption DEF ConfigurationOld
  <1>8. ~ConfigurationChanged(cache)
    <2>1. cache.ann # NoAnnotations
      BY <1>1, <1>2, ReconcilerAssumption DEF Toolkits, Hashes
    <2> QED BY <1>2, <2>1 DEF ConfigurationChanged, LastHash
  <1>9. STATUS_UNKNOWN \notin {STATUS_SUCCESSFUL, STATUS_FAILED}
        /\ STATUS_FAILED # STATUS_SUCCESSFUL
    BY DEF STATUS_FAILED, STATUS_UNKNOWN, STATUS_SUCCESSFUL
  <1> QED BY <1>4, <1>6, <1>7, <1>8, <1>9 DEF StartUpdating, MustUpdate, Active

\* A success stamps a condition that was not the last one before.
LEMMA SuccessShows ==
    ASSUME TypeOK, Timely, Effective, HelmSucceeds
    PROVE  ~Ineffective'
  <1> DEFINE b == base.conditions
  <1>1. /\ pc = "deploy" /\ obj.conditions = b
        /\ LastStatus(b) = STATUS_UPDATING
        /\ base \in Toolkits /\ b \in ConditionMaps /\ obj \in Toolkits
        /\ clock \in Nat /\ operator \in Versions
    BY DEF HelmSucceeds, Effective, TypeOK, Toolkits
  <1> SUFFICES ASSUME Ineffective' PROVE FALSE
    OBVIOUS
  <1>2. Stored(Put(b, STATUS_SUCCESSFUL, Stamp(clock, operator))) = b
    <2>1. /\ obj' = Marked(obj, STATUS_SUCCESSFUL) /\ base' = base
      BY DEF HelmSucceeds, HelmEnds
    <2>2. Marked(obj, STATUS_SUCCESSFUL).conditions
            = Put(b, STATUS_SUCCESSFUL, Stamp(clock, operator))
      BY <1>1 DEF Marked, Toolkits
    <2> QED BY <2>1, <2>2 DEF Ineffective
  <1>3. /\ STATUS_SUCCESSFUL \in Present(b)
        /\ b[STATUS_SUCCESSFUL].sec = clock
    BY <1>1, <1>2, StatusNames, StoredStamp
  <1>4. /\ STATUS_UPDATING \in Present(b)
        /\ Beats(b, STATUS_UPDATING, STATUS_SUCCESSFUL)
    BY <1>1, <1>3, LastStatusIsBest
  <1>5. \A s \in Present(b) : b[s].frac = 0 /\ b[s].sec <= clock
    BY <1>1, ReconcilerAssumption DEF Timely, Dated
  <1> QED BY <1>1, <1>3, <1>4, <1>5, PresentHasStamp, Positions DEF Beats, Later

\* A call that will not requeue has read a settled object, or changes it.
LEMMA EffectiveStep ==
    ASSUME TypeOK, Timely, Fresh, Effective, [Next]_vars
    PROVE  Effective'
  <1> DEFINE c == cache.conditions
  <1>1. ASSUME NEW o, NEW again, Proceed(o, "patch", again),
               again = FALSE /\ Ineffective'
                 => LastStatus(c) \in {STATUS_SUCCESSFUL, STATUS_PAUSED}
        PROVE  Effective'
    BY <1>1 DEF Effective, Proceed
  <1>2. CASE Decide
    <2>1. CASE IgnoreMissing
      BY <2>1 DEF IgnoreMissing, Reading, call, object, Effective, Ineffective
    <2> SUFFICES ASSUME ~IgnoreMissing PROVE Effective'
      BY <2>1
    <2>2. /\ cache \in Toolkits /\ c \in ConditionMaps /\ Dated(cache)
          /\ \A s \in Present(c) : c[s].frac = 0
          /\ clock \in Nat /\ operator \in Versions
      BY <1>2, ReconcilerAssumption
         DEF Decide, ReconcilePaused, StartUpdating, StayPut, WaitToRetry,
             PatchDefinition, RefuseToDeploy, StartHelm, MustUpdate, Active,
             TypeOK, Timely, Toolkits
    <2>3. CASE ReconcilePaused
      <3>1. ASSUME Ineffective' PROVE LastStatus(c) = STATUS_PAUSED
        <4>1. PICK version \in Versions :
                ToPaused(Annotated(cache)).conditions
                  = Put(c, STATUS_PAUSED, Stamp(clock, version))
          <5>1. Dated(Annotated(cache)) /\ Annotated(cache) \in Toolkits
            BY <2>2, AnnotatedType DEF Dated
          <5> QED BY <2>2, <5>1, AnnotatedType, ToPausedDated
        <4>2. Stored(Put(c, STATUS_PAUSED, Stamp(clock, version))) = c
          BY <2>3, <3>1, <4>1 DEF ReconcilePaused, Proceed, Ineffective
        <4>3. STATUS_PAUSED \in Present(c) /\ c[STATUS_PAUSED].sec = clock
          BY <2>2, <4>2, StatusNames, StoredStamp
        <4> QED BY <2>2, <4>3, PausedIsLast DEF Dated
      <3> QED BY <1>1, <2>3, <3>1 DEF ReconcilePaused
    <2>4. CASE StartUpdating
      BY <1>1, <2>4, AnnouncementShows DEF StartUpdating
    <2>5. CASE StayPut
      BY <1>1, <2>5 DEF StayPut, Active
    <2>6. CASE WaitToRetry \/ PatchDefinition \/ RefuseToDeploy
      BY <1>1, <2>6 DEF WaitToRetry, PatchDefinition, RefuseToDeploy
    <2>7. CASE StartHelm
      <3>1. Annotated(cache).conditions = c
        BY <2>2, AnnotatedType
      <3> QED BY <2>7, <3>1 DEF StartHelm, Active, Proceed, Effective
    <2> QED BY <1>2, <2>3, <2>4, <2>5, <2>6, <2>7 DEF Decide
  <1>3. CASE HelmSucceeds
    <2>1. pc' = "patch"
      BY <1>3 DEF HelmSucceeds, HelmEnds
    <2> QED BY <1>3, <2>1, SuccessShows DEF Effective
  <1>4. CASE HelmRefuses \/ HelmFails
    BY <1>4 DEF HelmRefuses, HelmFails, HelmEnds, Effective
  <1>5. CASE PatchObject
    <2>1. /\ pc = "patch" /\ pc' = "status" /\ cr # Absent
          /\ obj' = obj /\ base' = base /\ requeue' = requeue
      BY <1>5 DEF PatchObject
    <2>2. ASSUME ~lagging', ~queued'
          PROVE  obj.setup = base.setup /\ obj.ann = base.ann
      <3>1. Patched = cr /\ base = cr
        BY <1>5, <2>1, <2>2 DEF PatchObject, Fresh
      <3>2. base \in Toolkits /\ obj \in Toolkits
        BY <2>1 DEF TypeOK
      <3>3. Patched.ann = Merged(cr.ann, base.ann, obj.ann)
            /\ Patched.setup = MergedSetup
        BY <3>1, <3>2 DEF Patched, Toolkits
      <3>4. obj.ann = base.ann
        BY <3>1, <3>3 DEF Merged
      <3>5. /\ MergedSetup = base.setup
            /\ \A f \in DOMAIN base.setup :
                 MergedSetup[f] = Merged(base.setup[f], base.setup[f], obj.setup[f])
        BY <3>1, <3>3 DEF MergedSetup
      <3>6. \A f \in DOMAIN base.setup : obj.setup[f] = base.setup[f]
        BY <3>5 DEF Merged
      <3>7. base.setup \in Setups /\ obj.setup \in Setups
        BY <3>2 DEF Toolkits
      <3>8. obj.setup = base.setup
        BY <3>6, <3>7 DEF Setups
      <3> QED BY <3>4, <3>8
    <2> QED BY <2>1, <2>2 DEF Effective, Ineffective
  <1>6. CASE PatchStatus \/ PatchRejected \/ PatchFault
    <2>1. pc' = "idle"
      BY <1>6 DEF PatchStatus, PatchRejected, PatchFault, Return
    <2> QED BY <2>1 DEF Effective
  <1>7. ASSUME NEW v \in Versions, Restart(v)
        PROVE  Effective'
    BY <1>7 DEF Restart, Relist, Effective
  <1>8. ASSUME UNCHANGED call,
               \/ UNCHANGED <<lagging, queued>>
               \/ lagging'
               \/ queued'
        PROVE  Effective'
    BY <1>8 DEF call, Effective, Ineffective
  <1>9. CASE UserActs
    BY <1>8, <1>9 DEF UserActs, Create, Edit, Replace, SetPaused, Delete,
                      DeleteForeground, UserWrites
  <1>10. CASE Sync \/ Tick \/ Finalize \/ UNCHANGED vars
    BY <1>8, <1>10 DEF Sync, Tick, Finalize, vars, object
  <1> QED BY <1>2, <1>3, <1>4, <1>5, <1>6, <1>7, <1>9, <1>10 DEF Next, Continue

\* A call that ends and leaves nothing to do has read what is on the server, and
\* has changed nothing.
LEMMA QuietReturn ==
    ASSUME TypeOK, Fresh, Effective, PatchStatus, ~queued', ~lagging'
    PROVE  /\ ~requeue /\ pc = "status" /\ Ineffective
           /\ base \in Toolkits /\ cr = base
           /\ cr' = base /\ StatusPatched = base
  <1>1. /\ pc = "status" /\ ~requeue /\ ~queued /\ ~lagging
        /\ cr' = StatusPatched /\ StatusPatched = cr
    BY DEF PatchStatus, Return
  <1>2. cr = base /\ base \in Toolkits /\ cr # Absent
    BY <1>1 DEF Fresh, TypeOK, PatchStatus
  <1>3. obj.setup = base.setup /\ obj.ann = base.ann
    BY <1>1 DEF Effective
  <1>4. Stored(obj.conditions) = base.conditions
    <2>1. StatusPatched.conditions
            = Merged(cr.conditions, base.conditions, Stored(obj.conditions))
      BY <1>2 DEF StatusPatched, Toolkits
    <2> QED BY <1>1, <1>2, <2>1 DEF Merged
  <1> QED BY <1>1, <1>2, <1>3, <1>4 DEF Ineffective

\* The operator comes to rest by leaving an object alone that it has read, or
\* stays at rest.
LEMMA ComesToRest ==
    ASSUME TypeOK, Fresh, [Next]_vars, Quiescent', cr' # Absent
    PROVE  \/ PatchStatus /\ ~queued' /\ ~lagging'
           \/ Quiescent /\ cr' = cr
  <1>0. pc' = "idle" /\ ~queued' /\ ~lagging'
    BY DEF Quiescent
  <1>1. CASE Decide
    <2>1. IgnoreMissing
      BY <1>0, <1>1 DEF Decide, ReconcilePaused, StartUpdating, StayPut,
         WaitToRetry, PatchDefinition, RefuseToDeploy, StartHelm, Proceed
    <2> QED BY <1>0, <2>1 DEF IgnoreMissing, Fresh, object
  <1>2. CASE PatchStatus
    BY <1>0, <1>2
  <1>3. CASE HelmSucceeds \/ HelmRefuses \/ HelmFails
    BY <1>0, <1>3 DEF HelmSucceeds, HelmRefuses, HelmFails, HelmEnds
  <1>4. CASE PatchObject \/ PatchRejected \/ PatchFault
    BY <1>0, <1>4 DEF PatchObject, PatchRejected, PatchFault, Return
  <1>5. CASE Sync \/ \E v \in Versions : Restart(v)
    BY <1>0, <1>5 DEF Sync, Restart, Relist
  <1>6. CASE UserActs \/ Finalize
    BY <1>0, <1>6 DEF UserActs, Create, Edit, Replace, SetPaused, Delete,
                      DeleteForeground, UserWrites, Finalize
  <1>7. CASE Tick \/ UNCHANGED vars
    BY <1>0, <1>7 DEF Tick, vars, call, object, Quiescent
  <1> QED BY <1>1, <1>2, <1>3, <1>4, <1>5, <1>6, <1>7 DEF Next, Continue

\* What Status().Patch leaves alone was settled when it was read.
LEMMA SettledStep ==
    ASSUME TypeOK, Timely, Fresh, Effective, Settled, [Next]_vars
    PROVE  Settled'
  <1> SUFFICES ASSUME Quiescent', cr' # Absent
               PROVE  Last(cr)' \in {STATUS_SUCCESSFUL, STATUS_PAUSED}
    BY DEF Settled
  <1>1. CASE PatchStatus /\ ~queued' /\ ~lagging'
    BY <1>1, QuietReturn DEF Effective, Last, Toolkits
  <1>2. CASE Quiescent /\ cr' = cr
    BY <1>2 DEF Settled, Last
  <1> QED BY <1>1, <1>2, ComesToRest

LEMMA InitInv ==
    ASSUME "handover" \notin Environment
    PROVE  Init => Inv
  BY DEF Init, Inv, Fresh, Timely, Effective, Settled

\* Whatever fails, is lost, races or crashes, an object the operator has
\* stopped looking at is Successful or Paused, if a restart takes a second.
THEOREM NothingForgotten ==
    ASSUME "handover" \notin Environment
    PROVE  Spec => []Settled
  <1>1. Init => Inv
    BY InitInv
  <1>2. TypeOK /\ Inv /\ [Next]_vars => Inv'
    BY FreshStep, TimelyStep, EffectiveStep, SettledStep DEF Inv
  <1>3. Inv => Settled
    BY DEF Inv
  <1> QED BY <1>1, <1>2, <1>3, TypeCorrect, PTL DEF Spec

=============================================================================
