----------------------------- MODULE Reconciler -----------------------------
(***************************************************************************)
(* SimulationToolkitReconciler for one SimulationToolkit object: the API   *)
(* server's copy of the object (cr), the copy in the manager's informer    *)
(* cache that Reconcile reads (cache), the work queue entry (queued), one  *)
(* call of Reconcile cut at the points where it waits for something        *)
(* outside (pc), and what Helm has installed (deployed).                   *)
(*                                                                         *)
(* A call runs Get -> decide -> [Helm] -> Patch -> Status().Patch -> Get.  *)
(* Between two of these steps the user may write the object, the informer  *)
(* may deliver an event, a second may pass, and the operator may crash.    *)
(*                                                                         *)
(* resourceVersion is only ever compared, so the module keeps the outcome  *)
(* of the comparisons: lagging (the cache is not at the server's version), *)
(* moved (the object was written since the call in flight last read it)    *)
(* and locked (the status patch carries a resourceVersion).                *)
(***************************************************************************)
EXTENDS Setup, Conditions, Sequences

CONSTANTS
    Absent,          \* no object
    NoAnnotations,   \* an object without annotations
    NoHash,          \* annotations, but not last-configuration
    Nothing,         \* Helm never ran
    Partial,         \* a Helm run stopped half-way
    Inputs,          \* the setups users write
    StaleThreshold,  \* STALE_THRESHOLD_SECONDS
    Environment,     \* what the surroundings may do, see Behaviours
    MaxClock,        \* bound on the seconds
    MaxEdits,        \* bound on the user's writes
    MaxFaults        \* bound on failures and restarts

Behaviours == {
    "lag",          \* Reconcile may read a cache that is behind the server
    "tie",          \* Reconcile may run in the second of a stored condition
    "edit",         \* the user changes spec.setup
    "revisit",      \* ... back to a setup used before
    "replace",      \* the user replaces the object, dropping annotations
    "pause",        \* the user sets and clears spec.paused
    "delete",       \* the user deletes the object
    "foreground",   \* ... with a finalizer, so that it lingers
    "recreate",     \* the user creates the object again
    "helmfail",     \* Helm fails
    "ingressfail",  \* DiscoverClusterIngress fails
    "patchfault",   \* a Patch is refused
    "lostreply",    \* a Patch is applied and its reply is lost
    "statusfault",  \* a Status().Patch is refused
    "crash",        \* the operator restarts
    "statuscrash",  \* ... also between the two patches
    "upgrade",      \* ... as another version
    "handover"}     \* ... and the next one starts within a second

Hashes == {Hash(s) : s \in Setups}

Toolkits == [setup: Setups,
             paused: BOOLEAN,
             ann: {NoAnnotations, NoHash} \cup Hashes,
             terminating: BOOLEAN,
             conditions: ConditionMaps,
             phase: {STATUS_UNKNOWN} \cup Statuses,
             version: {Empty} \cup Versions]

Deployments == [setup: Setups, version: Versions]

ASSUME ReconcilerAssumption ==
    /\ Absent \notin Toolkits
    /\ Nothing \notin Deployments /\ Partial \notin Deployments
    /\ Nothing # Partial
    /\ NoAnnotations \notin Hashes /\ NoHash \notin Hashes
    /\ NoAnnotations # NoHash
    /\ Inputs \subseteq Setups
    /\ Environment \subseteq Behaviours
    /\ {StaleThreshold, MaxClock, MaxEdits, MaxFaults} \subseteq Nat

VARIABLES
    cr,        \* the object on the API server
    cache,     \* the object in the informer's cache
    lagging,   \* an event is on its way to the cache
    queued,    \* the object's key is in the work queue, or waits to be
    pc,        \* where the call of Reconcile in flight stands
    base,      \* the copy client.MergeFrom keeps of what was read
    obj,       \* obj, with allConditions as its conditions
    requeue,   \* addBackToQueue
    moved,     \* cr was written since the call last read it
    locked,    \* the status patch carries a resourceVersion
    deployed,  \* what Helm installed
    operator,  \* the ExpectedVersion of the running operator
    clock,     \* seconds
    edits,     \* how many writes the user made
    faults,    \* how many faults there were
    asked      \* the setups the user has asked for, in order

object == <<cr, lagging, moved>>
call == <<pc, base, obj, requeue, locked>>
bounds == <<edits, faults, asked>>
vars == <<object, cache, queued, call, deployed, operator, clock, bounds>>

-----------------------------------------------------------------------------
(* Reconcile, up to the first call it waits for. *)

\* A worker takes the key and reads the object.
Reading ==
    /\ pc = "idle" /\ queued
    /\ "lag" \in Environment \/ ~lagging
    /\ "tie" \notin Environment /\ cache # Absent =>
           \A s \in Present(cache.conditions) : cache.conditions[s].sec < clock

\* hashLast; an object without annotations was just given the hash of its
\* present setup, and one without the annotation has the empty string.
LastHash(t) == IF t.ann = NoAnnotations THEN Hash(t.setup) ELSE t.ann

\* obj once its nil annotations have been filled in.
Annotated(t) == [t EXCEPT !.ann = LastHash(t)]

ConfigurationChanged(t) == Hash(t.setup) # LastHash(t)

\* Mutant: younger than the threshold, as the comment of Reconcile has it.
ConfigurationYoung(t) ==
    clock - t.conditions[STATUS_FAILED].sec < StaleThreshold

ConfigurationOld(t) ==
    clock - t.conditions[STATUS_FAILED].sec > StaleThreshold

DeploymentStale(t) ==
    operator # t.conditions[LastStatus(t.conditions)].version

\* obj with one of its conditions stamped now, with the operator's version.
Marked(t, status) ==
    [t EXCEPT !.conditions = Put(@, status, Stamp(clock, operator))]

\* Mutant: the hash is not stored.
ToUpdatingUnrecorded(t, hash) == Marked(t, STATUS_UPDATING)

\* transitionToUpdating: hash is the hash of the setup that was read.
ToUpdating(t, hash) == [Marked(t, STATUS_UPDATING) EXCEPT !.ann = hash]

\* Mutant: the version is taken from the status, which may have none yet.
ToPausedUnversioned(t) ==
    [t EXCEPT !.conditions = Put(@, STATUS_PAUSED, Stamp(clock, t.version))]

\* Mutant: a deployment that has succeeded needs no pausing.
ToPausedUnlessDone(t) ==
    IF LastStatus(t.conditions) = STATUS_SUCCESSFUL THEN t
    ELSE [t EXCEPT !.conditions = Put(@, STATUS_PAUSED, Stamp(clock, operator))]

\* The Paused condition keeps the version it has.
ToPaused(t) ==
    LET version == IF STATUS_PAUSED \in Present(t.conditions)
                   THEN t.conditions[STATUS_PAUSED].version
                   ELSE operator
    IN  [t EXCEPT !.conditions = Put(@, STATUS_PAUSED, Stamp(clock, version))]

\* The call goes on to next with o in its hands.
Proceed(o, next, again) ==
    /\ base' = cache /\ obj' = o /\ pc' = next /\ requeue' = again
    /\ moved' = lagging /\ locked' = FALSE
    /\ queued' = FALSE
    /\ UNCHANGED <<cr, lagging, cache, deployed, operator, clock, bounds>>

\* The object is gone: nothing to do.
IgnoreMissing ==
    /\ Reading /\ cache = Absent
    /\ queued' = FALSE
    /\ UNCHANGED <<object, cache, call, deployed, operator, clock, bounds>>

\* What was read carries the last condition status and is not paused.  The
\* deletion timestamp is looked at, and then the call goes on regardless.
Active(status) ==
    /\ Reading /\ cache # Absent /\ ~cache.paused
    /\ LastStatus(cache.conditions) = status

ReconcilePaused ==
    /\ Reading /\ cache # Absent /\ cache.paused
    /\ Proceed(ToPaused(Annotated(cache)), "patch", FALSE)

\* Mutant: a Successful deployment is not compared with the operator's version.
MustUpdateUnlessSuccessful ==
    \/ Active(STATUS_UNKNOWN)
    \/ Active(STATUS_SUCCESSFUL) /\ ConfigurationChanged(cache)
    \/ /\ Active(STATUS_FAILED)
       /\ \/ ConfigurationChanged(cache)
          \/ ConfigurationOld(cache)
          \/ DeploymentStale(cache)

\* There is a reason to leave Unknown, Successful or Failed.
MustUpdate ==
    \/ Active(STATUS_UNKNOWN)
    \/ /\ Active(STATUS_SUCCESSFUL)
       /\ ConfigurationChanged(cache) \/ DeploymentStale(cache)
    \/ /\ Active(STATUS_FAILED)
       /\ \/ ConfigurationChanged(cache)
          \/ ConfigurationOld(cache)
          \/ DeploymentStale(cache)

StartUpdating ==
    /\ MustUpdate
    /\ Proceed(ToUpdating(cache, Hash(cache.setup)), "patch", FALSE)

\* Successful stays Successful.  A last condition of Paused has no case.
StayPut ==
    /\ \/ Active(STATUS_SUCCESSFUL) /\ ~MustUpdate
       \/ Active(STATUS_PAUSED)
    /\ Proceed(Annotated(cache), "patch", FALSE)

\* Mutant: addBackToQueue is not set.
WaitUnqueued ==
    /\ Active(STATUS_FAILED) /\ ~MustUpdate
    /\ Proceed(Annotated(cache), "patch", FALSE)

\* Failed, and too early to try again.
WaitToRetry ==
    /\ Active(STATUS_FAILED) /\ ~MustUpdate
    /\ Proceed(Annotated(cache), "patch", TRUE)

IngressOutcomes == IF "ingressfail" \in Environment THEN BOOLEAN ELSE {TRUE}

\* Updating: the setup is resolved, and when that changes it the new setup is
\* stored first, with the hash of the old one.
PatchDefinition ==
    /\ Active(STATUS_UPDATING)
    /\ \E known \in IngressOutcomes :
         LET resolved == Resolve(cache.setup, known)
         IN  /\ resolved # cache.setup
             /\ Proceed([ToUpdating(cache, Hash(cache.setup))
                            EXCEPT !.setup = resolved], "patch", TRUE)

\* Updating, and the setup cannot be resolved.
RefuseToDeploy ==
    /\ Active(STATUS_UPDATING)
    /\ \E known \in IngressOutcomes :
         /\ Resolve(cache.setup, known) = cache.setup
         /\ ResolveFails(cache.setup, known)
    /\ Proceed(Marked(Annotated(cache), STATUS_FAILED), "patch", TRUE)

\* Mutant: a Failed deployment is tried again without announcing it.
StartHelmUnannounced ==
    /\ Active(STATUS_UPDATING) \/ Active(STATUS_FAILED)
    /\ ~ResolveFails(cache.setup, TRUE)
    /\ Proceed(Annotated(cache), "deploy", FALSE)

\* Updating: HelmDeploySimulationToolkit is called.
StartHelm ==
    /\ Active(STATUS_UPDATING)
    /\ \E known \in IngressOutcomes :
         /\ Resolve(cache.setup, known) = cache.setup
         /\ ~ResolveFails(cache.setup, known)
    /\ Proceed(Annotated(cache), "deploy", FALSE)

-----------------------------------------------------------------------------
(* The call after it has waited for Helm or for the API server. *)

HelmEnds(status, again) ==
    /\ obj' = Marked(obj, status) /\ requeue' = again /\ pc' = "patch"
    /\ UNCHANGED <<object, cache, queued, base, locked, operator, clock,
                   edits, asked>>

\* Helm installs the setup, if it can be turned into values.
HelmSucceeds ==
    /\ pc = "deploy" /\ Accepted(obj.setup)
    /\ deployed' = [setup |-> obj.setup, version |-> operator]
    /\ HelmEnds(STATUS_SUCCESSFUL, FALSE)
    /\ UNCHANGED faults

\* The first release is refused its values, and nothing is touched.
HelmRefuses ==
    /\ pc = "deploy" /\ ~Accepted(obj.setup)
    /\ HelmEnds(STATUS_FAILED, TRUE)
    /\ UNCHANGED <<deployed, faults>>

\* Nothing was touched, or the releases are half-way, or they are all there and
\* what follows them has failed.
HelmFails ==
    /\ pc = "deploy" /\ Accepted(obj.setup)
    /\ "helmfail" \in Environment /\ faults < MaxFaults
    /\ faults' = faults + 1
    /\ deployed' \in {deployed, Partial,
                       [setup |-> obj.setup, version |-> operator]}
    /\ HelmEnds(STATUS_FAILED, TRUE)

\* A JSON merge patch takes over what differs between base and obj.
Merged(stored, from, to) == IF to # from THEN to ELSE stored

MergedSetup ==
    [f \in DOMAIN cr.setup |->
        Merged(cr.setup[f], base.setup[f], obj.setup[f])]

\* Mutant: what was filled in is not written back.
PatchedAnnotation == [cr EXCEPT !.ann = Merged(@, base.ann, obj.ann)]

\* Mutant: the hash recorded is that of the setup on the server.
PatchedLatest == [cr EXCEPT !.setup = MergedSetup, !.ann = Hash(cr.setup)]

Patched == [cr EXCEPT !.setup = MergedSetup,
                      !.ann = Merged(@, base.ann, obj.ann)]

\* r.Patch: the object's spec and metadata, whatever its version.  obj gets
\* the version that results, so the status patch carries one if that is not
\* the version base was read at.
PatchObject ==
    /\ pc = "patch" /\ cr # Absent
    /\ cr' = Patched
    /\ lagging' = (lagging \/ Patched # cr)
    /\ locked' = (moved \/ Patched # cr)
    /\ moved' = FALSE
    /\ pc' = "status"
    /\ UNCHANGED <<cache, queued, base, obj, requeue, deployed, operator, clock,
                   bounds>>

\* Mutant: phase and version follow the conditions that were read.
StatusPatchedLate ==
    [cr EXCEPT !.conditions = Merged(@, base.conditions, Stored(obj.conditions)),
               !.phase = LastStatus(base.conditions)]

\* Phase and version follow the latest condition, read from the exact stamps.
StatusPatched ==
    LET last == LastStatus(obj.conditions)
    IN  [cr EXCEPT
           !.conditions = Merged(@, base.conditions, Stored(obj.conditions)),
           !.phase = Merged(@, base.phase, last),
           !.version = Merged(@, base.version, obj.conditions[last].version)]

\* Mutant: the controller does not put the key back.
ReturnForgetful(again) ==
    /\ pc' = "idle" /\ base' = Absent /\ obj' = Absent
    /\ requeue' = FALSE /\ locked' = FALSE /\ moved' = FALSE
    /\ UNCHANGED <<queued, cache, deployed, operator, clock, edits, asked>>

\* The call returns; again: with Requeue or an error.
Return(again) ==
    /\ pc' = "idle" /\ base' = Absent /\ obj' = Absent
    /\ requeue' = FALSE /\ locked' = FALSE /\ moved' = FALSE
    /\ queued' = (queued \/ again)
    /\ UNCHANGED <<cache, deployed, operator, clock, edits, asked>>

\* r.Status().Patch, and the Get after it, whose result is only used for its
\* error.
PatchStatus ==
    /\ pc = "status" /\ cr # Absent /\ ~(locked /\ moved)
    /\ cr' = StatusPatched
    /\ lagging' = (lagging \/ StatusPatched # cr)
    /\ Return(requeue \/ cache = Absent)
    /\ UNCHANGED faults

\* The object is gone, or it was written since the resourceVersion was taken.
PatchRejected ==
    /\ \/ pc \in {"patch", "status"} /\ cr = Absent
       \/ pc = "status" /\ locked /\ moved
    /\ Return(TRUE)
    /\ UNCHANGED <<cr, lagging, faults>>

\* A request fails for another reason; with lostreply, after it took effect.
PatchFault ==
    /\ cr # Absent /\ faults < MaxFaults
    /\ faults' = faults + 1
    /\ \/ /\ \/ pc = "patch" /\ "patchfault" \in Environment
             \/ pc = "status" /\ "statusfault" \in Environment
          /\ UNCHANGED <<cr, lagging>>
       \/ /\ "lostreply" \in Environment
          /\ \/ pc = "patch" /\ cr' = Patched
             \/ pc = "status" /\ ~(locked /\ moved) /\ cr' = StatusPatched
          /\ lagging' = (lagging \/ cr' # cr)
    /\ Return(TRUE)

-----------------------------------------------------------------------------
(* The surroundings: informer, time, operator process, users. *)

\* The informer delivers the newest state and its handler queues the key.
Sync ==
    /\ lagging
    /\ cache' = cr /\ lagging' = FALSE /\ queued' = TRUE
    /\ UNCHANGED <<cr, moved, call, deployed, operator, clock, bounds>>

Tick ==
    /\ clock < MaxClock
    /\ clock' = clock + 1
    /\ UNCHANGED <<object, cache, queued, call, deployed, operator, bounds>>

\* The process dies and another one starts, as version v: it lists all the
\* objects into its cache and queues them.  That takes a second at least, unless
\* the next one was waiting for the lease that is released on the way out.
Relist(v) ==
    /\ "crash" \in Environment /\ faults < MaxFaults
    /\ pc = "status" => "statuscrash" \in Environment
    /\ v = operator \/ "upgrade" \in Environment
    /\ faults' = faults + 1
    /\ \/ clock < MaxClock /\ clock' = clock + 1
       \/ "handover" \in Environment /\ clock' = clock
    /\ operator' = v
    /\ cache' = cr /\ queued' = (cr # Absent)
    /\ lagging' = FALSE /\ moved' = FALSE
    /\ pc' = "idle" /\ base' = Absent /\ obj' = Absent
    /\ requeue' = FALSE /\ locked' = FALSE
    /\ UNCHANGED <<cr, edits, asked>>

\* ... and a Helm run that was under way stops where it is.
Restart(v) ==
    /\ Relist(v)
    /\ deployed' \in (IF pc = "deploy" THEN {deployed, Partial} ELSE {deployed})

\* The user makes the object what o says.
UserWrites(o) ==
    /\ edits < MaxEdits
    /\ edits' = edits + 1
    /\ cr' = o /\ lagging' = TRUE /\ moved' = (pc # "idle")
    /\ UNCHANGED <<cache, queued, call, deployed, operator, clock, faults>>

\* The user's next setup; without revisit, not one that was used before.
Ask(s) ==
    /\ "revisit" \notin Environment =>
          \A i \in DOMAIN asked : Resolve(asked[i], TRUE) # Resolve(s, TRUE)
    /\ asked' = Append(asked, s)

Create(s, p, a) ==
    /\ cr = Absent
    /\ p => "pause" \in Environment
    /\ asked # <<>> => "recreate" \in Environment
    /\ asked' = Append(asked, s)
    /\ UserWrites([setup |-> s, paused |-> p, ann |-> a, terminating |-> FALSE,
                   conditions |-> NoConditions, phase |-> STATUS_UNKNOWN,
                   version |-> Empty])

Edit(s) ==
    /\ cr # Absent /\ "edit" \in Environment /\ s # cr.setup
    /\ Ask(s)
    /\ UserWrites([cr EXCEPT !.setup = s])

\* A replace sends the object as it is in the user's file: no annotations.
Replace(s) ==
    /\ cr # Absent /\ "replace" \in Environment
    /\ Ask(s)
    /\ UserWrites([cr EXCEPT !.setup = s, !.ann = NoAnnotations])

SetPaused(p) ==
    /\ cr # Absent /\ "pause" \in Environment /\ p # cr.paused
    /\ UserWrites([cr EXCEPT !.paused = p])
    /\ UNCHANGED asked

Delete ==
    /\ cr # Absent /\ "delete" \in Environment
    /\ UserWrites(Absent)
    /\ UNCHANGED asked

DeleteForeground ==
    /\ cr # Absent /\ "foreground" \in Environment /\ ~cr.terminating
    /\ UserWrites([cr EXCEPT !.terminating = TRUE])
    /\ UNCHANGED asked

\* The last finalizer goes, and the object with it.
Finalize ==
    /\ cr # Absent /\ cr.terminating
    /\ cr' = Absent /\ lagging' = TRUE /\ moved' = (pc # "idle")
    /\ UNCHANGED <<cache, queued, call, deployed, operator, clock, bounds>>

-----------------------------------------------------------------------------

Init ==
    /\ cr = Absent /\ cache = Absent /\ lagging = FALSE /\ queued = FALSE
    /\ pc = "idle" /\ base = Absent /\ obj = Absent /\ requeue = FALSE
    /\ moved = FALSE /\ locked = FALSE
    /\ deployed = Nothing /\ operator \in Versions
    /\ clock = 0 /\ edits = 0 /\ faults = 0 /\ asked = <<>>

\* Reconcile, up to the first wait.
Decide ==
    \/ IgnoreMissing \/ ReconcilePaused \/ StartUpdating \/ StayPut
    \/ WaitToRetry \/ PatchDefinition \/ RefuseToDeploy \/ StartHelm

\* The steps a call takes once something it waited for has answered.
Continue ==
    \/ HelmSucceeds \/ HelmRefuses \/ HelmFails
    \/ PatchObject \/ PatchStatus \/ PatchRejected \/ PatchFault

UserActs ==
    \/ \E s \in Inputs, p \in BOOLEAN, a \in {NoAnnotations, NoHash} :
         Create(s, p, a)
    \/ \E s \in Inputs : Edit(s) \/ Replace(s)
    \/ \E p \in BOOLEAN : SetPaused(p)
    \/ Delete \/ DeleteForeground

Next ==
    \/ Decide \/ Continue
    \/ Sync \/ Tick \/ (\E v \in Versions : Restart(v))
    \/ UserActs \/ Finalize

Spec == Init /\ [][Next]_vars

\* The worker goroutine, the informer and time go on by themselves; nobody
\* obliges users to write, requests to fail, or the operator to restart.
Fairness ==
    /\ WF_vars(Decide)
    /\ WF_vars(Continue)
    /\ WF_vars(Sync)
    /\ WF_vars(Tick)

FairSpec == Spec /\ Fairness

-----------------------------------------------------------------------------
(* What must be true. *)

TypeOK ==
    /\ cr \in Toolkits \cup {Absent} /\ cache \in Toolkits \cup {Absent}
    /\ lagging \in BOOLEAN /\ queued \in BOOLEAN
    /\ pc \in {"idle", "deploy", "patch", "status"}
    /\ IF pc = "idle" THEN base = Absent /\ obj = Absent
                      ELSE base \in Toolkits /\ obj \in Toolkits
    /\ pc # "idle" => Present(obj.conditions) # {}
    /\ requeue \in BOOLEAN /\ moved \in BOOLEAN /\ locked \in BOOLEAN
    /\ deployed \in Deployments \cup {Nothing, Partial}
    /\ operator \in Versions
    /\ clock \in Nat /\ edits \in Nat /\ faults \in Nat
    /\ asked \in Seq(Inputs)

\* Nothing is under way: nobody will look at the object again until somebody
\* writes it or the operator restarts.
Quiescent == pc = "idle" /\ ~queued /\ ~lagging

Last(t) == IF t = Absent THEN STATUS_UNKNOWN ELSE LastStatus(t.conditions)

\* The operator never forgets an object: whatever failed, was lost, raced or
\* crashed, an object it has stopped looking at is Successful or Paused, never
\* half-way through an update and never Failed without a retry to come.
Settled ==
    Quiescent /\ cr # Absent => Last(cr) \in {STATUS_SUCCESSFUL, STATUS_PAUSED}

\* Why an object is settled when nobody looks at it any more.  What a call in
\* flight read is still in the cache unless the key was queued again, and the
\* cache is the server's object unless an event is on its way.
Fresh ==
    /\ ~lagging => cache = cr
    /\ pc # "idle" /\ ~queued => base = cache

\* No stamp lies ahead, and the conditions of the present second, other than
\* Paused, were written by the operator that is running, because no operator
\* starts in the second in which another one stops.
Dated(t) ==
    \A s \in Present(t.conditions) :
        /\ t.conditions[s].sec <= clock
        /\ s # STATUS_PAUSED /\ t.conditions[s].sec = clock
              => t.conditions[s].version = operator

Timely ==
    /\ "handover" \notin Environment
    /\ \A t \in {cr, cache, base, obj} \ {Absent} : Dated(t)
    /\ \A t \in {cr, cache, base} \ {Absent} :
         \A s \in Present(t.conditions) : t.conditions[s].frac = 0

\* The patches of the call in flight change nothing.
Ineffective ==
    /\ obj.setup = base.setup /\ obj.ann = base.ann
    /\ Stored(obj.conditions) = base.conditions

\* A call that will not requeue has read a settled object or changes it, and
\* one that changed the spec or the annotation has an event to show for it.
Effective ==
    /\ pc = "deploy" => /\ obj.conditions = base.conditions
                        /\ LastStatus(base.conditions) = STATUS_UPDATING
    /\ pc \in {"patch", "status"} /\ ~requeue /\ Ineffective =>
         LastStatus(base.conditions) \in {STATUS_SUCCESSFUL, STATUS_PAUSED}
    /\ pc = "status" /\ ~lagging /\ ~queued =>
         obj.setup = base.setup /\ obj.ann = base.ann

\* The inductive invariant behind Settled.
Inv == Fresh /\ Timely /\ Effective /\ Settled

\* A pause wins over a Helm run that was under way when it was asked for: the
\* late Successful or Failed does not stay the last word.
PauseSettles ==
    Quiescent /\ cr # Absent /\ cr.paused => Last(cr) = STATUS_PAUSED

\* The phase and version users are shown (UpdateStatus) agree with the stored
\* conditions the next Reconcile decides by.
PhaseSettles ==
    Quiescent /\ cr # Absent =>
        cr.phase = Last(cr) /\ cr.version = cr.conditions[Last(cr)].version

\* Helm is never given a setup whose domain or identifier is still open, even
\* when the object is edited while the operator fills it in.
DeployedIsDeployable ==
    deployed \in Deployments => Deployable(deployed.setup)

\* The operator has stopped looking at an object it reports as deployed.
Reported ==
    Quiescent /\ cr # Absent /\ ~cr.paused /\ Last(cr) = STATUS_SUCCESSFUL

\* After an upgrade no object is left on the chart of an earlier operator, nor
\* half-way between charts, nor reported with a version it does not have.
VersionInSync ==
    Reported =>
        /\ cr.conditions[STATUS_SUCCESSFUL].version = operator
        /\ deployed \in Deployments
        /\ deployed.version = operator

\* What is reported as deployed is what the object asks for: no edit is lost.
InSync ==
    Reported => deployed = [setup |-> cr.setup, version |-> operator]

\* An object whose last word is Paused asks to be paused.
PausedMeansPaused ==
    Quiescent /\ cr # Absent /\ Last(cr) = STATUS_PAUSED => cr.paused

\* Once an update is announced, the operator comes to a verdict.
AttemptResolves == Last(cr) = STATUS_UPDATING ~> Last(cr) # STATUS_UPDATING

\* A failure at second t is not the last word on an object once the threshold
\* has passed: it is retried though nobody touches it.
FailedAt(t) ==
    /\ Last(cr) = STATUS_FAILED /\ ~cr.paused
    /\ cr.conditions[STATUS_FAILED].sec = t

FailedIsRetried ==
    \A t \in 0..MaxClock :
        t + StaleThreshold < MaxClock => FailedAt(t) ~> ~FailedAt(t)

\* What users see of the object.
Status == IF cr = Absent THEN "Absent" ELSE LastStatus(cr.conditions)

Promise == INSTANCE Lifecycle WITH
    Complete <- Deployments,
    status <- Status,
    installed <- deployed

\* The operator keeps the promise of Lifecycle: it follows the state machine of
\* its comment, touches the installation only while it says Updating, and says
\* Successful only over a complete one.
KeepsPromise == Promise!Spec

\* ... and an update that Lifecycle announces comes to a verdict there.
VerdictsCome == Promise!Fairness

=============================================================================
