# st4sd-olm in TLA+

st4sd-olm is a Kubernetes operator. It watches `SimulationToolkit` objects and
keeps three Helm releases of ST4SD Cloud installed in the namespace of each. This
directory holds a model of it: what the code does when users, the API server, the
informer, Helm and crashes get in its way, what must hold all the same, which of
it TLC checks on small instances and which of it is proved with TLAPS.

Line numbers refer to `controllers/simulationtoolkit_controller.go` ("controller"),
`deploy/core.go` ("core") and `api/v1alpha1/simulationtoolkit_types.go` ("types").

## The system

| Part | State | Operations | Modelled in |
|---|---|---|---|
| Reconciler (controller 130-396) | none of its own between calls: the object's conditions, its `last-configuration` annotation and what Helm installed | `Reconcile`, `UpdateStatus` | `Reconciler`, `Lifecycle` |
| Resolution of the setup (controller 283-325, core 67-87) | `spec.setup` | fill in `routeDomain` from the ingress, `datastoreIdentifier` from the domain | `Setup` |
| Status and API types (types) | conditions, phase, version, hash of the setup | stamping, storing, picking the last condition | `Conditions`, `Setup` |
| Helm deployment (core 128-214, 287-554) | the releases' revisions, the applied objects, the CRDs, the image imports | one call for the three releases, with a retry loop for each | `HelmReleases`, `HelmDeploy`, `HelmRun` |
| Helm values (core 216-285, 556-689) | the values stored in the releases | make, merge, complete the values | `HelmValues`; reduced, in `HelmDeploy` |
| Manager process (main.go) | work queue, informer cache | start, die, be upgraded, take turns over several objects | `Operator`; actions of `Reconciler` and `HelmDeploy` |
| Generated code, OLM bundles, CRD and manifests, build scripts | files | none at run time | not modelled |

How they interact. The informer copies the objects from the API server into a
cache and puts their keys in a work queue. A worker calls `Reconcile`, which reads
the object *from the cache*, decides by its last condition, may run Helm for
minutes, and then writes the object twice: a merge patch of spec and metadata, and
one of the status. The operator's own writes come back as events. Nothing but the
object and the releases outlives a restart.

What makes it hard:

* a call decides by a copy that may be older than the object, and older than the
  operator's own last patch;
* users write the object at any point of a call, and delete and create it again;
* the annotation that says "this setup is deployed" is written by the first patch,
  the condition that says the same by the second; either may fail alone;
* the state machine's state is the condition with the latest time stamp, and the
  stamps are stored in whole seconds;
* whether an object is looked at again depends on a flag of each branch and on the
  events of the patches: an object with neither is forgotten;
* a Helm run is three runs that may each be cut short, and the next one starts from
  the revisions, objects and values that were left behind;
* the values of a release are those of a setup merged into those of its last run, and
  three lists kept by hand say which release installs which component;
* nothing keeps a second object out of a namespace, where it shares the releases.

What each part has to get right is listed with its runs below.

## Modules

| Module | What it is |
|---|---|
| `Setup` | the setup block and its resolution, as functions of it |
| `Conditions` | the conditions, stamps, the order of the list, the last condition |
| `Reconciler` | one object, one worker: the calls of `Reconcile` and everything around them |
| `Lifecycle` | the abstract specification of `Reconciler`: the state machine in the comment at controller 208-218, next to what is installed |
| `HelmReleases` | the three releases and their order |
| `HelmDeploy` | the calls of `HelmDeploySimulationToolkit`, one after the other, over the releases of one namespace |
| `HelmRun` | the abstract specification of `HelmDeploy`, which is what `Reconciler` takes a Helm run to be |
| `HelmValues` | the values of the releases, key by key, from call to call |
| `Operator` | two objects, one worker, one set of releases: two copies of `Reconciler` |
| `MCReconciler`, `MCHelmDeploy`, `MCHelmValues`, `MCOperator` | the instances TLC checks |
| `ConditionsProofs`, `ReconcilerProofs`, `StatusProofs` | lemmas and theorems about `Conditions` and `Reconciler` |
| `OperatorProofs` | theorems about `Operator`: two instances of `StatusProofs`, put together |
| `HelmReleasesProofs`, `HelmDeployProofs`, `HelmContractProofs`, `HelmValuesProofs` | lemmas and theorems about the Helm modules |

`Reconciler` extends `Setup` and `Conditions`. `HelmDeploy` and `HelmValues` extend
`Setup` and `HelmReleases`. `Operator` has two instances of `Reconciler`.
`Reconciler` and `HelmDeploy` meet in `HelmRun`: the actions `HelmSucceeds`,
`HelmRefuses`, `HelmFails` and `Restart` of `Reconciler` leave what `HelmRun` says a
run may leave, and `HelmDeploy` is checked to implement `HelmRun`.

### Reconciler

A call is cut where it waits for something outside:

    idle -> (Get, decide) -> [deploy: Helm] -> patch: r.Patch -> status: r.Status().Patch, Get -> idle

Each branch of `Reconcile` is one action, up to its first wait: `IgnoreMissing`,
`ReconcilePaused`, `StartUpdating`, `StayPut`, `WaitToRetry`, `PatchDefinition`,
`RefuseToDeploy`, `StartHelm`. Then come `HelmSucceeds`, `HelmRefuses`, `HelmFails`,
`PatchObject`, `PatchStatus`, `PatchRejected`, `PatchFault`. Around them are the
informer (`Sync`), time (`Tick`), the process (`Restart`) and the users (`Create`,
`Edit`, `Replace`, `SetPaused`, `Delete`, `DeleteForeground`, `Finalize`).

What is abstracted:

* `resourceVersion` is only compared, so the model keeps the outcome of the
  comparisons: `lagging` (the cache is not at the server's version), `moved` (the
  object was written since the call last read it) and `locked` (the status patch
  carries a version). The first patch never carries one that matters: base and
  object have the same. It brings the new version into the object, and the second
  patch carries it if it differs from the one that was read. This is why a write
  between the two patches makes the second one fail, and only then.
* The informer delivers the newest state, skipping the ones between. Calls between
  deliveries see the cache as it was, so every age of the cache is possible.
* The rate limiter's delays are not modelled: a key that waits is `queued`.
* `LastTransitionTime` and `LastUpdateTime` are always set together and are one
  stamp. In memory it lies inside a second, stored it is the second alone.
* Messages, reasons and logs are left out. Times are seconds; several steps may take
  place in one.
* Helm's outcome is a success, a refusal (the domain has one field), or a failure
  that left nothing, part or all of what was asked for.

### HelmDeploy

A call is cut at every request that can fail or be overtaken: the list of the releases
(`ListReleases`), the record of an attempt (`RunBegins`), its patches (`RunEnds`,
`RunBreaks`), the deletion of a Route (`DeleteRoute`), each CRD (`UpdateCRD`) and each
image (`TriggerImportImage`), of which the first that fails ends the call (`ExtraFails`)
over those already done. `Retry` is the end of the body of the loop at core 343. The
values of a release are reduced to the setup they were made of, the MongoDB secret (the
one key of a setup that is not always among them, core 611) and a value no setup sets.
Helm and OpenShift are external and modelled as the code uses them: a revision is recorded
as pending before anything is applied; a pending revision is refused as an operation in
progress; two revisions are kept, the deployed one among them; all patches of an attempt
are tried and the problems reported on one line; the host of a Route cannot be patched.
Helm's patches are taken to depend on the live object only. The pattern at core 64 is
greedy, so several problems are one match, from the name of the first object to the kind
of the last: `RouteFound` says that the match is of a Route, `Named` that what it calls
the object is the name of that Route.

### HelmValues

Values are functions from keys to values. `ConfigurationToHelmValues` builds them in the
order of the code, so that a later assignment wins: settings, the secret that is not
always there, what only the namespaced releases get, the public catalog, the switches that
are on, the switches that are off, each list of them as the code has it. `MergeMaps` needs
no recursion, because no value of a setup is a map.
`EnsureProperDefaultOrchestratorArguments` works on lists of collections of arguments,
with values and collections that are not of the type it expects (`Malformed`). Keys that
are always set together to the same kind of value are one key (the three PVCs, the six
settings of the pull secrets).

`Upgraded` takes any revision that is kept for the old values, as Helm promises no order
of its list. Failures, retries and patches are the subject of `HelmDeploy`; here an
attempt ends in a revision with the new values, next to one of the old ones or of the
failed attempts, and the call stops after any release. Users merge values of their own
into a release or uninstall it, between the calls.

### Operator

Each object is a `Reconciler` with variables of its own; the installation, the operator's
version, time and the bounds are shared. The worker takes a key only when it has none
(controller 76 does not ask for more than one). A restart ends both calls and reads both
objects anew. `runs` counts the Helm runs.

## What is checked

The runs of `Reconciler` take a subset of the switches in `Behaviours` (lag, tie,
edit, revisit, replace, pause, delete, foreground, recreate, helmfail, ingressfail,
patchfault, lostreply, statusfault, crash, statuscrash, upgrade, handover), explained
where they are defined. Where a run leaves a cause out because the code does lose to it, the
row says so, and the cause is found under "Disagreements".

| Run | Properties | What it shows |
|---|---|---|
| `settles` | `TypeOK`, `Settled`, `PauseSettles`, `PhaseSettles` | With every switch on but handover: when the operator has stopped looking at an object, it is Successful or Paused, never half-way and never Failed without a retry to come; a pause won over the Helm run it raced with; phase and version are those of the condition the next call will decide by. |
| `in_sync` | `InSync` | What is reported Successful is installed with the present setup and version, through edits, deletions, failing Helm runs and object patches, crashes and upgrades. Left out, with what each loses below: a status patch that fails or is overtaken (a reply that is lost, an object that is paused or marked for deletion between the patches), a setup that returns to an earlier one, a replace, a re-creation during a call, two conditions in one second, a lagging cache. |
| `retry` | `DeployedIsDeployable`, `AttemptResolves`, `FailedIsRetried` | Setups that are filled in or refused, with the ingress known or not, edited meanwhile: Helm installs only settled ones. An announced update gets a verdict; a failure is retried after the threshold though nobody touches the object. |
| `promise` | `VersionInSync`, `KeepsPromise`, `VerdictsCome` | The reconciler implements `Lifecycle`: it follows the state machine, installs only while it says Updating and says Successful only over a complete installation (`KeepsPromise`); and with the fairness below it implements the fairness of `Lifecycle`, so that it does not say Updating for ever (`VerdictsCome`). After an upgrade nothing is reported on an earlier version or half-way: edits may be lost here, the version may not (`VersionInSync`). Left out: a lagging cache and the creation of an object again, which `VersionIsTrue` covers for `VersionInSync`. |
| `helm_contract` | `TypeOK`, `CRDsFirst`, `ClusterScopedIsDefault`, `KeepsContract`, `CallEnds` | Calls implement `HelmRun` under failures of every request, crashes anywhere, upgrades, and users at work on the releases. No workload is ahead of the CRDs. The cluster-scoped release goes back to the chart's defaults. The retry loop ends, even over a release a crash left pending. |
| `helm_unaided` | `ErrorHasCause`, `NamedSecretIsUsed` | Without crashes, a call nothing disturbs succeeds, whatever the earlier ones left behind and though the Route has to move. A secret the setup names replaces the one of an earlier setup in all three releases. |
| `values` | `AsFromScratch`, `OneOwner`, `CatalogIsReadOnly`, `WorkflowsRegister`, `ArgumentsKept` | Three calls with a plain setup, one with secrets and a public catalog, with two charts, that end or stop anywhere, and a user in between. A call that ends leaves what an installation from scratch would have, plus what users added and the secret of an earlier setup; no component has two owners; a catalog runs nothing, and comes back complete; workflows are registered exactly once; no argument of a user is lost. |
| `shared` | `LatestWins`, `RunsHaveReasons`, `BothComeToRest` | Two objects, with the same setup or two. When both say Successful, what is installed is what the later one asks for, by the operator that runs. They do not deploy over each other in turns: each Helm run has an edit, a failure or a restart for a reason. With fairness, both come to rest, or have failed too late in the run for their retry, over an installation that is that of one of them by the operator that runs: the retries of one do not starve the other, and what one breaks over the other's rest it mends by its own retry. With a queue that is only weakly fair to each key, TLC finds `BothComeToRest` violated. Left out: later edits, which lose to what `in_sync` leaves out, and a lagging cache. The theorems of `OperatorProofs` cover what the run has no room for: a second fault, pauses, deletions, lost replies, crashes between the patches. |

### Disagreements

Four runs end in a violation, each a disagreement between the code and what a comment
says of it:

| Run | What happens |
|---|---|
| `v_unpause` | The switch has no case for a last condition of Paused: unpausing does nothing, for ever. |
| `v_half_written` | Edit, first patch stored, second patch refused: the hash says deployed, the condition says Successful, nothing was deployed. The same is lost when a user writes anything between the two patches. |
| `v_last_retry` | The tenth retry fails on a Route: its deletion sets `err` to nil and the call succeeds. |
| `v_handover` | A new version takes over in the second in which the object Failed. The Updating it stores has the same stamp and comes later in the list, so Failed remains the last condition; the next call announces the update once more, changes nothing by it, causes no event, and the object stays Failed, not queued, for ever (controller 180). |

Others need no run of their own. Each appears in the model when what is named
here is given to the run (a switch to its `Environment`):

| Run | Add | What happens |
|---|---|---|
| `in_sync` | revisit | A is announced, B is read and deployed, A comes back during the Helm run: the hash has not changed, B stays (controller 222). |
| `in_sync` | replace | Missing annotations are taken to mean that the present setup is deployed (controller 187). |
| `in_sync` | recreate | The status goes to whatever has the name now (controller 117). |
| `in_sync` | tie | Successful and Updating in one second: the first in the list wins, and the edit is taken for deployed (controller 180). |
| `in_sync` | lag | A call that still reads Updating runs Helm again for an object that is Successful by now, and is cut short by a restart: the object goes on saying Successful (controller 148). |
| `in_sync` | lostreply, statuscrash, foreground, or pause with `MaxEdits` 4 | As `v_half_written`: the first patch counts, the second one is not made or is refused over the other write (controller 117). |
| `settles`, `promise`, `shared` | handover | As `v_handover`, over an object that was Successful: it shows Updating for ever (`PhaseSettles`) and stays on the older version (`VersionInSync`, `LatestWins`). Without upgrade, nothing is lost by a quick restart. |
| `promise` | lag | A call that reads the object as it was before the last patch runs Helm while the object says Failed (controller 125). |
| `promise` | recreate, with `MaxEdits` 3 | A call that has read an object writes its status to the one that was created under the same name meanwhile: Unknown becomes Successful (controller 117). |
| `shared` | edit or replace, with `MaxEdits` 3 | A second setup whose hash is recorded and whose status patch is refused is lost as in `v_half_written`; what is there is then of neither object as it is (controller 222). |
| `helm_unaided` | crash | A restart during an attempt leaves a pending revision, and every later call fails (core 344). |
| `helm_unaided` | `Objects <- TwoRoutes` | Nothing fails, but two Routes have to move: the greedy pattern (core 64) reads their two problems as one, the object it names is none, neither Route is deleted, and this call and every later one fail (`ErrorHasCause`). |

And five more, seen while modelling: the expansion of an open domain is written with a
patch that carries no version, over a domain the user may have set meanwhile (controller
311); the early return for objects marked for deletion
drops its result and is no return (controller 165); what had to be filled in is deployed
twice, because the annotation holds the hash from before (controller 331); a secret, once
named, cannot be unset (core 611 and 333); the values users gave a release are merged
from the older of the two kept revisions (core 305). And the comment at controller 211
says a failure is retried when it is *less* than five minutes old; the code does it when
it is older.

### Bounds

* `StaleThreshold` is 0 or 1 second for 300: the code compares it with an age, and
  the clock can be below, at and above it. With 0, `settles` has failures retried in
  the next second.
* `MaxClock` is what the longest case needs: in `in_sync`, where a call never runs in
  the second of a stored condition, six seconds hold a deployment, a failure, its
  retry and an update. In `retry` it leaves room for the threshold to pass.
  `FailedIsRetried` speaks of failures early enough for that.
* `MaxEdits` counts the creation; two more writes give every pair of user actions at
  every point of a call, of which the violations need at most two.
* A restart takes a second at least, unless handover is on: `main` releases its lease when
  it is told to stop (main.go 86-96), and a replica that waits for the lease may go on in
  the same second. `retry` has it, with one version of the operator; with two it loses, as
  `v_handover` shows, and the theorems that need it off say so.
* `MaxFaults` counts failures, restarts and lost replies: up to two of them, in every
  order.
* Setups: two that differ, and in `retry` a template, an empty domain and a domain of
  one field, the first and the last without an identifier. Versions: two where an
  upgrade is part of the question.
* `MaxRetries` is 10, as in the code. The passing runs of `HelmDeploy` have at most two
  failures, fewer than the retries; `v_last_retry` has ten. `helm_contract` reaches the
  last attempt all the same: a crash during an attempt leaves a pending revision, Helm
  refuses every attempt over it, and the call ends when none is left. There `KeepsContract`
  says that it ends with an error (the mutant `RetryForgiving` forgets it).
* `values`: three calls visit the three setups in every order, and one user's act comes
  anywhere between them; a list can be rewritten three times. All the facts are also
  proved.
* `shared`: two writes (the two creations), two versions, and one fault (a failure of Helm
  or of a status patch, a restart or an upgrade) at any point of any of the calls for the
  two objects, with two seconds for the retry. `FailedLate` excuses failures whose retry
  would be due after the last second only.
* Two CRDs and two images: the first, the last, and a failure between them.
* Two charts, two domains, two secrets and a refused setup (the last two in
  `helm_unaided`), three calls or interventions, one Route: enough for a call over the
  remains of two others.

`Symmetric` permutes the versions, which are only compared for equality, and the
payloads, where the set of inputs is closed under the permutation; `SymmetricVersions`
permutes the versions alone. No run with liveness or refinement properties uses it.

`CHECK_DEADLOCK FALSE` everywhere: an operator whose objects are settled, whose users
are content and whose clock is at its bound has nothing to do.

### Fairness

`Decide` (the worker takes keys from the queue), `Continue` (requests and Helm runs
are answered, well or badly), `Sync` (events arrive) and `Tick` are weakly fair:
goroutines of the manager, request timeouts and time provide for it. Users, faults
and restarts are never obliged to happen. In `Operator`, `DecideOne` and `DecideTwo` are
strongly fair: the worker is busy with the other key again and again, but the work queue is
first in, first out, so that a key that waits is taken however often the other one is put
back. `HelmDeploy` is weakly fair in the steps of
the call alone. Helm may fail every time: no property says it succeeds eventually.

## What is proved

For all values of the constants that satisfy the named assumptions (`StringsAssumption`,
`HashAssumption`, `NoConditionAssumption`, `ReconcilerAssumption`), for any bounds and
any subset of the switches, but for handover in all that rests on `Timely`, in
`ReconcilerProofs`:

* `TypeCorrect`: `Spec => []TypeOK`. `TypeOK` is inductive. Its one clause that is not
  about a type, that a call in flight holds at least one condition, is what gives
  `UpdateStatus` a last condition to show.
* `OnlyDeployable`: `Spec => []DeployedIsDeployable`. The strengthening `Handed` adds
  that nothing is open in a setup Helm is working on. The heart is the lemma
  `ResolvedIsFilled`: a setup that the resolution leaves as it is and does not complain
  about has nothing left to fill in.
* `NothingForgotten`: `Spec => []Settled`. The strengthening is `Inv`: `Fresh` (an idle,
  unqueued call has read what is still in the cache, and the cache is the object unless an
  event is under way), `Timely` (stored stamps are whole seconds, none lies ahead, and
  those of the present second were made by the running operator, because a restart takes
  longer than that; this is where handover must be off), and `Effective` (a call that will
  not requeue either changes the object, and so causes an event, or has read a settled
  one). `Timely` is needed where a stamp could change nothing. A success
  would do so over an identical Successful condition of this very second, but then that
  one, not Updating, would have been the last condition. An announcement would do so over
  an Updating of this second, but then the condition that beat it is of this second and
  of this version, and there is nothing to announce. `Settled` then follows at the moment a
  call returns.

`ConditionsProofs` has the lemmas on stamps and on `LastStatus`: it is a present status
that no other one beats, and putting a later stamp makes its status the last.

In `StatusProofs`, over the same invariant:

* `PauseWins`: `Spec => []PauseSettles`, and `PhaseIsTrue`: `Spec => []PhaseSettles`. The
  strengthening is `Shown`: a call that will not requeue and whose patches change nothing
  reports the very status that is stored, and has read an object that is Paused if it asks
  to be. The stamps' order decides the one hard case, a pause that is stamped twice in one
  second: it was the last word already.
* `VersionIsTrue`: `Spec => []VersionInSync` when the cache does not lag, with every other
  switch but handover on or off. `Truthful` says that a success the stored conditions tell
  of, or those a call is about to store, is the one Helm had; the lemma `NoNewSuccess`,
  that no other stamp makes a success the last word, carries it through every branch.
  `Current` says that a call which leaves a success alone has compared its version with
  its own.

* `PromiseKept`: `Spec => KeepsPromise` when the cache does not lag and no object is
  created again under the name of another; both are needed, see the table above.
  `Unrepeated` says that nobody but the call in flight writes the conditions, and
  `Announced` that what the call is about to store is a transition from what it has read;
  `Truthful` gives the complete installation under a success. Each action is then a named
  step of `Lifecycle` or none.
* `NoEditIsLost`: `Spec => []InSync`, under two assumptions. `Calm` lists what the
  surroundings may do: edit, delete, fail Helm, the ingress or the first patch, crash but
  between the patches, upgrade. It is as weak as it can be: TLC finds an edit lost with
  each of the other ten switches alone (`v_half_written` and the table above); the
  eleventh, handover, shows only together with tie.
  `FillsAlike` says that what is filled in is settled and never overwrites another setup
  of the users; setups with nothing to fill in satisfy it (`NothingToFill`). Without it
  the patch of a domain that was read goes over the one an edit has just set. The
  argument follows the hash: an object's annotation only ever holds hashes of setups it
  was asked for up to the present one (`Asking`), a call under way knows which
  (`Underway`), the hash of the present setup is there only if an update over it was
  announced and is stored or about to be (`HashTells`), and a success is then one over
  that very setup (`Deserved`, `Compared`).

In `HelmDeployProofs` (from `HelmDeployAssumption`), for all charts, objects, Routes,
numbers of CRDs, images and retries, and whatever fails, crashes or interferes:

* `CallsAreTyped`: `Spec => []TypeOK`; the facts about Helm's record (`Pruned`,
  `Concluded`) are lemmas.
* `WorkloadsFollow`: `Spec => []CRDsFirst`. `Progress` says how far the CRDs are: never
  ahead of the operator's chart, level with it once the call is past the cluster-scoped
  release, and so far as `done` counts on the way. `Backed` extends `CRDsFirst` from the
  objects to the revisions, because a user's upgrade applies a recorded chart again.
* `DefaultsRestored` and `SecretIsUsed`: `Spec => []ClusterScopedIsDefault` and
  `Spec => []NamedSecretIsUsed`. Unless somebody disturbed the call, `Kept` holds: the
  values of an attempt fit the setup; an attempt that may be the last was recorded with
  them, also when its error was overwritten by the deletion of a Route; and so were the
  releases the call is past. A merge made twice is harmless because the values that fit
  win each time.
* `ErrorsHaveCauses`: `Spec => []ErrorHasCause` for charts with one Route at most
  (`OneRoute`) and an operator that does not crash: without either assumption it is false,
  see the hazards of the Route and of the pending release. `Sound` says of Helm's records
  what a run that is not cut short leaves: nothing is pending but the attempt under way,
  and nothing is live of a release Helm does not know. `Smooth` says how far a call is
  that nothing disturbed: only the one Route that has to move (`Blocked`) can fail an
  attempt, only the first of an upgrade, and all retries are left then.

In `HelmContractProofs`, over these:

* `ContractKept`: `Spec /\ NoLateRoute => KeepsContract`, and `SuccessCompletes`:
  `Spec /\ NoLateRoute => []SuccessIsComplete`. `NoLateRoute` says that no step deletes a
  Route after the last attempt of a call that nobody disturbs: the one step, the bug of
  `v_last_retry`, that breaks the contract. Everything else may happen. `Faithful` and
  `Grounded` say, whoever is at work, what Helm's record has to do with what is live;
  `Whole` says of an undisturbed call that the releases, CRDs and images it is past are
  those it was asked for. What is installed (a `CHOOSE` over the releases) is first
  brought into a form that says how each step changes it (`InstalledByCases`).
* `FewFaultsSuffice`: with fewer failures than retries, or no Route at all, `NoLateRoute`
  holds, so that `ContractHolds` needs no condition on behaviours. `Counted` says that each
  attempt that failed had a failure of its own, but one: that one failed on all the objects
  that cannot be patched, and on nothing else, and is the one a Route is deleted after.

In `HelmValuesProofs` (from `HelmValuesAssumption`, and for the last from
`MalformedAssumption`: what is of the wrong type is not a collection of arguments, nor a
list of them), for all setups, charts and values of users:

* `NothingIsLeft`, `SwitchesHaveOneOwner`, `CatalogsAreReadOnly`, `WorkflowsAreRegistered`:
  `AsFromScratch`, `OneOwner`, `CatalogIsReadOnly` and `WorkflowsRegister`. `Inv` says of
  each release the call is past that its newest values are what this call makes of *some*
  old ones (`Made`), and of all revisions that their keys come from a setup or a user
  (`Known`). The rest is a fact about one upgrade: whatever it starts from, the setup wins.
* `ArgumentsAreKept`: `Spec => ArgumentsKept`. The list is rewritten, not added to, so that
  the new one has to hold what the old one held, and be readable again: malformed entries are
  dropped, the last collection that has an argument wins, and reading what was written gives
  the same arguments (`EnsuredKeepsArguments`). `Provenance` says that the arguments in a
  revision are those of some user, which is why they are well-formed.

In `OperatorProofs` (from `OperatorAssumption`), for two objects. What one object does to
itself is proved in `StatusProofs` for every environment; `OperatorProofs` has an instance
of `StatusProofs` for each, shows that each step of the whole is a step of one object
while the other one rests, a second for both or a restart of both (`StepsAre`), and
combines them (`Sound`: `Inv` of either object survives the other one's steps, because it
says nothing of what Helm installed, and a restart during the other one's Helm run):

* `LatestIsThere`: `Spec => []LatestWins`, when the cache does not lag, restarts take a
  second and users leave the setups they have written alone (`WrittenOnce`); they may
  pause and delete, and anything may fail or crash. `Story` is about the successes the
  objects claim and those on their way to be stored: one on its way tells of what is there
  and is no older than what the other object claims, because an object Helm is at work on
  claims none. With a lagging cache, an edit or a replace TLC finds it violated; with a
  creation it does not, but the proof (`Unrepeated`) needs that an object is created once.
* `RunsAreCounted`: `Spec => []RunsHaveReasons`, if moreover the setups have nothing to fill
  in: what had to be filled in is deployed twice without a reason. `Counted` is an account:
  the runs begun, plus one for each object that may begin one though nobody writes and
  nothing fails (`Due`), never exceed the writes plus twice the failures. A call that begins
  a run settles what was due; only a write or a failure makes something due again. With a
  lagging cache TLC finds it violated; with edits, replaces or re-creations it does not.

Only model-checked: liveness (`AttemptResolves`, `FailedIsRetried`, `CallEnds`,
`VerdictsCome`, `BothComeToRest`), which is out of the prover's reach. Every other
property of a run that passes is stated by a theorem.

## Not modelled

The election of a leader, apart from the process ending with its lease, at any point (a
`Restart`); two namespaces, which share the cluster-scoped objects; the dry run, which the
only call switches off (controller 335); the loading of the chart and the parsing of
manifests; probes, metrics and flags; generated code; the bundles, the CRD and the build
scripts, which run before there is an operator.

## Plan

In order of importance; the first nine are done.

1. `Setup`, `Conditions`: the data of the reconciler.
2. `Reconciler`: one object, all branches, the surroundings.
3. `Lifecycle`: its abstract specification, with the refinement.
4. `ReconcilerProofs`: types, deployable setups, nothing forgotten.
5. `HelmDeploy`, `HelmRun`: the calls, the retry loop, the contract with the reconciler.
6. `HelmValues`: the keys of the values, the switches of each release, the orchestrator
   arguments; `HelmValuesProofs`.
7. `Operator`: two objects over the releases of a namespace, one worker.
8. `StatusProofs`, `HelmDeployProofs`: what an object at rest shows; types, CRDs, secrets
   and defaults of the releases.
9. Proofs: `NoEditIsLost`, `PromiseKept`; `HelmContractProofs`; `OperatorProofs`.
10. `LatestIsThere` and `RunsAreCounted` for users who write again, as far as they hold.
11. The upgrade chain written by the bundle and catalog scripts, if it turns out to have
    behaviour worth a model.
