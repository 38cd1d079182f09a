----------------------------- MODULE HelmDeploy -----------------------------
(***************************************************************************)
(* HelmDeploySimulationToolkit: one call brings the three releases of a    *)
(* namespace to a setup, in order, and stops at the first error.  A call   *)
(* is cut at every request that can fail or be overtaken: the list of the  *)
(* releases, the record Helm makes of an attempt, the patches of the       *)
(* attempt, the deletion of a Route, the CRDs and the image imports.       *)
(*                                                                         *)
(* The values of a release are reduced to what a run can leave behind in   *)
(* them: the setup they were made of, the MongoDB secret, which is only    *)
(* among the values of a setup that names one, and the values (custom)     *)
(* that no setup ever sets.                                                *)
(*                                                                         *)
(* Helm itself is external: its record of the revisions (storage), the     *)
(* objects it has applied (live), and client.Run, as HelmDeployPart calls  *)
(* it.  OpenShift refuses to patch the host of a Route.                    *)
(***************************************************************************)
EXTENDS Setup, HelmReleases, Integers, Sequences

CONSTANTS
    Charts,       \* helm charts, by version
    Secrets,      \* names of secrets
    Mongo,        \* Mongo[p]: payload p's secretDSMongoUserPass, or Empty
    Customs,      \* values of the settings no setup has
    Default,      \* ... the one of the chart
    Objects,      \* Objects[r]: the objects of release r, in manifest order
    Routes,       \* the Routes among them
    CRDs,         \* how many CRDs the chart comes with
    Images,       \* how many tags its ImageStreams have
    NoObject,     \* the object is not on the cluster
    Nothing,      \* nothing is installed
    Partial,      \* something, but not all there is to install
    Inputs,       \* the setups calls are made with
    MaxRetries,   \* max_retries
    Environment,  \* what may go wrong or interfere, see Interferences
    MaxCalls,     \* bound on calls and on what users do with the releases
    MaxFaults     \* bound on failures and restarts

MaxHistory == 2

Interferences == {
    "list",       \* the releases cannot be listed
    "helm",       \* an attempt stops half-way
    "patch",      \* an object cannot be patched for the moment
    "route",      \* the deletion of a Route fails
    "crd",        \* the CRDs cannot be updated
    "import",     \* an image cannot be imported
    "crash",      \* the operator dies, and starts again
    "customise",  \* a user upgrades a release with a value of their own
    "uninstall"}  \* an administrator uninstalls a release

Configs == [setup: Setups, secret: Secrets \cup {Empty}, custom: Customs]
Contents == [config: Configs, chart: Charts]
Revisions == [status: {"pending", "deployed", "superseded", "failed"},
              content: Contents]

RangeOf(s) == {s[i] : i \in DOMAIN s}
AllObjects == UNION {RangeOf(Objects[r]) : r \in Names}

ASSUME HelmDeployAssumption ==
    /\ Charts \subseteq Nat \ {0}
    /\ Empty \notin Secrets
    /\ Mongo \in [Payloads -> Secrets \cup {Empty}]
    /\ Default \in Customs
    /\ \A r \in Names : Objects[r] \in Seq(AllObjects)
    /\ \A q, r \in Names :
         q # r => RangeOf(Objects[q]) \cap RangeOf(Objects[r]) = {}
    /\ Routes \subseteq AllObjects
    /\ NoObject \notin Contents
    /\ Nothing # Partial
    /\ Inputs \subseteq Setups
    /\ Environment \subseteq Interferences
    /\ {CRDs, Images, MaxRetries, MaxCalls, MaxFaults} \subseteq Nat

VARIABLES
    storage,      \* the revisions of each release, oldest first
    live,         \* what each object on the cluster was applied from
    crds,         \* the chart each CRD is from, 0 before the first
    imported,     \* what each image was last imported for
    pc,           \* where the call stands
    configuration,\* the setup of the call
    chart,        \* the chart of the operator that is running
    part,         \* the release the call is at
    done,         \* how many of its CRDs or images the call has seen to
    inNamespace,  \* the revisions the call has listed
    values,       \* the values of the attempt
    retries,      \* max_retries, counted down
    problems,     \* the objects the attempt could not patch
    err,          \* err # nil
    outcome,      \* how the last call ended
    troubled,     \* something failed since it began
    disturbed,    \* somebody else worked on a release since it began
    calls,
    faults

releases == <<storage, live, crds, imported>>
asked == <<configuration, chart, part, done, inNamespace>>
attempt == <<values, retries, problems, err>>
result == <<outcome, troubled, disturbed>>
vars == <<releases, pc, asked, attempt, result, calls, faults>>

Release == Releases[part]
Latest(history) == history[Len(history)]
Exists(name) == storage[name] # <<>>
NotImported == [i \in 1..Images |-> NoObject]

-----------------------------------------------------------------------------
(* Values. *)

\* ConfigurationToHelmValues, with the chart's defaults for the rest.
ConfigurationToHelmValues(s) ==
    [setup |-> s, secret |-> Mongo[s.payload], custom |-> Default]

\* Mutant: the values of the release win.
MergeMapsReleaseWins(old, s) ==
    [setup |-> s,
     secret |-> IF old.secret # Empty THEN old.secret ELSE Mongo[s.payload],
     custom |-> old.custom]

\* MergeMaps: the values of a release overridden with those of a setup.
MergeMaps(old, s) ==
    [setup |-> s,
     secret |-> IF Mongo[s.payload] # Empty THEN Mongo[s.payload]
                                            ELSE old.secret,
     custom |-> old.custom]

Content == [config |-> values, chart |-> chart]

\* PATTERN_FAILED_TO_PATCH over the joined messages of an attempt: the first
\* group is greedy, so several problems are one match, from the first object's
\* name to the last one's kind.  A Route is found when the last problem is one.
RouteFound ==
    \E i \in DOMAIN Objects[Release] :
        /\ Objects[Release][i] \in problems \cap Routes
        /\ \A j \in DOMAIN Objects[Release] :
             Objects[Release][j] \in problems => j <= i

\* ... and its name is the name of a Route when there is no other problem.
Named(route) == RouteFound /\ problems = {route}

-----------------------------------------------------------------------------
(* The call. *)

Goto(next) == pc' = next

\* Something outside fails; bounded.
Fault(kind) ==
    /\ kind \in Environment /\ faults < MaxFaults
    /\ faults' = faults + 1 /\ troubled' = TRUE
    /\ UNCHANGED disturbed

NoFault == UNCHANGED <<faults, troubled, disturbed>>

Idle ==
    /\ pc' = "idle" /\ part' = 1 /\ done' = 0
    /\ inNamespace' = [r \in Names |-> <<>>]
    /\ values' = ConfigurationToHelmValues(configuration)
    /\ retries' = 0 /\ problems' = {} /\ err' = FALSE

Return(how) ==
    /\ Idle /\ outcome' = how
    /\ UNCHANGED <<configuration, chart, calls>>

Call(s) ==
    /\ pc = "idle" /\ calls < MaxCalls
    /\ calls' = calls + 1
    /\ configuration' = s /\ outcome' = "none"
    /\ troubled' = FALSE /\ disturbed' = FALSE
    /\ values' = ConfigurationToHelmValues(s)
    /\ Goto("list")
    /\ UNCHANGED <<releases, chart, part, done, inNamespace, retries, problems,
                   err, faults>>

\* actionConfig.Releases.List: once, for the three releases.
ListReleases ==
    /\ pc = "list"
    /\ inNamespace' = storage
    /\ Goto("part")
    /\ UNCHANGED <<releases, configuration, chart, part, done, attempt, outcome,
                   calls>>
    /\ NoFault

ListFails ==
    /\ pc = "list" /\ Fault("list")
    /\ Return("error") /\ UNCHANGED releases

\* The setup has no values.
RefusePart ==
    /\ pc = "part" /\ ~Accepted(configuration)
    /\ Return("error") /\ UNCHANGED releases /\ NoFault

\* HelmDeployPart with the values v, up to max attempts.
Deploy(v, max) ==
    /\ values' = v /\ retries' = max
    /\ Goto("run")
    /\ UNCHANGED <<releases, asked, problems, err, outcome, calls>> /\ NoFault

InstallPart ==
    /\ pc = "part" /\ Accepted(configuration)
    /\ inNamespace[Release] = <<>>
    /\ Deploy(ConfigurationToHelmValues(configuration), 0)

\* Mutant: the cluster-scoped release takes over its values like the others.
UpgradePartMerged ==
    /\ pc = "part" /\ Accepted(configuration)
    /\ \E i \in DOMAIN inNamespace[Release] :
         Deploy(MergeMaps(inNamespace[Release][i].content.config, configuration),
                MaxRetries)

\* The first revision of the list is taken for the release; Helm promises no
\* order.  The cluster-scoped release does not take over its values.
UpgradePart ==
    /\ pc = "part" /\ Accepted(configuration)
    /\ \E i \in DOMAIN inNamespace[Release] :
         LET old == inNamespace[Release][i].content.config
         IN  Deploy(IF Release = RELEASE_CLUSTER_SCOPED
                    THEN ConfigurationToHelmValues(configuration)
                    ELSE MergeMaps(old, configuration), MaxRetries)

\* The releases in order; the last one ends the call.
NextPart ==
    IF part < Len(Releases)
    THEN /\ part' = part + 1 /\ done' = 0 /\ Goto("part")
         /\ UNCHANGED <<configuration, chart, inNamespace, attempt, outcome, calls>>
    ELSE Return("ok")

\* An attempt went well.
AttemptSucceeds ==
    /\ pc = "ran" /\ ~err
    /\ Goto("after")
    /\ UNCHANGED <<releases, asked, attempt, outcome, calls>> /\ NoFault

Upgrading == inNamespace[Release] # <<>>

\* Mutant: one attempt too many.
RetryOnceMore(e) ==
    \/ /\ retries >= 0 /\ Goto("run")
       /\ retries' = retries - 1 /\ err' = e
       /\ UNCHANGED <<asked, values, problems, outcome, calls>>
    \/ retries < 0 /\ e /\ Return("error")

\* Mutant: the attempts are not counted.
RetryForever(e) ==
    /\ Goto("run") /\ err' = e
    /\ UNCHANGED <<asked, values, retries, problems, outcome, calls>>

\* Mutant: the error of the last attempt is dropped.
RetryForgiving(e) ==
    /\ Goto(IF retries > 0 THEN "run" ELSE "after")
    /\ retries' = IF retries > 0 THEN retries - 1 ELSE 0
    /\ err' = e
    /\ UNCHANGED <<asked, values, problems, outcome, calls>>

\* The end of the body of the retry loop, with e for err.
Retry(e) ==
    \/ /\ retries > 0 /\ Goto("run")
       /\ retries' = retries - 1 /\ err' = e
       /\ UNCHANGED <<asked, values, problems, outcome, calls>>
    \/ /\ retries = 0 /\ e /\ Return("error")
    \/ /\ retries = 0 /\ ~e /\ Goto("after")
       /\ err' = e
       /\ UNCHANGED <<asked, values, retries, problems, outcome, calls>>

\* An installation is not retried.
InstallFails ==
    /\ pc = "ran" /\ err /\ ~Upgrading
    /\ Return("error") /\ UNCHANGED releases /\ NoFault

\* An error that names no Route is retried as it is.
RetryUpgrade ==
    /\ pc = "ran" /\ err /\ Upgrading
    /\ ~RouteFound
    /\ Retry(TRUE)
    /\ UNCHANGED releases /\ NoFault

\* Mutant: the call gives up once the Route is deleted.
DeleteRouteAndStop ==
    /\ pc = "ran" /\ err /\ Upgrading
    /\ \E route \in Routes :
         /\ Named(route) /\ live[route] # NoObject
         /\ live' = [live EXCEPT ![route] = NoObject]
    /\ Return("error")
    /\ UNCHANGED <<storage, crds, imported>> /\ NoFault

\* routeDelete, whose nil is err from here on.
DeleteRoute ==
    /\ pc = "ran" /\ err /\ Upgrading
    /\ \E route \in Routes :
         /\ Named(route) /\ live[route] # NoObject
         /\ live' = [live EXCEPT ![route] = NoObject]
    /\ Retry(FALSE)
    /\ UNCHANGED <<storage, crds, imported>> /\ NoFault

\* There is no Route with that name, or its deletion fails.
DeleteRouteFails ==
    /\ pc = "ran" /\ err /\ Upgrading
    /\ RouteFound
    /\ \/ (\A route \in Routes : Named(route) => live[route] = NoObject) /\ NoFault
       \/ Fault("route")
    /\ Return("error") /\ UNCHANGED releases

\* What a release needs besides its objects.
Extras == CASE Release = RELEASE_CLUSTER_SCOPED       -> CRDs
            [] Release = RELEASE_NAMESPACED_UNMANAGED -> 0
            [] Release = RELEASE_NAMESPACED_MANAGED   -> Images

\* One more of them is there.
Extra(name) ==
    /\ pc = "after" /\ Release = name /\ done < Extras
    /\ done' = done + 1
    /\ UNCHANGED <<storage, live, pc, configuration, chart, part, inNamespace,
                   attempt, outcome, calls>>
    /\ NoFault

\* UpdateCRD creates or replaces the CRDs of the chart, one by one.
UpdateCRD ==
    /\ Extra(RELEASE_CLUSTER_SCOPED)
    /\ crds' = [crds EXCEPT ![done'] = chart]
    /\ UNCHANGED imported

\* TriggerDeploymentConfigs imports the images of what was deployed, in the
\* order of the manifest.
TriggerImportImage ==
    /\ Extra(RELEASE_NAMESPACED_MANAGED)
    /\ imported' = [imported EXCEPT ![done'] = Content]
    /\ UNCHANGED crds

\* The release is done with once the last of them is there.
PartEnds ==
    /\ pc = "after" /\ done = Extras
    /\ NextPart
    /\ UNCHANGED releases /\ NoFault

\* The first that fails ends the call.
ExtraFails ==
    /\ pc = "after" /\ done < Extras
    /\ Fault(IF Release = RELEASE_CLUSTER_SCOPED THEN "crd" ELSE "import")
    /\ Return("error") /\ UNCHANGED releases

-----------------------------------------------------------------------------
(* client.Run. *)

\* Helm keeps MaxHistory revisions.  It makes room for another one: of two, the
\* deployed one stays, or else the later.
Pruned(history) ==
    LET deployed == {i \in DOMAIN history : history[i].status = "deployed"}
    IN  IF Len(history) < MaxHistory THEN history
        ELSE IF deployed = {} THEN <<Latest(history)>>
             ELSE <<history[CHOOSE i \in deployed : TRUE]>>

Pending(name) == Exists(name) /\ Latest(storage[name]).status = "pending"

\* A pending revision stands for an operation in progress; an upgrade needs a
\* release, and an installation a free name.
Refused ==
    IF Upgrading THEN Pending(Release) \/ ~Exists(Release)
                 ELSE Exists(Release)

\* The attempt is over; e tells whether it failed, ps what was not patched.
Ran(e, ps) ==
    /\ err' = e /\ problems' = ps /\ Goto("ran")
    /\ UNCHANGED <<asked, values, retries, outcome, calls>>

RunRefused ==
    /\ pc = "run" /\ Refused
    /\ Ran(TRUE, {}) /\ UNCHANGED releases /\ NoFault

\* The attempt is recorded first.
RunBegins ==
    /\ pc = "run" /\ ~Refused
    /\ storage' = [storage EXCEPT ![Release] =
                     Append(Pruned(@), [status |-> "pending", content |-> Content])]
    /\ Goto("apply")
    /\ UNCHANGED <<live, crds, imported, asked, attempt, outcome, calls>> /\ NoFault

\* The revisions of a release once its pending one has ended.
Concluded(history, good) ==
    [i \in DOMAIN history |->
        IF i = Len(history)
        THEN [history[i] EXCEPT !.status = IF good THEN "deployed" ELSE "failed"]
        ELSE IF good /\ history[i].status = "deployed"
             THEN [history[i] EXCEPT !.status = "superseded"]
             ELSE history[i]]

\* The objects in os are brought to the content of the attempt.
Applied(os) == [o \in AllObjects |-> IF o \in os THEN Content ELSE live[o]]

Host(content) == content.config.setup.routeDomain

Unpatchable(o) ==
    o \in Routes /\ live[o] # NoObject /\ Host(live[o]) # Host(Content)

\* All the objects are tried, and those that could not be patched reported.
RunEnds ==
    /\ pc = "apply"
    /\ \E broken \in SUBSET {o \in RangeOf(Objects[Release]) :
                               live[o] # NoObject /\ ~Unpatchable(o)} :
         LET bad == broken \cup {o \in RangeOf(Objects[Release]) : Unpatchable(o)}
         IN  /\ IF broken = {} THEN NoFault ELSE Fault("patch")
             /\ live' = Applied(RangeOf(Objects[Release]) \ bad)
             /\ storage' = [storage EXCEPT ![Release] = Concluded(@, bad = {})]
             /\ Ran(bad # {}, bad)
    /\ UNCHANGED <<crds, imported>>

\* The attempt stops half-way, on an error that names no object.
RunBreaks ==
    /\ pc = "apply" /\ Fault("helm")
    /\ \E os \in SUBSET {o \in RangeOf(Objects[Release]) : ~Unpatchable(o)} :
         live' = Applied(os)
    /\ storage' = [storage EXCEPT ![Release] = Concluded(@, FALSE)]
    /\ Ran(TRUE, {})
    /\ UNCHANGED <<crds, imported>>

-----------------------------------------------------------------------------
(* The surroundings. *)

\* An operator with a newer chart takes over while no call is under way.
Upgrade(c) ==
    /\ pc = "idle" /\ c > chart
    /\ chart' = c /\ outcome' = "none"
    /\ UNCHANGED <<releases, pc, configuration, part, done, inNamespace, attempt,
                   troubled, disturbed, calls, faults>>

\* The operator dies, half-way through an attempt perhaps, and one with the
\* chart c starts.
Crash(c) ==
    /\ Fault("crash") /\ c >= chart
    /\ chart' = c /\ outcome' = "none"
    /\ IF pc = "apply"
       THEN \E os \in SUBSET {o \in RangeOf(Objects[Release]) : ~Unpatchable(o)} :
              live' = Applied(os)
       ELSE UNCHANGED live
    /\ Idle
    /\ UNCHANGED <<storage, crds, imported, configuration, calls>>

\* Somebody uses helm on a release that no attempt is working on.
Interferes(kind, name) ==
    /\ kind \in Environment /\ calls < MaxCalls
    /\ calls' = calls + 1
    /\ Exists(name) /\ ~(pc = "apply" /\ name = Release)
    /\ outcome' = "none" /\ disturbed' = TRUE
    /\ UNCHANGED <<pc, asked, attempt, crds, troubled, faults>>

Customise(name, c) ==
    /\ Interferes("customise", name)
    /\ Latest(storage[name]).status = "deployed"
    /\ LET content == [Latest(storage[name]).content EXCEPT !.config.custom = c]
       IN  /\ content # Latest(storage[name]).content
           /\ storage' = [storage EXCEPT ![name] =
                Concluded(Append(Pruned(@), [status |-> "pending",
                                             content |-> content]), TRUE)]
           /\ live' = [o \in AllObjects |->
                         IF o \in RangeOf(Objects[name]) THEN content ELSE live[o]]
    /\ UNCHANGED imported

Uninstall(name) ==
    /\ Interferes("uninstall", name)
    /\ storage' = [storage EXCEPT ![name] = <<>>]
    /\ live' = [o \in AllObjects |->
                  IF o \in RangeOf(Objects[name]) THEN NoObject ELSE live[o]]
    /\ imported' = IF name = RELEASE_NAMESPACED_MANAGED THEN NotImported
                                                        ELSE imported

-----------------------------------------------------------------------------

Init ==
    /\ storage = [r \in Names |-> <<>>]
    /\ live = [o \in AllObjects |-> NoObject]
    /\ crds = [i \in 1..CRDs |-> 0] /\ imported = NotImported
    /\ pc = "idle" /\ part = 1 /\ done = 0 /\ inNamespace = [r \in Names |-> <<>>]
    /\ configuration \in Inputs /\ chart \in Charts
    /\ values = ConfigurationToHelmValues(configuration)
    /\ retries = 0 /\ problems = {} /\ err = FALSE
    /\ outcome = "none" /\ troubled = FALSE /\ disturbed = FALSE
    /\ calls = 0 /\ faults = 0

\* The steps of the call itself.
Step ==
    \/ ListReleases \/ ListFails
    \/ RefusePart \/ InstallPart \/ UpgradePart
    \/ RunRefused \/ RunBegins \/ RunEnds \/ RunBreaks
    \/ AttemptSucceeds \/ InstallFails \/ RetryUpgrade
    \/ DeleteRoute \/ DeleteRouteFails
    \/ UpdateCRD \/ TriggerImportImage \/ ExtraFails \/ PartEnds

Next ==
    \/ \E s \in Inputs : Call(s)
    \/ Step
    \/ \E c \in Charts : Upgrade(c) \/ Crash(c)
    \/ \E name \in Names, c \in Customs : Customise(name, c)
    \/ \E name \in Names : Uninstall(name)

Spec == Init /\ [][Next]_vars

\* A call goes on by itself; nothing obliges calls to be made.
FairSpec == Spec /\ WF_vars(Step)

-----------------------------------------------------------------------------
(* What must be true. *)

\* The cluster, and Helm's record of it.
ClusterOK ==
    /\ storage \in [Names -> Seq(Revisions)]
    /\ \A name \in Names : Len(storage[name]) <= MaxHistory
    /\ live \in [AllObjects -> Contents \cup {NoObject}]
    /\ crds \in [1..CRDs -> Charts \cup {0}]
    /\ imported \in [1..Images -> Contents \cup {NoObject}]

CallOK ==
    /\ pc \in {"idle", "list", "part", "run", "apply", "ran", "after"}
    /\ configuration \in Inputs /\ chart \in Charts
    /\ part \in 1..Len(Releases) /\ done \in 0..(CRDs + Images)
    /\ inNamespace \in [Names -> Seq(Revisions)]
    /\ values \in Configs /\ retries \in 0..MaxRetries
    /\ problems \subseteq AllObjects /\ err \in BOOLEAN
    /\ outcome \in {"none", "ok", "error"} /\ calls \in 0..MaxCalls

FaultsOK ==
    /\ troubled \in BOOLEAN /\ disturbed \in BOOLEAN
    /\ faults \in 0..MaxFaults

TypeOK == ClusterOK /\ CallOK /\ FaultsOK

Installation == [setup: Setups, chart: Charts]

Of(content) == [setup |-> content.config.setup, chart |-> content.chart]

\* Everything a call with installation i has to see to is there.
IsComplete(i) ==
    /\ \A name \in Names :
         /\ Exists(name)
         /\ Latest(storage[name]).status = "deployed"
         /\ Of(Latest(storage[name]).content) = i
    /\ \A o \in AllObjects : live[o] # NoObject /\ Of(live[o]) = i
    /\ \A k \in 1..CRDs : crds[k] = i.chart
    /\ \A k \in 1..Images : imported[k] # NoObject /\ Of(imported[k]) = i

Asked == [setup |-> configuration, chart |-> chart]

\* A call that returns without an error has brought all of the releases, their
\* objects, the CRDs and the images to what it was asked for.
SuccessIsComplete == outcome = "ok" /\ ~disturbed => IsComplete(Asked)

\* What there is to a user who asks: nothing, an installation, or part of some.
Installed ==
    LET present == {name \in Names : Exists(name)}
        is == {Of(Latest(storage[name]).content) : name \in present}
    IN  IF present = {} THEN Nothing
        ELSE IF \E i \in is : IsComplete(i) THEN CHOOSE i \in is : IsComplete(i)
        ELSE Partial

CallState ==
    IF pc # "idle" THEN "running"
    ELSE IF outcome = "ok" /\ ~disturbed THEN "ok" ELSE "stopped"

\* Calls are what the reconciler takes them for (HelmRun): however they fail,
\* retry, crash or are interfered with, an installation is the one asked for,
\* the one there was, or partial, and it is the one asked for after a success.
Contract == INSTANCE HelmRun WITH
    Complete <- Installation,
    state <- CallState,
    target <- Asked,
    installed <- Installed

KeepsContract == Contract!Spec

\* No workload of a namespace runs a chart newer than the CRDs it relies on,
\* whatever part of a call, or of several, has failed.
CRDsFirst ==
    \A name \in Names \ {RELEASE_CLUSTER_SCOPED} :
        \A o \in RangeOf(Objects[name]) :
            live[o] # NoObject =>
                \A k \in 1..CRDs : live[o].chart <= crds[k]

\* Calls do not fail by themselves: one that nothing disturbs succeeds, though
\* the calls before it failed at any point and though a Route has to move.
ErrorHasCause ==
    outcome = "error" => troubled \/ disturbed \/ ~Accepted(configuration)

\* A call leaves the cluster-scoped release at the defaults of the chart, even if
\* somebody had given it other values.
ClusterScopedIsDefault ==
    outcome = "ok" /\ ~disturbed =>
        Latest(storage[RELEASE_CLUSTER_SCOPED]).content.config.custom = Default

\* A secret the setup names is the one every release uses, although the values
\* of an earlier call may name another, or a retry has merged them again.
NamedSecretIsUsed ==
    outcome = "ok" /\ ~disturbed /\ Mongo[configuration.payload] # Empty =>
        \A name \in Names :
            Latest(storage[name]).content.config.secret
                = Mongo[configuration.payload]

\* The retry loop ends.
CallEnds == pc # "idle" ~> pc = "idle"

=============================================================================
