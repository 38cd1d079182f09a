----------------------------- MODULE HelmValues -----------------------------
(***************************************************************************)
(* The values of the three releases: what ConfigurationToHelmValues makes  *)
(* of a setup, and what MergeMaps and                                      *)
(* EnsureProperDefaultOrchestratorArguments make of it together with the   *)
(* values of an earlier revision, which hold those of earlier setups, of   *)
(* earlier charts and of users.                                            *)
(*                                                                         *)
(* Values are functions from keys to values; the values of the keys are    *)
(* abstract, except for the switches and the orchestrator arguments.       *)
(* MergeMaps recurses where both sides hold a map; no value of a setup     *)
(* is one, so the right side wins wherever it has a key.                   *)
(*                                                                         *)
(* How a run fails and is retried is the subject of HelmDeploy.  Here a    *)
(* call brings release after release to a revision with the new values,    *)
(* or stops after any of them.                                             *)
(***************************************************************************)
EXTENDS Setup, HelmReleases, Integers, Sequences

CONSTANTS
    ClusterDomain,   \* ClusterDomain[r]: what follows the first dot of r
    Pvcs,            \* Pvcs[p]: the three PVCs of payload p
    Mongo,           \* Mongo[p]: secretDSMongoUserPass, or Empty
    S3Internal,      \* S3Internal[p]: secretS3InternalExperiments, or Empty
    S3Graph,         \* S3Graph[p]: secretS3GraphLibrary, or Empty
    PublicCatalog,   \* PublicCatalog[p]: whether it is a public catalog
    Malformed,       \* a value that is not of the type the code expects
    Charts,          \* helm charts, by version
    Inputs,          \* the setups calls are made with
    Customs,         \* the values users give a release, a function each
    MaxCalls,        \* bound on the calls
    MaxCustoms       \* bound on what users do with the releases

ASSUME HelmValuesAssumption ==
    /\ \A s \in Inputs : s \in Setups /\ Accepted(s)
    /\ \A p \in Payloads : PublicCatalog[p] \in BOOLEAN
    /\ {MaxCalls, MaxCustoms} \subseteq Nat

VARIABLES
    revisions,   \* the values of the revisions Helm has of each release
    setup,       \* the setup of the last call
    chart,       \* the chart of the operator that made it
    part,        \* the release the call is at, 0 between calls
    settled,     \* the last call ended well, and no user came since
    calls,
    customs

vars == <<revisions, setup, chart, part, settled, calls, customs>>

-----------------------------------------------------------------------------
(* ConfigurationToHelmValues. *)

\* Mutant: what is set stays set.
MergeMapsFirstWins(a, b) ==
    [k \in DOMAIN a \cup DOMAIN b |-> IF k \in DOMAIN a THEN a[k] ELSE b[k]]

\* The values of a overridden with those of b.
MergeMaps(a, b) ==
    [k \in DOMAIN a \cup DOMAIN b |-> IF k \in DOMAIN b THEN b[k] ELSE a[k]]

NoValues == [k \in {} |-> Empty]
All(keys, value) == [k \in keys |-> value]

ClusterSwitches == {"installRBACClusterScoped"}

UnmanagedSwitches == {
    "installDatastoreSecretMongoDB", "installRuntimeServiceConfigMap",
    "installRegistryBackendConfigMap", "installRegistryUINginxConfigMap"}

ManagedSwitches == {
    "installWorkflowOperator", "installDatastore", "installRuntimeService",
    "installRegistryBackend", "installRegistryUI", "installAuthentication",
    "installRBACNamespaced", "installDeployer", "installRuntimeK8s"}

Switches == ClusterSwitches \cup UnmanagedSwitches \cup ManagedSwitches

CatalogSwitches == {"installRuntimeK8s", "installDatastore"}

SwitchOn(name) ==
    CASE name = RELEASE_CLUSTER_SCOPED       -> ClusterSwitches
      [] name = RELEASE_NAMESPACED_UNMANAGED -> UnmanagedSwitches
      [] name = RELEASE_NAMESPACED_MANAGED   -> ManagedSwitches

\* Mutant: a release decides only about the switches that may be on in it.
SwitchOffOwn(name, p) ==
    (IF name = RELEASE_NAMESPACED_MANAGED THEN {"installDeployer"} ELSE {}) \cup
    (IF PublicCatalog[p] THEN CatalogSwitches ELSE {})

\* The lists are kept by hand.  The deployer is switched on and off again.
SwitchOff(name, p) ==
    (CASE name = RELEASE_CLUSTER_SCOPED       -> {
            "installDatastoreSecretMongoDB", "installRuntimeServiceConfigMap",
            "installRegistryBackendConfigMap", "installRegistryUINginxConfigMap",
            "installWorkflowOperator", "installDatastore", "installRuntimeService",
            "installRegistryBackend", "installRegistryUI", "installAuthentication",
            "installRBACNamespaced", "installDeployer", "installRuntimeK8s"}
       [] name = RELEASE_NAMESPACED_UNMANAGED -> {
            "installRBACClusterScoped",
            "installWorkflowOperator", "installDatastore", "installRuntimeService",
            "installRegistryBackend", "installRegistryUI", "installAuthentication",
            "installRBACNamespaced", "installDeployer", "installRuntimeK8s"}
       [] name = RELEASE_NAMESPACED_MANAGED   -> {
            "installRBACClusterScoped",
            "installDatastoreSecretMongoDB", "installRuntimeServiceConfigMap",
            "installRegistryBackendConfigMap", "installRegistryUINginxConfigMap",
            "installDeployer"}) \cup
    (IF PublicCatalog[p] THEN CatalogSwitches ELSE {})

\* What all three releases are told of a setup.
Settings(s) ==
    LET p == s.payload
    IN  [pvcs |-> Pvcs[p],
         clusterRouteDomain |-> ClusterDomain[s.routeDomain],
         datastoreLabelGateway |-> IF s.datastoreIdentifier = Empty
                                   THEN FirstField[s.routeDomain]
                                   ELSE s.datastoreIdentifier,
         secretNameS3GraphLibrary |-> S3Graph[p],
         secretNameS3InternalExperiments |-> S3Internal[p],
         isGlobalRegistry |-> FALSE,
         backendEnableCanvas |-> TRUE,
         backendEnableBuildCanvas |-> S3Internal[p] # Empty,
         backendEnableEditExperiment |-> S3Internal[p] # Empty,
         backendEnableEditParameterisation |-> TRUE,
         backendEnableRunExperiment |-> TRUE,
         backendEnableLocalGraphLibraryWriteAccess |-> S3Graph[p] # Empty,
         imagePullSecrets |-> FALSE]

\* The one key that is not always there.
Secret(s) ==
    IF Mongo[s.payload] = Empty THEN NoValues
    ELSE [datastoreMongoDBSecretName |-> Mongo[s.payload]]

\* ... and what the cluster-scoped one is not told.
Namespaced(name, s, c) ==
    IF name = RELEASE_CLUSTER_SCOPED THEN NoValues
    ELSE [imagesVariant |-> c, routePrefix |-> FirstField[s.routeDomain]]

Forbidden == {"backendEnableBuildCanvas", "backendEnableEditParameterisation",
              "backendEnableEditExperiment", "backendEnableRunExperiment",
              "backendEnableLocalGraphLibraryWriteAccess"}

\* A public catalog shows experiments and runs none.
Catalog(s) ==
    IF PublicCatalog[s.payload]
    THEN MergeMaps([isGlobalRegistry |-> TRUE, backendEnableCanvas |-> TRUE],
                   All(Forbidden, FALSE))
    ELSE NoValues

\* Mutant: off, and then on.
SwitchedOnLast(name, s) ==
    MergeMaps(All(SwitchOff(name, s.payload), FALSE), All(SwitchOn(name), TRUE))

Switched(name, s) ==
    MergeMaps(All(SwitchOn(name), TRUE), All(SwitchOff(name, s.payload), FALSE))

ConfigurationToHelmValues(name, s, c) ==
    MergeMaps(MergeMaps(MergeMaps(MergeMaps(
        Settings(s), Secret(s)), Namespaced(name, s, c)), Catalog(s)),
        Switched(name, s))

-----------------------------------------------------------------------------
(* The arguments the orchestrator of workflows is started with: a list of  *)
(* collections of arguments.                                               *)

Key == "defaultOrchestratorArguments"
Registration == [a \in {"--registerWorkflow"} |-> "y"]

\* The collections of the values v that can be read, by their indices.
Collections(v) ==
    IF Key \in DOMAIN v /\ v[Key] # Malformed
    THEN {i \in DOMAIN v[Key] : v[Key][i] # Malformed}
    ELSE {}

\* What users have set: all but the registration; the last collection that
\* has an argument wins.
Arguments(v) ==
    [a \in (UNION {DOMAIN v[Key][i] : i \in Collections(v)}) \ DOMAIN Registration |->
        LET last == CHOOSE i \in Collections(v) :
                      /\ a \in DOMAIN v[Key][i]
                      /\ \A j \in Collections(v) : a \in DOMAIN v[Key][j] => j <= i
        IN  v[Key][last][a]]

\* What is of another type than the code expects is neither a collection nor a
\* list of collections.
ASSUME MalformedAssumption ==
    /\ Malformed # Registration /\ Malformed # <<Registration>>
    /\ \A v \in Customs : /\ Malformed # Arguments(v)
                          /\ Malformed # <<Arguments(v), Registration>>

\* Mutant: the registration is added to what is there.
EnsureByAppending(v) ==
    MergeMaps(v, All({Key}, IF Collections(v) = {} THEN <<Registration>>
                            ELSE Append(v[Key], Registration)))

\* Mutant: the list is made afresh.
EnsureRegistrationOnly(v) == MergeMaps(v, All({Key}, <<Registration>>))

EnsureProperDefaultOrchestratorArguments(v) ==
    MergeMaps(v, All({Key}, IF DOMAIN Arguments(v) = {} THEN <<Registration>>
                            ELSE <<Arguments(v), Registration>>))

-----------------------------------------------------------------------------
(* HelmDeployPart, as far as the values go. *)

Ensured(name, v) ==
    IF name = RELEASE_NAMESPACED_UNMANAGED
    THEN EnsureProperDefaultOrchestratorArguments(v)
    ELSE v

Installed(name, s, c) == Ensured(name, ConfigurationToHelmValues(name, s, c))

\* The cluster-scoped release does not take over what it has.
Upgraded(name, s, c, old) ==
    IF name = RELEASE_CLUSTER_SCOPED THEN ConfigurationToHelmValues(name, s, c)
    ELSE Ensured(name, MergeMaps(old, ConfigurationToHelmValues(name, s, c)))

Latest(name) == revisions[name][Len(revisions[name])]
RevisionsOf(name) == {revisions[name][i] : i \in DOMAIN revisions[name]}

\* A revision with the values v, by a run that may take several attempts.  Of
\* the earlier revisions, or attempts, one is kept.
Recorded(name, v) ==
    \E older \in {<<>>} \cup {<<w>> : w \in RevisionsOf(name) \cup {v}} :
        revisions' = [revisions EXCEPT ![name] = Append(older, v)]

Call(s, c) ==
    /\ part = 0 /\ calls < MaxCalls /\ c >= chart
    /\ setup' = s /\ chart' = c /\ part' = 1
    /\ settled' = FALSE /\ calls' = calls + 1
    /\ UNCHANGED <<revisions, customs>>

\* The release has its revision, and the call goes on or ends.
HelmDeployPart ==
    /\ part > 0
    /\ LET name == Releases[part]
       IN  IF revisions[name] = <<>>
           THEN Recorded(name, Installed(name, setup, chart))
           ELSE \E old \in RevisionsOf(name) :
                    Recorded(name, Upgraded(name, setup, chart, old))
    /\ \/ part < Len(Releases) /\ part' = part + 1 /\ UNCHANGED settled
       \/ part = Len(Releases) /\ part' = 0 /\ settled' = TRUE
    /\ UNCHANGED <<setup, chart, calls, customs>>

\* The call stops with an error or with the operator.
CallStops ==
    /\ part > 0 /\ part' = 0
    /\ UNCHANGED <<revisions, setup, chart, settled, calls, customs>>

\* A user upgrades a release with values of their own.
Customise(name, v) ==
    /\ part = 0 /\ customs < MaxCustoms /\ revisions[name] # <<>>
    /\ Recorded(name, MergeMaps(Latest(name), v))
    /\ settled' = FALSE /\ customs' = customs + 1
    /\ UNCHANGED <<setup, chart, part, calls>>

Uninstall(name) ==
    /\ part = 0 /\ customs < MaxCustoms /\ revisions[name] # <<>>
    /\ revisions' = [revisions EXCEPT ![name] = <<>>]
    /\ settled' = FALSE /\ customs' = customs + 1
    /\ UNCHANGED <<setup, chart, part, calls>>

Init ==
    /\ revisions = [name \in Names |-> <<>>]
    /\ setup \in Inputs /\ chart \in Charts
    /\ part = 0 /\ settled = FALSE /\ calls = 0 /\ customs = 0

Next ==
    \/ \E s \in Inputs, c \in Charts : Call(s, c)
    \/ HelmDeployPart \/ CallStops
    \/ \E name \in Names, v \in Customs : Customise(name, v)
    \/ \E name \in Names : Uninstall(name)

Spec == Init /\ [][Next]_vars

-----------------------------------------------------------------------------
(* What must be true once a call has ended well. *)

\* Nothing of an earlier setup, chart or release is left: a release has the
\* values an installation from scratch would give it.  What else it has was set
\* by a user, or is the secret of an earlier setup; the cluster-scoped release,
\* which must not carry what users have no right to, has nothing else.
AsFromScratch ==
    settled => \A name \in Names :
        LET fresh == ConfigurationToHelmValues(name, setup, chart)
        IN  /\ \A k \in DOMAIN fresh : Latest(name)[k] = fresh[k]
            /\ DOMAIN Latest(name) \ DOMAIN fresh \subseteq
                 IF name = RELEASE_CLUSTER_SCOPED THEN {}
                 ELSE {Key, "datastoreMongoDBSecretName"}
                        \cup UNION {DOMAIN v : v \in Customs}

\* A component is installed by one release at most, whatever users have
\* switched on: a release decides about every switch, even those of others.
Installs(name, switch) ==
    switch \notin DOMAIN Latest(name) \/ Latest(name)[switch]

OneOwner ==
    settled => \A switch \in Switches : \A q, r \in Names :
        Installs(q, switch) /\ Installs(r, switch) => q = r

\* A public catalog runs and changes nothing, whatever was installed before;
\* and what was one comes back complete when it no longer is.
CatalogIsReadOnly ==
    settled => \A name \in Names :
        IF PublicCatalog[setup.payload]
        THEN /\ \A k \in Forbidden \cup CatalogSwitches : ~Latest(name)[k]
             /\ Latest(name)["isGlobalRegistry"]
        ELSE /\ Latest(name)["backendEnableRunExperiment"]
             /\ \A k \in CatalogSwitches :
                  Latest(name)[k] = (name = RELEASE_NAMESPACED_MANAGED)

\* Workflows are registered, exactly once, however often the list was
\* rewritten and whatever users made of it.
WorkflowsRegister ==
    settled =>
        LET list == Latest(RELEASE_NAMESPACED_UNMANAGED)[Key]
        IN  /\ Len(list) <= 2
            /\ list[Len(list)] = Registration
            /\ Len(list) = 2 =>
                 DOMAIN list[1] \cap DOMAIN Registration = {} /\ DOMAIN list[1] # {}

\* A call does not lose an argument users have given, unless the revisions Helm
\* keeps disagree about it.
ArgumentsKept ==
    [][part > 0 => \A older \in RevisionsOf(RELEASE_NAMESPACED_UNMANAGED) :
        (\A other \in RevisionsOf(RELEASE_NAMESPACED_UNMANAGED) :
            Arguments(other) = Arguments(older))
        => Arguments(Latest(RELEASE_NAMESPACED_UNMANAGED)')
             = Arguments(older)]_vars

=============================================================================
