---------------------------- MODULE MCHelmValues ----------------------------
(***************************************************************************)
(* Small instances of HelmValues: a plain setup, one with all the secrets, *)
(* and a public catalog, and users who set a switch, a secret, a setting   *)
(* of the chart and the orchestrator arguments in every shape.             *)
(***************************************************************************)
EXTENDS HelmValues, TLC

CONSTANTS ident, here, there, plain, secrets, catalog, mongo, s3, pvc, mine,
          tuned, verbose, quiet

MCIdentifiers == {ident}
MCDomains == {here, there}
MCTemplates == {}
MCPayloads == {plain, secrets, catalog}
MCExpand == [t \in {} |-> here]
MCGenerated == [i \in {ident} |-> here]
MCFirstField == [d \in MCDomains |-> ident]
MCHash(s) == s
MCClusterDomain == [d \in MCDomains |-> d]
MCPvcs == [x \in MCPayloads |-> pvc]
MCMongo == [x \in MCPayloads |-> IF x = plain THEN Empty ELSE mongo]
MCS3 == [x \in MCPayloads |-> IF x = plain THEN Empty ELSE s3]
MCPublicCatalog == [x \in MCPayloads |-> x = catalog]

Plain == [routeDomain |-> here, datastoreIdentifier |-> ident, payload |-> plain]
MCInputs == {Plain, [Plain EXCEPT !.payload = secrets, !.routeDomain = there],
             [Plain EXCEPT !.payload = catalog, !.datastoreIdentifier = Empty]}

Level(l) == [a \in {"--level"} |-> l]
Unregistered == [a \in {"--registerWorkflow"} |-> "n"]

MCCustoms == {
    [installDatastore |-> TRUE], [backendEnableRunExperiment |-> FALSE],
    [datastoreMongoDBSecretName |-> mine], [tuning |-> tuned],
    [defaultOrchestratorArguments |-> Malformed],
    [defaultOrchestratorArguments |-> <<Unregistered>>],
    [defaultOrchestratorArguments |->
        <<Level(quiet) @@ Unregistered, Malformed, Level(verbose)>>]}
=============================================================================
