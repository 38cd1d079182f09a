---------------------------- MODULE MCHelmDeploy ----------------------------
(***************************************************************************)
(* Small instances of HelmDeploy: two route domains, payloads with no      *)
(* MongoDB secret or one of two, and a setup that has no values.           *)
(***************************************************************************)
EXTENDS HelmDeploy, TLC

CONSTANTS name, here, there, undotted, template, p, q, r, secret, secret2, mine,
          chartDefault, role, config, route, route2, workload

MCIdentifiers == {name}
MCDomains == {here, there, undotted}
MCTemplates == {template}
MCDotted == {here, there, template}
MCPayloads == {p, q, r}
MCExpand == [t \in {template} |-> here]
MCGenerated == [i \in {name} |-> here]
MCFirstField == [d \in MCDotted |-> name]
MCHash(s) == s
MCMongo == (p :> Empty) @@ (q :> secret) @@ (r :> secret2)

A == [routeDomain |-> here, datastoreIdentifier |-> name, payload |-> p]
B == [A EXCEPT !.routeDomain = there, !.payload = q]
C == [A EXCEPT !.payload = r]
Undotted == [A EXCEPT !.routeDomain = undotted]

Moved == {A, B}
Moving == {A, B, C, Undotted}

\* One object per release, and a Route beside the workload.
OneRoute ==
    (RELEASE_CLUSTER_SCOPED :> <<role>>) @@
    (RELEASE_NAMESPACED_UNMANAGED :> <<config>>) @@
    (RELEASE_NAMESPACED_MANAGED :> <<route, workload>>)

TwoRoutes == [OneRoute EXCEPT ![RELEASE_NAMESPACED_MANAGED] = <<route, route2>>]

MCRoutes == {route, route2} \cap AllObjects
=============================================================================
