------------------------------- MODULE Setup -------------------------------
(***************************************************************************)
(* The setup block of a SimulationToolkit object (spec.setup) and the      *)
(* decision the reconciler takes about it right before it deploys: which   *)
(* of routeDomain and datastoreIdentifier it must fill in, and when it     *)
(* cannot.                                                                 *)
(*                                                                         *)
(* Strings are abstracted to what the code asks of them.  A route domain   *)
(* is empty, a template (it contains ${CLUSTER_INGRESS}), or a domain; it  *)
(* is dotted when strings.Split(domain, ".") has two fields or more.  The  *)
(* three string operations of the code are the functions                   *)
(* Expand (ReplaceAll), Generated (Sprintf("%s-%s.%s")) and FirstField     *)
(* (Split(...)[0]).                                                        *)
(***************************************************************************)

CONSTANTS
    Empty,        \* the empty string
    Identifiers,  \* non-empty datastore identifiers
    Domains,      \* non-empty route domains without ${CLUSTER_INGRESS}
    Templates,    \* route domains that contain ${CLUSTER_INGRESS}
    Dotted,       \* the domains and templates with two or more fields
    Payloads,     \* the rest of the setup: PVCs, secrets, publicCatalog
    Expand,       \* Expand[t]: t with ${CLUSTER_INGRESS} replaced
    Generated,    \* Generated[d]: d-namespace.ingress
    FirstField,   \* FirstField[r]: what precedes the first dot of r
    Hash(_)       \* the md5 of the setup's JSON encoding

ASSUME StringsAssumption ==
    /\ Empty \notin Identifiers \cup Domains \cup Templates
    /\ Domains \cap Templates = {}
    /\ Dotted \subseteq Domains \cup Templates
    /\ Expand \in [Templates -> Domains \cup {Empty}]
    /\ Generated \in [Identifiers -> Dotted \cap Domains]
    /\ FirstField \in [Dotted -> Identifiers \cup {Empty}]

\* SimulationToolkitSpecSetup; omitempty makes an empty and an absent field
\* the same value.
Setups == [routeDomain: {Empty} \cup Domains \cup Templates,
           datastoreIdentifier: {Empty} \cup Identifiers,
           payload: Payloads]

\* Two setups with the same JSON encoding are equal, and md5 collisions are
\* not considered.
ASSUME HashAssumption ==
    \A s, t \in Setups : Hash(s) = Hash(t) => s = t

-----------------------------------------------------------------------------

\* The domain of the cluster's ingress is needed to fill in the route domain.
RequiresClusterIngress(s) ==
    \/ s.routeDomain = Empty /\ s.datastoreIdentifier # Empty
    \/ s.routeDomain \in Templates

\* Neither field is set, so there is nothing to generate a route domain from.
CannotGenerate(s) ==
    s.routeDomain = Empty /\ s.datastoreIdentifier = Empty

\* The route domain once the ingress is known.
Routed(s) ==
    IF RequiresClusterIngress(s)
    THEN [s EXCEPT !.routeDomain = IF s.routeDomain = Empty
                                   THEN Generated[s.datastoreIdentifier]
                                   ELSE Expand[s.routeDomain]]
    ELSE s

\* The datastore identifier defaults to the first field of the route domain.
Identified(s) ==
    IF s.datastoreIdentifier = Empty /\ s.routeDomain \in Dotted
    THEN [s EXCEPT !.datastoreIdentifier = FirstField[s.routeDomain]]
    ELSE s

\* An error before anything was filled in.
BlockedEarly(s, ingressKnown) ==
    \/ CannotGenerate(s)
    \/ RequiresClusterIngress(s) /\ ~ingressKnown

\* Mutant: the datastore identifier is left to Helm's values.
ResolveUnidentified(s, ingressKnown) ==
    IF BlockedEarly(s, ingressKnown) THEN s ELSE Routed(s)

\* What the reconciler turns s into; ingressKnown is the outcome of
\* DiscoverClusterIngress.
Resolve(s, ingressKnown) ==
    IF BlockedEarly(s, ingressKnown) THEN s ELSE Identified(Routed(s))

\* Whether it is left with an error.  A partly resolved setup can be returned
\* together with an error.
ResolveFails(s, ingressKnown) ==
    \/ BlockedEarly(s, ingressKnown)
    \/ Routed(s).datastoreIdentifier = Empty /\ Routed(s).routeDomain \notin Dotted

\* Nothing is left to fill in: the route domain is settled, and so is the
\* datastore identifier, unless the route domain starts with a dot.
Filled(s) ==
    /\ s.routeDomain \in Domains
    /\ \/ s.datastoreIdentifier # Empty
       \/ s.routeDomain \in Dotted /\ FirstField[s.routeDomain] = Empty

\* ConfigurationToHelmValues makes values of s: the route domain has a prefix
\* and a domain, whether or not there is an identifier.
Accepted(s) == s.routeDomain \in Dotted

\* A setup Helm may be given.
Deployable(s) == Filled(s) /\ Accepted(s)

=============================================================================
