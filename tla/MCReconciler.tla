---------------------------- MODULE MCReconciler ----------------------------
(***************************************************************************)
(* Small instances of Reconciler: two versions of the operator, and setups *)
(* of each kind the resolution tells apart.                                *)
(***************************************************************************)
EXTENDS Reconciler, TLC

CONSTANTS name, dotted, undotted, template, p, q

MCIdentifiers == {name}
MCDomains == {dotted, undotted}
MCDotted == {dotted, template}
MCTemplates == {template}
MCPayloads == {p, q}
MCExpand == [t \in {template} |-> dotted]
MCGenerated == [i \in {name} |-> dotted]
MCFirstField == [d \in {dotted, template} |-> name]
MCHash(s) == s

A == [routeDomain |-> dotted, datastoreIdentifier |-> name, payload |-> p]
B == [A EXCEPT !.payload = q]
NoName == [A EXCEPT !.datastoreIdentifier = Empty]    \* resolves to A
T == [NoName EXCEPT !.routeDomain = template]         \* resolves to A
NoDomain == [B EXCEPT !.routeDomain = Empty]          \* resolves to B
Undotted == [NoName EXCEPT !.routeDomain = undotted]  \* no resolution

OneSetup == {A}
TwoSetups == {A, B}
Settable == {NoName, B, [A EXCEPT !.routeDomain = undotted]}
OpenSetups == {T, NoDomain, Undotted}

\* Versions are only compared, and so are the payloads of TwoSetups.
SymmetricVersions == Permutations(Versions)
Symmetric == Permutations(Versions) \cup Permutations(MCPayloads)
=============================================================================
