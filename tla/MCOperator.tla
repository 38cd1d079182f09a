----------------------------- MODULE MCOperator -----------------------------
(***************************************************************************)
(* A small instance of Operator: two setups, one of them for each object   *)
(* or the same for both.                                                   *)
(***************************************************************************)
EXTENDS Operator, TLC

CONSTANTS name, domain, p, q

MCIdentifiers == {name}
MCDomains == {domain}
MCTemplates == {}
MCPayloads == {p, q}
MCExpand == [t \in {} |-> domain]
MCGenerated == [i \in {name} |-> domain]
MCFirstField == [d \in {domain} |-> name]
MCHash(s) == s

A == [routeDomain |-> domain, datastoreIdentifier |-> name, payload |-> p]
B == [A EXCEPT !.payload = q]
TwoSetups == {A, B}

Symmetric == Permutations(Versions) \cup Permutations(MCPayloads)
=============================================================================
