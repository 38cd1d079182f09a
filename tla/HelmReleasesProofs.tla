------------------------- MODULE HelmReleasesProofs -------------------------
(***************************************************************************)
(* Facts about the three releases and their order.                         *)
(***************************************************************************)
EXTENDS HelmReleases, Integers, Sequences, TLAPS

\* The three releases have three names.
LEMMA NamesDiffer ==
    /\ RELEASE_CLUSTER_SCOPED # RELEASE_NAMESPACED_UNMANAGED
    /\ RELEASE_CLUSTER_SCOPED # RELEASE_NAMESPACED_MANAGED
    /\ RELEASE_NAMESPACED_UNMANAGED # RELEASE_NAMESPACED_MANAGED
BY DEF RELEASE_CLUSTER_SCOPED, RELEASE_NAMESPACED_UNMANAGED,
       RELEASE_NAMESPACED_MANAGED

\* A call goes past each release once, and past the cluster-scoped one first.
LEMMA ReleasesAreNames ==
    /\ Len(Releases) = 3
    /\ \A i \in 1..3 : Releases[i] \in Names
    /\ \A i, j \in 1..3 : Releases[i] = Releases[j] => i = j
    /\ \A name \in Names : \E i \in 1..3 : name = Releases[i]
    /\ \A i \in 1..3 : Releases[i] = RELEASE_CLUSTER_SCOPED <=> i = 1
BY NamesDiffer DEF Releases, Names

=============================================================================
