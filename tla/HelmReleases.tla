---------------------------- MODULE HelmReleases ----------------------------
(***************************************************************************)
(* The three Helm releases of a namespace, in the order in which a call    *)
(* deploys them.                                                           *)
(***************************************************************************)

RELEASE_CLUSTER_SCOPED       == "st4sd-cluster-scoped"
RELEASE_NAMESPACED_UNMANAGED == "st4sd-namespaced-unmanaged"
RELEASE_NAMESPACED_MANAGED   == "st4sd-namespaced-managed"

Names == {RELEASE_CLUSTER_SCOPED, RELEASE_NAMESPACED_UNMANAGED,
          RELEASE_NAMESPACED_MANAGED}

\* Mutant: the CRDs come last.
ReleasesWorkloadFirst == <<RELEASE_NAMESPACED_MANAGED,
                           RELEASE_NAMESPACED_UNMANAGED, RELEASE_CLUSTER_SCOPED>>

Releases == <<RELEASE_CLUSTER_SCOPED, RELEASE_NAMESPACED_UNMANAGED,
              RELEASE_NAMESPACED_MANAGED>>

=============================================================================
