-------------------------- MODULE MCBundleVersions --------------------------
(* The published bundle on one host, and what its documents promise.       *)
EXTENDS BundleVersions

(* "An UNPUBLISHED folder older than the current version is a build whose  *)
(* process died before it published": no build loses its folder while it   *)
(* still writes to it (prune_bundle_versions).                             *)
OnlyDeadBuildsAreDeleted ==
  [][\A b \in Builders :
       at[b] = "build" /\ at'[b] = "build" /\ ver[b] \in there => ver[b] \in there']_vars
=============================================================================
