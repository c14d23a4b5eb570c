------------------------------ MODULE Deletions -------------------------------
(* The deletion of a package (PackageDeletion) over variables of its own, to    *)
(* stand beside the other machines of a run, and what is promised of it.        *)

CONSTANTS
  Tags, PackageManifests, Blobs, Children, LayersOf, NarsOf, PageSize, PageCap, MaxPages, Faults, NoTarget, Tag,
  MaxPushes, MaxCalls

VARIABLES
  target, manifests, package_blobs, package_pc, listing, todo, queued, plan, failures, moved, late_tags, pushed,
  reported, pushes, calls

packageVars ==
  <<target, manifests, package_blobs, package_pc, listing, todo, queued, plan, failures, moved, late_tags, pushed,
    reported, pushes, calls>>

Package == INSTANCE PackageDeletion WITH
  Manifests <- PackageManifests, NoManifest <- NoTarget, blobs <- package_blobs, pc <- package_pc,
  late <- late_tags

(* Nothing of a package is deleted before everything its tags reach has been     *)
(* discovered (PackageDeletion, README.md:250).                                  *)
DeletesAfterDiscovery == Package!DeletesAfterDiscovery

(* A package deletion that reports complete has seen its plan absent and no tag  *)
(* left (PackageDeletion, operations.rs:293).                                    *)
CompleteMeansGone == Package!CompleteMeansGone

(* What a failed package deletion left behind was named by its failures          *)
(* (PackageDeletion, deletion.rs:80).                                            *)
LeftoversReported == Package!LeftoversReported
===============================================================================
