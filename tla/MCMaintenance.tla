---------------------------- MODULE MCMaintenance -----------------------------
(* Instances of what changes a published cache: builds, promotes and purges     *)
(* (IndexPublish), the deletion of a package (PackageDeletion), and those of    *)
(* one tag, a GitHub package or a batch of blobs (TagDeletion). A history is    *)
(* one of the three.                                                            *)
EXTENDS MCIndexPublish, Deletions

CONSTANTS
  Parts, index, manifest, rootblob, narblob, TagBlobs, MaxOthers, MaxFaults, NoOwner

VARIABLES
  active,
  call, owner, versions, tagblobs, call_pc, owner_type, page_no, all_versions, found_id, queue, flying, summary,
  overtaken, shifted, others, faults

tagVars ==
  <<call, owner, versions, tagblobs, call_pc, owner_type, page_no, all_versions, found_id, queue, flying, summary,
    overtaken, shifted, others, faults>>

(* A top-level index over one architecture. *)
TopTags == 1 .. 3
TopLists == [m \in PackageManifests |-> IF m = index THEN {manifest} ELSE {}]
RootLayers == [m \in PackageManifests |-> IF m = manifest THEN {rootblob} ELSE {}]
ShardNars == [m \in PackageManifests |-> IF m = manifest THEN {narblob} ELSE {}]

(* Packages of up to two pages, the newest version first. *)
TagPackages == {<< >>, <<{"x"}>>, <<{"y"}, {"x"}, {}>>, <<{"x", "y"}, {}, {}>>, <<{}, {}, {"x"}, {"y"}>>}

Tagged ==
  INSTANCE TagDeletion WITH
    Tags <- {"x", "y"}, Wanted <- "x", Blobs <- TagBlobs, Concurrency <- 2, Packages <- TagPackages,
    None <- NoOwner, blobs <- tagblobs, pc <- call_pc, moved <- overtaken, page <- page_no,
    found <- found_id

ASSUME Package!DeletionAssumption
ASSUME Tagged!ConstantsOk

-------------------------------------------------------------------------------
IdlePublish == active # "publish" => regime = CHOOSE r \in Regimes : TRUE
IdlePackage == active # "package" => target = [t \in Tags |-> NoTarget]
IdleTag == active # "tag" => call = "batch" /\ owner = "orgs" /\ tagblobs = {}

MaintenanceInit ==
  /\ active \in Parts
  /\ Init /\ IdlePublish /\ IdlePackage /\ Package!Init /\ IdleTag /\ Tagged!Init

MaintenanceNext ==
  \/ active = "publish" /\ Next /\ UNCHANGED <<active, packageVars, tagVars>>
  \/ active = "package" /\ Package!Next /\ UNCHANGED <<active, vars, tagVars>>
  \/ active = "tag" /\ Tagged!Next /\ UNCHANGED <<active, vars, packageVars>>

MaintenanceSpec == MaintenanceInit /\ [][MaintenanceNext]_<<active, vars, packageVars, tagVars>>

-------------------------------------------------------------------------------
(* A deletion of a tag, a GitHub package or a batch of blobs that returns Ok has *)
(* left nothing of it (TagDeletion, ghcr.rs:151, operations.rs:234).             *)
OkMeansGone == Tagged!OkMeansGone
===============================================================================
