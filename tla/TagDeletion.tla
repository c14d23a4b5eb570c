----------------------------- MODULE TagDeletion ------------------------------
(* The deletions that are not a walk over the graph of a package: one tag, a    *)
(* whole package of GitHub, a batch of blobs (nixcache-oci, backend/ghcr.rs and *)
(* client/deletion/operations.rs). Others push and delete between the requests. *)
(* A version, or a manifest of a standard registry, is an id and its tags; the  *)
(* versions are listed newest first, in pages cut by position.                  *)
EXTENDS Naturals, FiniteSets, Sequences, SequencesExt

CONSTANTS
  Tags, Wanted,      \* the tag to delete is Wanted
  Blobs,
  PageSize,          \* per_page
  Concurrency,       \* of batch_delete_blobs
  Packages,          \* what the package may contain at the start: sequences of sets of tags
  MaxOthers,         \* bound: pushes and deletions by others
  MaxFaults,         \* bound: requests that fail
  None

ConstantsOk ==
  /\ Wanted \in Tags /\ PageSize \in Nat \ {0} /\ Concurrency \in 1..32
  /\ Packages \subseteq Seq(SUBSET Tags) /\ MaxOthers \in Nat /\ MaxFaults \in Nat

VARIABLES
  call,         \* what is asked: "tag", "manifest_tag", "package" or "batch"
  owner,        \* whose package it is: the route that does not answer 404
  versions,     \* the registry, as are the blobs
  blobs,
  pc,
  owner_type,   \* as GitHubPackagesClient remembers it
  page,
  all_versions,
  found,        \* the id to delete
  queue,        \* blobs that no request has been made for
  flying,       \* blobs of the requests that buffer_unordered has in flight
  summary,      \* DeletionSummary: sets of blobs
  moved,        \* auxiliary: others pushed Wanted, or a blob of the batch
  shifted,      \* auxiliary: others deleted a version since the listing began
  others, faults

registry == <<call, owner, versions, blobs, moved, shifted, others>>
listing == <<page, all_versions>>
batch == <<queue, flying, summary>>
vars == <<registry, pc, owner_type, listing, found, batch, faults>>

Elems(s) == {s[i] : i \in 1..Len(s)}
Tagged(t) == {v \in Elems(versions) : t \in v.tags}
Without(id) == SelectSeq(versions, LAMBDA v : v.id # id)
Untagged(t) == [i \in 1..Len(versions) |-> [versions[i] EXCEPT !.tags = @ \ {t}]]

Init ==
  /\ call \in {"tag", "manifest_tag", "package", "batch"} /\ owner \in {"orgs", "users"}
  /\ \E p \in Packages : versions = [i \in 1..Len(p) |-> [id |-> Len(p) + 1 - i, tags |-> p[i]]]
  /\ call = "batch" => versions = << >>
  /\ blobs \in (IF call = "batch" THEN SUBSET Blobs ELSE {{}})
  /\ pc = CASE call = "tag" -> "list" [] call = "manifest_tag" -> "get"
            [] call = "package" -> "package" [] call = "batch" -> "batch"
  /\ owner_type = None /\ page = 1 /\ all_versions = << >>
  /\ found = 0
  /\ queue = (IF call = "batch" THEN Blobs ELSE {}) /\ flying = {}
  /\ summary = [deleted |-> {}, absent |-> {}, failed |-> {}]
  /\ moved = {} /\ shifted = FALSE /\ others = 0 /\ faults = 0

-------------------------------------------------------------------------------
(* What others do. *)

Other == others < MaxOthers /\ others' = others + 1 /\ pc \notin {"ok", "err", "partial"}

Client == <<call, owner, pc, owner_type, listing, found, batch, faults>>

Fresh == CHOOSE n \in 1..(Len(versions) + MaxOthers + 5) :
           \A v \in Elems(versions) \cup Elems(all_versions) : v.id < n

(* A push takes the tag from the version that has it. *)
PushTag ==
  /\ Other /\ call # "batch"
  /\ \E t \in Tags :
       /\ versions' = <<[id |-> Fresh, tags |-> {t}]>> \o Untagged(t)
       /\ moved' = moved \cup {t}
  /\ UNCHANGED <<Client, blobs, shifted>>

PushBlob ==
  /\ Other /\ call = "batch"
  /\ \E b \in Blobs : blobs' = blobs \cup {b} /\ moved' = moved \cup {b}
  /\ UNCHANGED <<Client, versions, shifted>>

DeleteByOther ==
  /\ Other
  /\ \/ /\ call # "batch" /\ UNCHANGED blobs
        /\ \E v \in Elems(versions) : versions' = Without(v.id)
     \/ call = "batch" /\ UNCHANGED versions /\ \E b \in blobs : blobs' = blobs \ {b}
  /\ shifted' = TRUE
  /\ UNCHANGED <<Client, moved>>

(* A request is refused, or its answer lost or unreadable. *)
Fault == faults < MaxFaults /\ faults' = faults + 1 /\ pc' = "err"

Fail == Fault /\ UNCHANGED <<registry, owner_type, listing, found, batch>>

To(next) == pc' = next /\ UNCHANGED faults

-------------------------------------------------------------------------------
(* list_package_versions *)

Page(n) == LET first == (n - 1) * PageSize
           IN  SubSeq(versions, first + 1, IF first + PageSize < Len(versions)
                                           THEN first + PageSize ELSE Len(versions))

(* A package without versions answers 404, as the other route does. *)
Exists(route) == route = owner /\ versions # << >>

(* Every call has a client of its own, which does not know the owner's type:    *)
(* list_package_versions, which reads the type once, asks for each page by the  *)
(* organisation's route, then by the user's.                                    *)
Answering == {r \in {"orgs", "users"} : Exists(r)}

(* A listing that takes a full page for the last one. *)
ListOnePage ==
  /\ pc = "list" /\ Answering # {}
  /\ all_versions' = all_versions \o Page(page)
  /\ owner_type' = owner
  /\ page' = page
  /\ To("find")
  /\ UNCHANGED <<registry, found, batch>>

ListPage ==
  /\ pc = "list" /\ Answering # {}
  /\ all_versions' = all_versions \o Page(page)
  /\ owner_type' = owner
  /\ IF Len(Page(page)) < PageSize THEN To("find") /\ page' = page
                                   ELSE To("list") /\ page' = page + 1
  /\ UNCHANGED <<registry, found, batch>>

(* 404 everywhere: there is no package, unless pages of it have been seen. *)
ListMissing ==
  /\ pc = "list" /\ Answering = {}
  /\ To(IF all_versions = << >> THEN "find" ELSE "err")
  /\ UNCHANGED <<registry, owner_type, listing, found, batch>>

ListFails == pc = "list" /\ Fail

(* find_version_id_by_tag: the first version of the listing that has the tag. *)
Find ==
  /\ pc = "find"
  /\ LET hits == {i \in 1..Len(all_versions) : Wanted \in all_versions[i].tags}
     IN  IF hits = {} THEN To("ok") /\ found' = found
         ELSE To("delete") /\ found' = all_versions[CHOOSE i \in hits : \A j \in hits : i <= j].id
  /\ UNCHANGED <<registry, owner_type, listing, batch>>

(* delete_package_version: 404 is taken for deleted. The route is the owner's:  *)
(* the listing that found the version has stored it.                            *)
DeleteVersion ==
  /\ pc = "delete"
  /\ \/ /\ versions' = (IF owner_type \in {None, owner} THEN Without(found) ELSE versions)
        /\ owner_type' = IF owner_type = None THEN owner ELSE owner_type
        /\ To("ok")
     \/ /\ Fault
        /\ versions' \in {versions, Without(found)} /\ UNCHANGED owner_type
  /\ UNCHANGED <<call, owner, blobs, moved, shifted, others, listing, found, batch>>

(* delete_entire_package: the organisation's route, then the user's. *)
DeletePackage ==
  /\ pc = "package"
  /\ \/ /\ owner_type' = (IF Exists("orgs") THEN "orgs" ELSE "users")
        /\ versions' = << >> /\ To("ok")
     \/ /\ Fault
        /\ versions' \in {versions, << >>} /\ UNCHANGED owner_type
  /\ UNCHANGED <<call, owner, blobs, moved, shifted, others, listing, found, batch>>

-------------------------------------------------------------------------------
(* delete_tag_strict of a standard registry *)

GetTag ==
  /\ pc = "get"
  /\ \/ /\ Tagged(Wanted) = {} /\ To("ok") /\ found' = found
     \/ \E v \in Tagged(Wanted) : To("delete_manifest") /\ found' = v.id
     \/ Fault /\ found' = found
  /\ UNCHANGED <<registry, owner_type, listing, batch>>

(* delete_manifest_strict: a manifest that has gone is no failure. *)
DeleteManifest ==
  /\ pc = "delete_manifest"
  /\ \/ versions' = Without(found) /\ To("delete_tag")
     \/ /\ Fault
        /\ versions' \in {versions, Without(found)}
  /\ UNCHANGED <<call, owner, blobs, moved, shifted, others, owner_type, listing, found, batch>>

(* The tag goes too, wherever it points by now. *)
DeleteTag ==
  /\ pc = "delete_tag"
  /\ \/ versions' = Untagged(Wanted) /\ To("ok")
     \/ /\ Fault
        /\ versions' \in {versions, Untagged(Wanted)}
  /\ UNCHANGED <<call, owner, blobs, moved, shifted, others, owner_type, listing, found, batch>>

-------------------------------------------------------------------------------
(* batch_delete_blobs_strict: at most Concurrency requests at a time, answered  *)
(* in any order.                                                                *)

StartBlob(b) ==
  /\ pc = "batch" /\ b \in queue /\ Cardinality(flying) < Concurrency
  /\ queue' = queue \ {b} /\ flying' = flying \cup {b}
  /\ UNCHANGED <<registry, pc, owner_type, listing, found, summary, faults>>

Count(field, b) == summary' = [summary EXCEPT ![field] = @ \cup {b}]

BlobDone(b) ==
  /\ pc = "batch" /\ b \in flying /\ flying' = flying \ {b}
  /\ \/ /\ Count(IF b \in blobs THEN "deleted" ELSE "absent", b)
        /\ blobs' = blobs \ {b} /\ UNCHANGED faults
     \/ /\ faults < MaxFaults /\ faults' = faults + 1
        /\ Count("failed", b) /\ blobs' \in {blobs, blobs \ {b}}
  /\ UNCHANGED <<call, owner, versions, moved, shifted, others, pc, owner_type, listing, found,
                 queue>>

BatchDone ==
  /\ pc = "batch" /\ queue = {} /\ flying = {}
  /\ To(IF summary.failed = {} THEN "ok" ELSE "partial")
  /\ UNCHANGED <<registry, owner_type, listing, found, batch>>

Next ==
  \/ PushTag \/ PushBlob \/ DeleteByOther
  \/ ListPage \/ ListMissing \/ ListFails \/ Find \/ DeleteVersion \/ DeletePackage
  \/ GetTag \/ DeleteManifest \/ DeleteTag
  \/ \E b \in Blobs : StartBlob(b) \/ BlobDone(b)
  \/ BatchDone

Spec == Init /\ [][Next]_vars

-------------------------------------------------------------------------------
(* A deletion that returns Ok, or Complete, has left nothing of what it was     *)
(* asked to delete, but what others pushed meanwhile. One tag of GitHub is the  *)
(* exception: its pages are cut by position, and a version that others delete   *)
(* moves the tag past a page that was read (ghcr.rs:151, operations.rs:234).    *)
OkMeansGone ==
  pc = "ok" =>
    CASE call \in {"tag", "manifest_tag"} ->
           (call = "tag" /\ shifted) \/ Wanted \in moved \/ Tagged(Wanted) = {}
      [] call = "package" -> versions = << >>
      [] call = "batch" -> blobs \subseteq moved
===============================================================================
