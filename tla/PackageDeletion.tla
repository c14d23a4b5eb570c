--------------------------- MODULE PackageDeletion ----------------------------
(* delete_entire_package of a registry with TaggedGraphOnly support             *)
(* (nixcache-oci, client/deletion/): the tags are listed page by page, what     *)
(* they reach is discovered, then deleted, then looked for again. Other jobs    *)
(* push meanwhile, and requests fail.                                           *)
EXTENDS Naturals, FiniteSets

CONSTANTS
  Tags,          \* in the order of the registry: a set of naturals above 0
  Manifests,
  Blobs,
  Children,      \* the manifests an image index lists
  LayersOf,      \* the root index and the shards of a manifest, read by discovery
  NarsOf,        \* its config and the NARs its shards list, which are not read
  PageSize,      \* PAGE_SIZE
  PageCap,       \* the most tags the registry puts on a page
  MaxPages,      \* MAX_TAG_PAGES
  Faults,        \* "error" of a request (a limit reached included), "lazy": a
                 \* DELETE accepted and not done, "stuck": the cursor is ignored
  NoManifest,
  Tag,           \* what the failure of the verifying listing names
  MaxPushes,     \* bound: pushes by others
  MaxCalls       \* bound: calls of delete_entire_package

DeletionAssumption ==
  /\ Tags \subseteq Nat \ {0} /\ IsFiniteSet(Tags)
  /\ Children \in [Manifests -> SUBSET Manifests]
  /\ LayersOf \in [Manifests -> SUBSET Blobs] /\ NarsOf \in [Manifests -> SUBSET Blobs]
  /\ PageSize \in Nat \ {0} /\ PageCap \in Nat \ {0} /\ MaxPages \in Nat \ {0}
  /\ Faults \subseteq {"error", "lazy", "stuck"}
  /\ MaxPushes \in Nat /\ MaxCalls \in Nat \ {0}

VARIABLES
  target, manifests, blobs,  \* the registry
  pc,
  listing,     \* list_tags: the tags collected, the cursor, the pages fetched
  todo,        \* tags to resolve, manifests to walk or objects to delete
  queued,      \* queued_manifests
  plan,        \* DeletionPlan
  failures,    \* what summary.failures names
  moved,       \* auxiliary: the tags pushed since the call
  late,        \* auxiliary: the tags pushed since the verifying listing began
  pushed,      \* auxiliary: the objects pushed, and not deleted, since the call
  reported,    \* auxiliary: the failures of the earlier calls
  pushes, calls

registry == <<target, manifests, blobs, moved, late, pushed, pushes>>
history == <<reported, calls>>
vars == <<registry, history, pc, listing, todo, queued, plan, failures>>

NoPlan == [manifests |-> {}, blobs |-> {}]
NoListing == [tags |-> {}, last |-> 0, pages |-> 0]

BlobsOf(m) == LayersOf[m] \cup NarsOf[m]

(* Two levels: an index lists manifests, a manifest names blobs. *)
Graph(m) == {m} \cup Children[m]
GraphBlobs(m) == UNION {BlobsOf(n) : n \in Graph(m)}

Init ==
  /\ target \in [Tags -> Manifests \cup {NoManifest}]
  /\ manifests = UNION {Graph(target[t]) : t \in {t \in Tags : target[t] # NoManifest}}
  /\ blobs = UNION {BlobsOf(m) : m \in manifests}
  /\ pc = "list" /\ listing = NoListing /\ todo = {} /\ queued = {} /\ plan = NoPlan
  /\ failures = {} /\ reported = {}
  /\ moved = {} /\ late = {} /\ pushed = {} /\ pushes = 0 /\ calls = 1

(* A promote or a purge of another job. *)
Push ==
  /\ pushes < MaxPushes /\ pushes' = pushes + 1
  /\ \E t \in Tags, m \in Manifests :
       /\ target' = [target EXCEPT ![t] = m]
       /\ manifests' = manifests \cup Graph(m)
       /\ blobs' = blobs \cup GraphBlobs(m)
       /\ moved' = moved \cup {t} /\ late' = late \cup {t}
       /\ pushed' = pushed \cup Graph(m) \cup GraphBlobs(m)
  /\ UNCHANGED <<pc, listing, todo, queued, plan, failures, history>>

Fail == pc' = "err" /\ UNCHANGED <<listing, todo, queued, plan, failures, registry, history>>

-------------------------------------------------------------------------------
(* list_tags *)

Present == {t \in Tags : target[t] # NoManifest}

(* The page after a tag: the rest, or as much of its beginning as fits. *)
Pages(last) ==
  LET rest == {t \in Present : t > last}
      size == IF PageCap < PageSize THEN PageCap ELSE PageSize
  IN  {page \in SUBSET rest :
         /\ \A t \in page, u \in rest : u < t => u \in page
         /\ \/ page = rest /\ Cardinality(page) <= size
            \/ page # {} /\ Cardinality(page) = size}

Served == Pages(listing.last) \cup IF "stuck" \in Faults THEN Pages(0) ELSE {}

(* The tag that ends a page is the cursor of the next request. *)
Ends(t, page) == t \in page /\ \A u \in page : u <= t

(* list_tags that takes an empty page for the end, whatever came before, and    *)
(* looks neither for new tags nor at the cursor.                                *)
VerdictTrusting(page, l) ==
  IF page = {} \/ Cardinality(page) < PageSize \/ (\A t \in page : t <= l.last)
  THEN "complete" ELSE "more"

(* What a page means: the last one, one of several, or a failure. *)
Verdict(page, l) ==
  CASE page = {} -> IF l.last = 0 THEN "complete" ELSE "failed"
    [] page # {} /\ l.last # 0 /\ page \subseteq l.tags -> "failed"
    [] page # {} /\ (l.last = 0 \/ ~ page \subseteq l.tags) ->
         IF Cardinality(page) < PageSize THEN "complete"
         ELSE IF Ends(l.last, page) THEN "failed" ELSE "more"

Collected(page, last) ==
  [tags |-> listing.tags \cup page, last |-> last, pages |-> listing.pages + 1]

(* A page of the first or of the verifying listing. *)
ListMore ==
  /\ pc \in {"list", "relist"} /\ listing.pages < MaxPages
  /\ \E page \in Served : \E t \in page :
       Ends(t, page) /\ Verdict(page, listing) = "more" /\ listing' = Collected(page, t)
  /\ UNCHANGED <<pc, todo, queued, plan, failures, registry, history>>

Listed ==
  /\ pc = "list" /\ listing.pages < MaxPages
  /\ \E page \in Served :
       /\ Verdict(page, listing) = "complete"
       /\ listing' = Collected(page, listing.last)
       /\ todo' = listing.tags \cup page
  /\ pc' = "resolve"
  /\ UNCHANGED <<queued, plan, failures, registry, history>>

ListFailed(page) == Verdict(page, listing) = "failed"

(* PaginationFailed before anything was deleted. *)
ListFails ==
  /\ pc = "list"
  /\ listing.pages >= MaxPages \/ "error" \in Faults \/ \E page \in Served : ListFailed(page)
  /\ Fail

-------------------------------------------------------------------------------
(* discover_tag_reachable_graph *)

(* Tags are resolved in order; one that is gone is skipped. *)
Resolve ==
  /\ pc = "resolve" /\ todo # {}
  /\ \E t \in todo :
       /\ \A u \in todo : t <= u
       /\ todo' = todo \ {t}
       /\ queued' = IF target[t] = NoManifest THEN queued ELSE queued \cup {target[t]}
  /\ UNCHANGED <<pc, listing, plan, failures, registry, history>>

Resolved ==
  /\ pc = "resolve" /\ todo = {}
  /\ pc' = "walk" /\ todo' = queued
  /\ UNCHANGED <<listing, queued, plan, failures, registry, history>>

(* A child or a layer that has gone meanwhile ends the discovery. *)
Unreadable(m) == ~ Children[m] \ queued \subseteq manifests \/ ~ LayersOf[m] \subseteq blobs

Walk(m) ==
  /\ pc = "walk" /\ m \in todo /\ ~ Unreadable(m)
  /\ plan' = [manifests |-> plan.manifests \cup {m}, blobs |-> plan.blobs \cup BlobsOf(m)]
  /\ todo' = (todo \ {m}) \cup (Children[m] \ queued)
  /\ queued' = queued \cup Children[m]
  /\ UNCHANGED <<pc, listing, failures, registry, history>>

DiscoveryFails ==
  /\ pc \in {"resolve", "walk"} /\ todo # {}
  /\ "error" \in Faults \/ (pc = "walk" /\ \E m \in todo : Unreadable(m))
  /\ Fail

Discovered ==
  /\ pc = "walk" /\ todo = {}
  /\ pc' = "delete_manifests" /\ todo' = plan.manifests
  /\ UNCHANGED <<listing, queued, plan, failures, registry, history>>

-------------------------------------------------------------------------------
(* delete_entire_package_strict *)

(* The registry does a DELETE, or not, and the client takes it for done, or     *)
(* not: an answer may be lost, and 202 promises nothing.                        *)
Answers == [done : {TRUE}, ok : {TRUE}]
  \cup (IF "error" \in Faults THEN [done : BOOLEAN, ok : {FALSE}] ELSE {})
  \cup (IF "lazy" \in Faults THEN [done : {FALSE}, ok : {TRUE}] ELSE {})

Judge(o, ok) == IF ok THEN failures ELSE failures \cup {o}

(* A loop that a failure leaves with `?`. *)
DeleteManifestStops(m) ==
  /\ pc = "delete_manifests" /\ m \in todo
  /\ todo' = todo \ {m}
  /\ \E a \in Answers :
       LET gone == IF a.done THEN {m} ELSE {}
       IN  /\ manifests' = manifests \ gone
           /\ target' = [t \in Tags |-> IF target[t] \in gone THEN NoManifest ELSE target[t]]
           /\ pushed' = pushed \ gone
           /\ failures' = Judge(m, a.ok)
           /\ pc' = IF a.ok THEN pc ELSE "err"
  /\ UNCHANGED <<listing, queued, plan, blobs, moved, late, pushes, history>>

(* DELETE of a manifest; the registry drops the tags that point to it. *)
DeleteManifest(m) ==
  /\ pc = "delete_manifests" /\ m \in todo
  /\ todo' = todo \ {m}
  /\ \E a \in Answers :
       LET gone == IF a.done THEN {m} ELSE {}
       IN  /\ manifests' = manifests \ gone
           /\ target' = [t \in Tags |-> IF target[t] \in gone THEN NoManifest ELSE target[t]]
           /\ pushed' = pushed \ gone
           /\ failures' = Judge(m, a.ok)
  /\ UNCHANGED <<pc, listing, queued, plan, blobs, moved, late, pushes, history>>

DeleteBlob(b) ==
  /\ pc = "delete_blobs" /\ b \in todo
  /\ todo' = todo \ {b}
  /\ \E a \in Answers :
       LET gone == IF a.done THEN {b} ELSE {}
       IN  /\ blobs' = blobs \ gone /\ pushed' = pushed \ gone
           /\ failures' = Judge(b, a.ok)
  /\ UNCHANGED <<pc, listing, queued, plan, manifests, target, moved, late, pushes, history>>

ManifestsDeleted ==
  /\ pc = "delete_manifests" /\ todo = {}
  /\ pc' = "delete_blobs" /\ todo' = plan.blobs
  /\ UNCHANGED <<listing, queued, plan, failures, registry, history>>

BlobsDeleted ==
  /\ pc = "delete_blobs" /\ todo = {}
  /\ pc' = "relist" /\ listing' = NoListing /\ late' = {}
  /\ UNCHANGED <<todo, queued, plan, failures, target, manifests, blobs, moved, pushed, pushes,
                 history>>

(* The tags that remain, or a listing that fails, are a failure. *)
Relisted ==
  /\ pc = "relist"
  /\ \/ /\ listing.pages < MaxPages
        /\ \E page \in Served :
             /\ Verdict(page, listing) # "more"
             /\ failures' = Judge(Tag, ~ ListFailed(page) /\ listing.tags \cup page = {})
     \/ /\ listing.pages >= MaxPages \/ "error" \in Faults
        /\ failures' = Judge(Tag, FALSE)
  /\ pc' = "verify" /\ todo' = plan.manifests \cup plan.blobs
  /\ UNCHANGED <<listing, queued, plan, registry, history>>

(* Verification that takes an accepted DELETE for a deletion. *)
VerifyNothing(o) ==
  /\ pc = "verify" /\ o \in todo
  /\ todo' = todo \ {o}
  /\ UNCHANGED <<pc, listing, queued, plan, failures, registry, history>>

(* verify_manifest_absent and the HEAD of a blob *)
Verify(o) ==
  /\ pc = "verify" /\ o \in todo
  /\ todo' = todo \ {o}
  /\ \/ failures' = Judge(o, o \notin manifests \cup blobs)
     \/ "error" \in Faults /\ failures' = Judge(o, FALSE)
  /\ UNCHANGED <<pc, listing, queued, plan, registry, history>>

Finish ==
  /\ pc = "verify" /\ todo = {}
  /\ pc' = "done"
  /\ UNCHANGED <<listing, todo, queued, plan, failures, registry, history>>

(* The job is run again, by hand or by its schedule. *)
Again ==
  /\ pc \in {"done", "err"} /\ calls < MaxCalls /\ calls' = calls + 1
  /\ pc' = "list" /\ listing' = NoListing /\ todo' = {} /\ queued' = {} /\ plan' = NoPlan
  /\ failures' = {} /\ reported' = reported \cup failures
  /\ moved' = {} /\ late' = {} /\ pushed' = {}
  /\ UNCHANGED <<target, manifests, blobs, pushes>>

Complete == pc = "done" /\ failures = {}

Next ==
  \/ Push
  \/ ListMore \/ Listed \/ ListFails \/ Resolve \/ Resolved \/ DiscoveryFails
  \/ \E m \in Manifests : Walk(m) \/ DeleteManifest(m)
  \/ Discovered \/ ManifestsDeleted \/ BlobsDeleted \/ Relisted \/ Finish
  \/ \E b \in Blobs : DeleteBlob(b)
  \/ \E o \in Manifests \cup Blobs : Verify(o)
  \/ Again

Spec == Init /\ [][Next]_vars

-------------------------------------------------------------------------------
(* Nothing is deleted until every page of tags and everything they reach has    *)
(* been discovered: tags that nobody moves cannot be missed, whatever is pushed *)
(* while the pages are read (README.md:250).                                    *)
DeletesAfterDiscovery ==
  pc = "delete_manifests" =>
    \A t \in Tags \ moved : target[t] # NoManifest =>
      Graph(target[t]) \subseteq plan.manifests /\ GraphBlobs(target[t]) \subseteq plan.blobs

(* A deletion that reports complete has seen every object of its plan absent,   *)
(* and an empty list of tags after its last DELETE: what is there was pushed    *)
(* after it looked (operations.rs:293, operations.rs:312).                      *)
CompleteMeansGone ==
  Complete => /\ (plan.manifests \cup plan.blobs) \cap (manifests \cup blobs) \subseteq pushed
              /\ Present \subseteq late

(* What a failed call left behind and no tag reaches any more, the next call    *)
(* cannot find and reports complete: each such object was named by a failure of *)
(* an earlier call (PackageDeletionSummary, deletion.rs:80).                    *)
LeftoversReported == Complete /\ pushes = 0 => manifests \cup blobs \subseteq reported
===============================================================================
