----------------------------- MODULE IndexPublish -----------------------------
(* How the cache index is published: the build worker that writes receipts     *)
(* (nixcache-builder worker.rs), promote (promote.rs), gc and purge (gc.rs,    *)
(* purge.rs), and the registry they share: one root tag for each architecture, *)
(* the top-level image index, and the NAR blobs. A step is one request to the  *)
(* registry; a job can die between any two of them. Manifests and shards are   *)
(* content addressed, so a root stands for its own digest.                     *)
EXTENDS CacheGraph, Naturals

CONSTANTS
  Nars,         \* NarDigest
  RefsOf,       \* the references of each path
  NarOf,        \* the blob of each path
  Upstream,     \* paths that a public cache serves: never uploaded
  Targets,      \* the outputs of the flake
  Runs,         \* promote, gc and purge jobs that can overlap
  Selectors,    \* what gc and purge are called with
  Regimes,      \* how the cache may be operated
  NoRoot, NoBuild, NoSelector,
  MaxRuns       \* bound on the jobs of a history

(* How a cache is operated: the kinds of job that one concurrency group keeps  *)
(* apart; --strict, where one failed export fails the build; whether the       *)
(* top-level index may be unreachable for a while; a bound on the builds.      *)
Regime ==
  [serialised : SUBSET {"build", "promote", "purge"}, strict : BOOLEAN,
   fetch_may_fail : BOOLEAN, builds : Nat]

ASSUME PublishAssumption ==
  /\ RefsOf \in [Hashes -> SUBSET Hashes] /\ NarOf \in [Hashes -> Nars]
  /\ Upstream \subseteq Hashes /\ Targets \subseteq Hashes
  /\ Selectors \subseteq Selector /\ NoSelector \notin Selectors
  /\ Regimes \subseteq Regime /\ MaxRuns \in Nat
  /\ NoRoot \notin [entries : SUBSET Hashes, gc_roots : SUBSET Hashes]

(* ShardedArchCacheIndexData: what its shards hold, and the GC roots. *)
EmptyRoot == [entries |-> {}, gc_roots |-> {}]

NoRoots == [s \in Systems |-> NoRoot]

VARIABLES
  regime,     \* never changes
  arch_tag,   \* cache-index-<system>
  top,        \* cache-index: the roots that its descriptors name
  blobs,      \* the NAR blobs in the registry
  build,      \* the build in progress
  receipts,   \* receipts written and not yet promoted
  run,        \* the local state of each job
  builds, runs,
  ledger      \* auxiliary: what was promoted and not purged since

registry == <<arch_tag, top, blobs>>
vars == <<regime, registry, build, receipts, run, builds, runs, ledger>>

(* A job: what it is doing, the receipts it has read, its selector and         *)
(* target_systems, the roots it has read and written, the hashes it purges and *)
(* the blobs it has still to delete.                                           *)
IdleRun ==
  [op |-> "none", pc |-> "idle", inbox |-> {}, selector |-> NoSelector, targets |-> {},
   loaded |-> NoRoots, pushed |-> NoRoots, victims |-> {}, doomed |-> {}]

Init ==
  /\ regime \in Regimes
  /\ arch_tag = NoRoots /\ top = NoRoots /\ blobs = {}
  /\ build = NoBuild /\ receipts = {}
  /\ run = [r \in Runs |-> IdleRun]
  /\ builds = 0 /\ runs = 0
  /\ ledger = [s \in Systems |-> {}]

Listed == {s \in Systems : top[s] # NoRoot}

EntriesOf(roots, s) == IF roots[s] = NoRoot THEN {} ELSE roots[s].entries
RootsOf(roots, s) == IF roots[s] = NoRoot THEN {} ELSE roots[s].gc_roots

(* The lock outside the program that README asks for. *)
MayStart(kind) ==
  /\ \A r \in Runs : run[r].op # "none" => {kind, run[r].op} \cap regime.serialised = {}
  /\ build # NoBuild => {kind, "build"} \cap regime.serialised = {}
  /\ kind = "purge" /\ "build" \in regime.serialised => receipts = {}

ClosureOf(h) == Reach([x \in Hashes |-> [references |-> RefsOf[x]]], "Transitive", {}, {h})

-------------------------------------------------------------------------------
(* run_build_worker *)

(* fetch_remote_arch_hashes: a root or a shard that cannot be read counts as  *)
(* empty.                                                                     *)
StartBuild(s, h) ==
  /\ build = NoBuild /\ builds < regime.builds
  /\ MayStart("build")
  /\ \E own \in SUBSET EntriesOf(arch_tag, s) :
       build' = [system |-> s, root |-> h, own |-> own]
  /\ builds' = builds + 1
  /\ UNCHANGED <<regime, registry, receipts, run, runs, ledger>>

(* find_locally_built_paths: the closure of the target without what is cached *)
(* already and what a public cache serves.                                    *)
UploadList == (ClosureOf(build.root) \ build.own) \ Upstream

BuildReceipt(exported) ==
  [system |-> build.system, new_entries |-> exported, active_gc_roots |-> {build.root}]

(* The export and the receipt. Without strict mode the receipt lists what     *)
(* could be exported.                                                         *)
FinishBuild ==
  /\ build # NoBuild
  /\ \E exported \in IF regime.strict THEN {UploadList} ELSE SUBSET UploadList :
       /\ blobs' = blobs \cup {NarOf[h] : h \in exported}
       /\ receipts' = receipts \cup {BuildReceipt(exported)}
  /\ build' = NoBuild
  /\ UNCHANGED <<regime, arch_tag, top, run, builds, runs, ledger>>

(* The build fails or dies: blobs may be there already, a receipt is not. *)
FailBuild ==
  /\ build # NoBuild
  /\ \E exported \in SUBSET UploadList : blobs' = blobs \cup {NarOf[h] : h \in exported}
  /\ build' = NoBuild
  /\ UNCHANGED <<regime, arch_tag, top, receipts, run, builds, runs, ledger>>

-------------------------------------------------------------------------------
(* Steps that promote and purge share. *)

At(r, kind, where) == run[r].op = kind /\ run[r].pc = where

(* An error leaves run_promote or run_purge, or the process dies: what was    *)
(* pushed stays pushed. The receipts are files, and are still there.          *)
Abort(r) ==
  /\ run[r].pc \notin {"idle", "published"}
  /\ receipts' = receipts \cup run[r].inbox
  /\ run' = [run EXCEPT ![r] = IdleRun]
  /\ UNCHANGED <<regime, registry, build, builds, runs, ledger>>

(* The architectures that the top-level index lists. An error of the fetch    *)
(* reads as "nothing published".                                              *)
SeenSystems == {Listed} \cup IF regime.fetch_may_fail THEN {{}} ELSE {}

(* try_join_all over the architectures *)
AllDone(me, roots) == \A s \in me.targets : roots[s] # NoRoot

(* put of the top-level index, made of what this job has pushed and of nothing *)
(* else. On a registry with If-Match the put is conditional on what update_cas *)
(* has just read, but the new index does not depend on it, and a refused put   *)
(* is tried again.                                                             *)
PutTop(r, kind, where) ==
  /\ At(r, kind, where)
  /\ AllDone(run[r], run[r].pushed)
  /\ top' = run[r].pushed
  /\ run' = [run EXCEPT ![r].pc = "published"]
  /\ UNCHANGED <<regime, arch_tag, blobs, build, receipts, builds, runs, ledger>>

Finish(r) ==
  /\ run[r].pc = "published"
  /\ run' = [run EXCEPT ![r] = IdleRun]
  /\ UNCHANGED <<regime, registry, build, receipts, builds, runs, ledger>>

(* get_sharded_root reads the architecture's tag. When only the top-level index *)
(* names the architecture, its descriptor has size 0 and the read fails.        *)
Readable(s) == arch_tag[s] = NoRoot => top[s] = NoRoot

-------------------------------------------------------------------------------
(* run_promote *)

(* A receipt that cannot be read or parsed is skipped with a warning. *)
StartPromote(r) ==
  /\ run[r].pc = "idle" /\ runs < MaxRuns
  /\ MayStart("promote")
  /\ \E readable \in SUBSET receipts :
       /\ run' = [run EXCEPT ![r] = [IdleRun EXCEPT !.op = "promote", !.pc = "discover",
                                                    !.inbox = readable]]
       /\ receipts' = receipts \ readable
  /\ runs' = runs + 1
  /\ UNCHANGED <<regime, registry, build, builds, ledger>>

(* target_systems: those of the receipts and of the published index; with      *)
(* neither, the current system.                                                *)
DiscoverPromote(r) ==
  /\ At(r, "promote", "discover")
  /\ \E seen \in SeenSystems, current \in Systems :
       LET found == seen \cup {m.system : m \in run[r].inbox}
       IN  run' = [run EXCEPT ![r].targets = IF found = {} THEN {current} ELSE found,
                              ![r].pc = "push"]
  /\ UNCHANGED <<regime, registry, build, receipts, builds, runs, ledger>>

ReadRoot(r, s) ==
  /\ At(r, "promote", "push")
  /\ s \in run[r].targets /\ run[r].loaded[s] = NoRoot
  /\ Readable(s)
  /\ run' = [run EXCEPT ![r].loaded[s] = IF arch_tag[s] = NoRoot THEN EmptyRoot ELSE arch_tag[s]]
  /\ UNCHANGED <<regime, registry, build, receipts, builds, runs, ledger>>

Incoming(r, s) == {m \in run[r].inbox : m.system = s}

(* The root that replaces what is published instead of extending it. *)
ReplacedRoot(base, mine) ==
  [entries |-> UNION {m.new_entries : m \in mine},
   gc_roots |-> UNION {m.active_gc_roots : m \in mine}]

(* Partial compaction: each shard's entries are extended by the incoming ones, *)
(* the GC roots are merged.                                                    *)
PromotedRoot(base, mine) ==
  [entries |-> base.entries \cup UNION {m.new_entries : m \in mine},
   gc_roots |-> base.gc_roots \cup UNION {m.active_gc_roots : m \in mine}]

PromoteRoot(r, s) ==
  /\ At(r, "promote", "push")
  /\ s \in run[r].targets /\ run[r].loaded[s] # NoRoot /\ run[r].pushed[s] = NoRoot
  /\ LET root == PromotedRoot(run[r].loaded[s], Incoming(r, s))
     IN  /\ arch_tag' = [arch_tag EXCEPT ![s] = root]
         /\ run' = [run EXCEPT ![r].pushed[s] = root]
  /\ ledger' = [ledger EXCEPT ![s] = @ \cup UNION {m.new_entries : m \in Incoming(r, s)}]
  /\ UNCHANGED <<regime, top, blobs, build, receipts, builds, runs>>

PublishPromote(r) == PutTop(r, "promote", "push")

-------------------------------------------------------------------------------
(* run_purge, and run_gc through it *)

StartPurge(r) ==
  /\ run[r].pc = "idle" /\ runs < MaxRuns
  /\ MayStart("purge")
  /\ \E s \in Selectors :
       run' = [run EXCEPT ![r] = [IdleRun EXCEPT !.op = "purge", !.pc = "discover",
                                                 !.selector = s]]
  /\ runs' = runs + 1
  /\ UNCHANGED <<regime, registry, build, receipts, builds, ledger>>

(* The architectures of the published index; when it lists none, all. *)
DiscoverPurge(r) ==
  /\ At(r, "purge", "discover")
  /\ \E seen \in SeenSystems :
       run' = [run EXCEPT ![r].targets = IF seen = {} THEN Systems ELSE seen,
                          ![r].pc = "load"]
  /\ UNCHANGED <<regime, registry, build, receipts, builds, runs, ledger>>

(* The roots are read side by side; an architecture without one falls out. *)
LoadRoot(r, s) ==
  /\ At(r, "purge", "load")
  /\ s \in run[r].targets /\ run[r].loaded[s] = NoRoot
  /\ Readable(s)
  /\ run' = IF arch_tag[s] = NoRoot
            THEN [run EXCEPT ![r].targets = @ \ {s}]
            ELSE [run EXCEPT ![r].loaded[s] = arch_tag[s]]
  /\ UNCHANGED <<regime, registry, build, receipts, builds, runs, ledger>>

(* all_entries: where two architectures hold a hash, the later one in the      *)
(* order of a hash set wins.                                                   *)
Orders ==
  {f \in [Systems -> 1 .. Cardinality(Systems)] : \A s, t \in Systems : f[s] = f[t] => s = t}

Merged(roots, order) ==
  [h \in UNION {EntriesOf(roots, s) : s \in Systems} |->
     [references |-> RefsOf[h],
      system |-> CHOOSE s \in Systems :
                   /\ h \in EntriesOf(roots, s)
                   /\ \A t \in Systems : h \in EntriesOf(roots, t) => order[t] <= order[s]]]

(* evaluate_cache_purge; when nothing is selected, nothing is written. *)
Evaluate(r) ==
  /\ At(r, "purge", "load")
  /\ AllDone(run[r], run[r].loaded)
  /\ \E order \in Orders :
       LET loaded == run[r].loaded
           all_entries == Merged(loaded, order)
           gone == PurgedSet(run[r].selector, all_entries, [s \in Systems |-> RootsOf(loaded, s)])
           survivors(s) == {h \in loaded[s].gc_roots :
                              Sound(all_entries, DOMAIN all_entries \ gone, h)}
       IN  run' = IF gone = {}
                  THEN [run EXCEPT ![r] = IdleRun]
                  ELSE [run EXCEPT
                          ![r].pc = "compact", ![r].victims = gone,
                          ![r].doomed = {NarOf[h] : h \in gone},
                          ![r].loaded = [s \in Systems |->
                             IF loaded[s] = NoRoot THEN NoRoot
                             ELSE [loaded[s] EXCEPT !.gc_roots = survivors(s)]]]
  /\ UNCHANGED <<regime, registry, build, receipts, builds, runs, ledger>>

(* The compaction that keeps the GC roots as they are published. *)
CompactedKeepingRoots(base, gone, published) ==
  [entries |-> base.entries \ gone, gc_roots |-> published.gc_roots]

(* The root without the purged entries and the broken GC roots. *)
CompactedRoot(base, gone, published) ==
  [entries |-> base.entries \ gone, gc_roots |-> base.gc_roots]

PurgeRoot(r, s) ==
  /\ At(r, "purge", "compact")
  /\ s \in run[r].targets /\ run[r].pushed[s] = NoRoot
  /\ LET root == CompactedRoot(run[r].loaded[s], run[r].victims, arch_tag[s])
     IN  /\ arch_tag' = [arch_tag EXCEPT ![s] = root]
         /\ run' = [run EXCEPT ![r].pushed[s] = root]
  /\ ledger' = [ledger EXCEPT ![s] = @ \ run[r].victims]
  /\ UNCHANGED <<regime, top, blobs, build, receipts, builds, runs>>

PublishPurge(r) == PutTop(r, "purge", "compact")

(* Blob deletion that does not wait for the index. *)
DeleteBlobEarly(r, b) ==
  /\ run[r].op = "purge" /\ b \in run[r].doomed
  /\ blobs' = blobs \ {b}
  /\ run' = [run EXCEPT ![r].doomed = @ \ {b}]
  /\ UNCHANGED <<regime, arch_tag, top, build, receipts, builds, runs, ledger>>

(* batch_delete_blobs, under --delete-blobs: after the index is published, any *)
(* of the deletions may fail.                                                  *)
DeleteBlob(r, b) ==
  /\ At(r, "purge", "published") /\ b \in run[r].doomed
  /\ blobs' = blobs \ {b}
  /\ run' = [run EXCEPT ![r].doomed = @ \ {b}]
  /\ UNCHANGED <<regime, arch_tag, top, build, receipts, builds, runs, ledger>>

(* No job is under way, and none need ever start. *)
Quiet == build = NoBuild /\ (\A r \in Runs : run[r].pc = "idle") /\ UNCHANGED vars

Next ==
  \/ Quiet
  \/ \E s \in Systems, h \in Targets : StartBuild(s, h)
  \/ FinishBuild \/ FailBuild
  \/ \E r \in Runs :
       \/ StartPromote(r) \/ DiscoverPromote(r) \/ PublishPromote(r)
       \/ StartPurge(r) \/ DiscoverPurge(r) \/ Evaluate(r) \/ PublishPurge(r)
       \/ Finish(r) \/ Abort(r)
       \/ \E s \in Systems : ReadRoot(r, s) \/ PromoteRoot(r, s) \/ LoadRoot(r, s) \/ PurgeRoot(r, s)
       \/ \E b \in Nars : DeleteBlob(r, b)

Spec == Init /\ [][Next]_vars

-------------------------------------------------------------------------------
(* The index holds what was promoted and not purged since, no less and no more: *)
(* no job undoes what another has published (promote.rs:174 and purge.rs:155    *)
(* read a root long before they overwrite it).                                  *)
IndexIsLedger == \A s \in Systems : EntriesOf(arch_tag, s) = ledger[s]

(* The whole pipeline, builds included, is one concurrency group. *)
OneGroup == regime.serialised = {"build", "promote", "purge"}

(* Every published entry can be fetched: its NAR blob is in the registry, also  *)
(* when a purge dies half-way (purge.rs publishes the index before it deletes). *)
BlobsServable ==
  OneGroup => \A s \in Systems : \A h \in EntriesOf(arch_tag, s) : NarOf[h] \in blobs

(* With --strict a published GC root can be installed: its whole closure is in  *)
(* the index of its architecture or on a public cache, although the build       *)
(* uploads only what is new and purges come between builds.                     *)
RootsServed ==
  OneGroup /\ regime.strict => \A s \in Systems : \A h \in RootsOf(arch_tag, s) :
    ClosureOf(h) \subseteq EntriesOf(arch_tag, s) \cup Upstream

(* A purge that protects GC roots, such as gc, takes nothing that an output of  *)
(* the current flake needs (README.md:982).                                     *)
FlakeProtected ==
  \A r \in Runs : run[r].selector # NoSelector /\ run[r].selector.protect_gc_roots =>
    run[r].victims \cap UNION {ClosureOf(h) : h \in Targets} = {}
===============================================================================
