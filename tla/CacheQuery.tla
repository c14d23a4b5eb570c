------------------------------ MODULE CacheQuery ------------------------------
(* evaluate_cache_purge (nixcache-core purge.rs over filter.rs), the engine    *)
(* behind gc, purge and list, one step per iteration of its work lists:        *)
(* the walk from the protected roots, the match of the selector, the cascade   *)
(* from the matches, and the walk from each root that decides whether it       *)
(* survives. HashMaps are iterated in any order.                               *)
EXTENDS CacheGraph, Naturals

CONSTANTS
  Families,    \* families of queries: indexes, roots and selectors that are combined
  NoRoot       \* no root is being examined

ASSUME InputsAssumption ==
  /\ \A f \in Families :
       /\ \A index \in f.indexes : IsIndex(index)
       /\ f.roots \subseteq [Systems -> SUBSET Hashes]
       /\ f.selectors \subseteq Selector
  /\ NoRoot \notin Systems \X Hashes

VARIABLES
  entries,     \* the entries of all architectures, merged
  gc_roots,    \* the roots of each architecture
  selector,
  pc,
  protected,   \* protected_reachable
  matched,     \* total_matched
  queue,       \* the work list of the walk in progress
  pending,     \* roots prune_broken_gc_roots has not looked at
  candidate,   \* the root it is walking from
  visited,     \* what that walk has met
  updated      \* updated_gc_roots

vars == <<entries, gc_roots, selector, pc, protected, matched, queue,
          pending, candidate, visited, updated>>

input == <<entries, gc_roots, selector>>
pruning == <<pending, candidate, visited, updated>>

Roots == Systems \X Hashes

(* The keys of matched_entries and of unmatched_entries. *)
Purged == matched \cap DOMAIN entries
Kept == DOMAIN entries \ matched

Init ==
  /\ \E f \in Families :
       entries \in f.indexes /\ gc_roots \in f.roots /\ selector \in f.selectors
  /\ pc = "collect"
  /\ protected = {} /\ matched = {} /\ queue = {}
  /\ pending = {} /\ candidate = NoRoot /\ visited = {} /\ updated = {}

(* active_gc_roots fill the queue when the selector protects them. *)
Collect ==
  /\ pc = "collect"
  /\ queue' = IF selector.protect_gc_roots THEN ActiveRoots(selector, gc_roots) ELSE {}
  /\ pc' = "protect"
  /\ UNCHANGED <<input, protected, matched, pruning>>

(* A walk that does not follow the references of what it protects. *)
ProtectRootsOnly ==
  /\ pc = "protect"
  /\ \E h \in queue :
       /\ protected' = protected \cup {h}
       /\ queue' = queue \ {h}
  /\ UNCHANGED <<input, pc, matched, pruning>>

Protect ==
  /\ pc = "protect"
  /\ \E h \in queue :
       /\ protected' = protected \cup {h}
       /\ queue' = (queue \cup References(entries, h)) \ protected'
  /\ UNCHANGED <<input, pc, matched, pruning>>

Match ==
  /\ pc = "protect"
  /\ queue = {}
  /\ matched' = InitialMatches(selector, entries, protected)
  /\ queue' = IF selector.cascade_mode = "Exact" THEN {} ELSE matched'
  /\ pc' = "cascade"
  /\ UNCHANGED <<input, protected, pruning>>

(* A cascade that forgets to queue what it has just matched. *)
CascadeOneLevel ==
  /\ pc = "cascade"
  /\ \E h \in queue :
       /\ matched' = matched \cup (Neighbours(entries, selector.cascade_mode, h) \ protected)
       /\ queue' = queue \ {h}
  /\ UNCHANGED <<input, pc, protected, pruning>>

Cascade ==
  /\ pc = "cascade"
  /\ \E h \in queue :
       LET found == (Neighbours(entries, selector.cascade_mode, h) \ protected) \ matched
       IN  /\ matched' = matched \cup found
           /\ queue' = (queue \ {h}) \cup found
  /\ UNCHANGED <<input, pc, protected, pruning>>

(* matched_entries are known; prune_broken_gc_roots starts. It sees the roots  *)
(* of every architecture, not only the active ones.                            *)
StartPrune ==
  /\ pc = "cascade"
  /\ queue = {}
  /\ pending' = {r \in Roots : r[2] \in gc_roots[r[1]]}
  /\ pc' = "prune"
  /\ UNCHANGED <<input, protected, matched, queue, candidate, visited, updated>>

(* A purged root is dropped at once. *)
SkipRoot ==
  /\ pc = "prune"
  /\ candidate = NoRoot
  /\ \E r \in pending : r[2] \in Purged /\ pending' = pending \ {r}
  /\ UNCHANGED <<input, pc, protected, matched, queue, candidate, visited, updated>>

TakeRoot ==
  /\ pc = "prune"
  /\ candidate = NoRoot
  /\ \E r \in pending :
       /\ r[2] \notin Purged
       /\ pending' = pending \ {r}
       /\ candidate' = r
       /\ queue' = {r[2]}
       /\ visited' = {r[2]}
  /\ UNCHANGED <<input, pc, protected, matched, updated>>

(* A walk that only asks whether a reference was purged. *)
BrokenIfPurged(h) == h \in Kept /\ entries[h].references \cap Purged # {}

(* The walk meets a path that is not indexed, or one whose references are not *)
(* all kept: the root is broken.                                              *)
Broken(h) ==
  \/ h \notin DOMAIN entries
  \/ h \in Kept /\ ~ (entries[h].references \subseteq Kept)

EndWalk == candidate' = NoRoot /\ queue' = {} /\ visited' = {}

DropRoot ==
  /\ candidate # NoRoot
  /\ \E h \in queue : Broken(h)
  /\ EndWalk
  /\ UNCHANGED <<input, pc, protected, matched, pending, updated>>

(* A walk that queues what it has already met. *)
WalkAgain ==
  /\ candidate # NoRoot
  /\ \E h \in queue :
       /\ ~ Broken(h)
       /\ LET found == IF h \in Kept THEN entries[h].references ELSE {}
          IN  /\ visited' = visited \cup found
              /\ queue' = (queue \ {h}) \cup found
  /\ UNCHANGED <<input, pc, protected, matched, pending, candidate, updated>>

Walk ==
  /\ candidate # NoRoot
  /\ \E h \in queue :
       /\ ~ Broken(h)
       /\ LET found == (IF h \in Kept THEN entries[h].references ELSE {}) \ visited
          IN  /\ visited' = visited \cup found
              /\ queue' = (queue \ {h}) \cup found
  /\ UNCHANGED <<input, pc, protected, matched, pending, candidate, updated>>

KeepRoot ==
  /\ candidate # NoRoot
  /\ queue = {}
  /\ updated' = updated \cup {candidate}
  /\ EndWalk
  /\ UNCHANGED <<input, pc, protected, matched, pending>>

Finish ==
  /\ pc = "prune"
  /\ pending = {} /\ candidate = NoRoot
  /\ pc' = "done"
  /\ UNCHANGED <<input, protected, matched, queue, pruning>>

(* The answer is out; any other state without a step is a deadlock. *)
Returned == pc = "done" /\ UNCHANGED vars

Next ==
  \/ Collect \/ Protect \/ Match \/ Cascade
  \/ StartPrune \/ SkipRoot \/ TakeRoot \/ DropRoot \/ Walk \/ KeepRoot \/ Finish
  \/ Returned

Spec == Init /\ [][Next]_vars

-------------------------------------------------------------------------------
(* The types of the state. *)
TypeOK ==
  /\ IsIndex(entries)
  /\ gc_roots \in [Systems -> SUBSET Hashes]
  /\ selector \in Selector
  /\ pc \in {"collect", "protect", "cascade", "prune", "done"}
  /\ {protected, matched, queue, visited} \subseteq SUBSET Hashes
  /\ pending \subseteq Roots /\ updated \subseteq Roots
  /\ candidate \in Roots \cup {NoRoot}
  /\ candidate # NoRoot => pc = "prune"

(* protect_gc_roots: whatever the cascade, nothing that an active root         *)
(* reaches through indexed references is ever purged.                          *)
RootsProtected ==
  pc = "done" /\ selector.protect_gc_roots =>
    Purged \cap Reach(entries, "Transitive", {}, ActiveRoots(selector, gc_roots)) = {}

(* The query answers with exactly the entries that the cascade reaches from    *)
(* the initial matches without entering the protected set.                     *)
PurgeExact ==
  pc = "done" => Purged = PurgedSet(selector, entries, gc_roots)

(* prune_broken_gc_roots keeps exactly the roots all of whose transitive       *)
(* references are in the kept entries: no published root has a hole below it,  *)
(* and no sound root is lost.                                                  *)
RootsExact ==
  pc = "done" =>
    updated = {r \in Roots : r[2] \in gc_roots[r[1]] /\ Sound(entries, Kept, r[2])}

(* With the default cascade of purge, and with the full one, no kept entry     *)
(* references a purged entry, protected roots or not: a client that finds an   *)
(* entry after the purge finds the rest of its closure as well as before.      *)
NoDanglingReference ==
  pc = "done" /\ selector.cascade_mode \in {"Dependents", "FullTree"} =>
    \A h \in Kept : entries[h].references \cap Purged = {}

(* The phases still ahead, and a bound on the steps of the present one. *)
PhasesLeft ==
  CASE pc = "collect" -> 4 [] pc = "protect" -> 3 [] pc = "cascade" -> 2
    [] pc = "prune" -> 1 [] pc = "done" -> 0

WorkLeft ==
  CASE pc = "protect" -> Cardinality(Hashes \ protected)
    [] pc = "cascade" -> 2 * Cardinality(Hashes \ matched) + Cardinality(queue)
    [] pc = "prune" ->
         (2 * Cardinality(Hashes) + 1) * Cardinality(pending)
         + IF candidate = NoRoot THEN 0
           ELSE 1 + 2 * Cardinality(Hashes \ visited) + Cardinality(queue)
    [] OTHER -> 0

(* Every query ends: each step of the four work lists leaves less to do, so    *)
(* that cycles and self references cannot keep a walk alive; and no query is   *)
(* stuck before its answer, since only Returned is left without another step.  *)
WorkRunsOut ==
  [][\/ PhasesLeft' < PhasesLeft
     \/ PhasesLeft' = PhasesLeft /\ WorkLeft' < WorkLeft]_vars
===============================================================================
