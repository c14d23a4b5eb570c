------------------------------ MODULE CacheGraph ------------------------------
(* The cache index read as a dependency graph (nixcache-core filter.rs and    *)
(* purge.rs). An index is a function from store hashes to entries; an entry   *)
(* carries the hashes it references and the system it was built for. A        *)
(* reference may leave the index: paths that a public cache serves are never  *)
(* uploaded.                                                                  *)
EXTENDS FiniteSets

CONSTANTS
  Hashes,    \* StoreHash: every hash that can occur, indexed or only referenced
  Systems,   \* the known values of SystemArch
  NoSystem   \* IndexEntry.system = None

ASSUME NoSystemAssumption == NoSystem \notin Systems

Cascades == {"Exact", "Dependents", "Transitive", "FullTree"}

Entry == [references : SUBSET Hashes, system : Systems \cup {NoSystem}]

IsIndex(entries) ==
  DOMAIN entries \subseteq Hashes /\ \A h \in DOMAIN entries : entries[h] \in Entry

(* forward_graph: only indexed paths have outgoing edges. *)
References(entries, h) ==
  IF h \in DOMAIN entries THEN entries[h].references ELSE {}

(* reverse_graph: a referenced hash has dependents even when it is not indexed. *)
Dependents(entries, h) == {x \in DOMAIN entries : h \in entries[x].references}

(* The cascade with its two directions exchanged. *)
NeighboursSwapped(entries, mode, h) ==
  {x \in Hashes : \/ /\ mode \in {"Dependents", "FullTree"}
                     /\ x \in References(entries, h)
                  \/ /\ mode \in {"Transitive", "FullTree"}
                     /\ x \in Dependents(entries, h)}

(* Where the cascade looks next from h. *)
Neighbours(entries, mode, h) ==
  {x \in Hashes : \/ /\ mode \in {"Dependents", "FullTree"}
                     /\ x \in Dependents(entries, h)
                  \/ /\ mode \in {"Transitive", "FullTree"}
                     /\ x \in References(entries, h)}

(* A walk that never enters the barrier cannot leave S. *)
Closed(entries, mode, barrier, S) ==
  \A x \in S : Neighbours(entries, mode, x) \ barrier \subseteq S

(* What a walk from seed finds: the least closed set above it. *)
Reach(entries, mode, barrier, seed) ==
  {x \in Hashes : \A C \in SUBSET Hashes :
     seed \subseteq C /\ Closed(entries, mode, barrier, C) => x \in C}

(* A CacheSelector. `items` is what the item filters (hash, pattern, time,    *)
(* size, job, run) match, taken together; has_items is has_item_filters.      *)
Selector ==
  [scope : {"All", "Filtered", "None"}, systems : SUBSET Systems,
   has_items : BOOLEAN, items : SUBSET Hashes,
   cascade_mode : Cascades, protect_gc_roots : BOOLEAN]

(* The filter by architecture: an entry without a system fails any filter. *)
SystemMatches(selector, entry) ==
  selector.systems = {} \/ entry.system \in selector.systems

(* FilterPredicates::evaluate_entry *)
EvaluateEntry(selector, entries, h) ==
  /\ SystemMatches(selector, entries[h])
  /\ selector.has_items => h \in selector.items

(* The roots a query looks at: those of the systems it targets. *)
ActiveRoots(selector, gc_roots) ==
  UNION {gc_roots[s] : s \in {t \in Systems :
    selector.scope = "None" \/ selector.systems = {} \/ t \in selector.systems}}

(* Round one of a query: what the scope selects outside the protected set. *)
InitialMatches(selector, entries, protected) ==
  {h \in DOMAIN entries :
     /\ selector.protect_gc_roots => h \notin protected
     /\ \/ selector.scope = "All" /\ SystemMatches(selector, entries[h])
        \/ selector.scope = "Filtered" /\ EvaluateEntry(selector, entries, h)}

(* The reference result of each part of evaluate_cache_purge. *)
ProtectedSet(selector, entries, gc_roots) ==
  IF selector.protect_gc_roots
  THEN Reach(entries, "Transitive", {}, ActiveRoots(selector, gc_roots))
  ELSE {}

PurgedSet(selector, entries, gc_roots) ==
  LET protected == ProtectedSet(selector, entries, gc_roots)
  IN  Reach(entries, selector.cascade_mode, protected,
            InitialMatches(selector, entries, protected))
        \cap DOMAIN entries

(* A root is kept when everything it reaches is. *)
Sound(entries, kept, root) == Reach(entries, "Transitive", {}, {root}) \subseteq kept
===============================================================================
