----------------------------- MODULE MCCacheQuery -----------------------------
(* Instances of CacheQuery: every graph over a few hashes, references that     *)
(* leave the index included, under every selector of a family.                 *)
EXTENDS CacheQuery, TLC

CONSTANTS x86, arm

IndexesOver(P, systems) ==
  UNION {[D -> [references : SUBSET P, system : systems]] : D \in SUBSET P}

(* One architecture: what matters is the item filters and the cascade. *)
OneSystem ==
  [indexes |-> IndexesOver(Hashes, {x86}),
   roots |-> {r \in [Systems -> SUBSET Hashes] : r[arm] = {}},
   selectors |->
     [scope : {"Filtered"}, systems : {{}}, has_items : {TRUE}, items : SUBSET Hashes \ {{}},
      cascade_mode : Cascades, protect_gc_roots : BOOLEAN]]

(* Two architectures and entries without one, over two hashes: every scope,   *)
(* with and without an item filter.                                           *)
TwoSystems(P) ==
  [indexes |-> IndexesOver(P, {x86, arm, NoSystem}),
   roots |-> [Systems -> SUBSET P],
   selectors |->
     [scope : {"All", "Filtered", "None"}, systems : SUBSET Systems,
      has_items : {FALSE}, items : {{}},
      cascade_mode : {"Exact", "FullTree"}, protect_gc_roots : BOOLEAN]
     \cup
     [scope : {"Filtered"}, systems : SUBSET Systems,
      has_items : {TRUE}, items : {{h} : h \in P},
      cascade_mode : {"Dependents", "Transitive"}, protect_gc_roots : BOOLEAN]]

AllFamilies == {OneSystem} \cup {TwoSystems(P) : P \in {Q \in SUBSET Hashes : Cardinality(Q) = 2}}

HashSymmetry == Permutations(Hashes)
===============================================================================
